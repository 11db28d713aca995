---------------------------- MODULE JobRunStore ----------------------------
(***************************************************************************)
(* The durable job_run table (SqlAlchemyJobRunStore over the JobRun model) *)
(* that the import API, the provider worker and the task runner share.     *)
(*                                                                         *)
(* A row is what the lifecycle can tell apart: its task key, its status,   *)
(* its phase, its started_at stamp, its attempt number (run_number and     *)
(* attempt are always advanced together) and the class of its error        *)
(* summary.  Payload, business date and error wording are abstracted.      *)
(* Stamps come from one clock of microsecond resolution, so every stamp is *)
(* new: `now' is the last one.                                             *)
(***************************************************************************)
EXTENDS Naturals, FiniteSets

CONSTANTS
  Key,    \* stable task keys  data-import:<date>:<provider>-<scope>
  NoKey,  \* the key of a row that does not exist yet
  Run     \* run ids (uuid4); an id is absent until a row is inserted with it

ASSUME NoKeyAssumption == NoKey \notin Key

VARIABLES
  rows,   \* the job_run table: [Run -> Row]
  now     \* the last started_at stamp handed out

Status == {"absent", "queued", "running", "succeeded", "failed"}
Phase == {"enqueueing", "requeueing", "provider-import"}

\* error_summary: none, one with a prefix retryable_error_summary accepts, any other.
Error == {"none", "dependency", "other"}

Row == [key: Key \cup {NoKey}, status: Status, phase: Phase,
        started: Nat, attempt: Nat, error: Error]

Blank == [key |-> NoKey, status |-> "absent", phase |-> "enqueueing",
          started |-> 0, attempt |-> 0, error |-> "none"]

Absent(r) == rows[r].status = "absent"
Active(status) == status \in {"queued", "running"}

RowsOf(k) == {r \in Run : ~Absent(r) /\ rows[r].key = k}

----------------------------------------------------------------------------
(* Reads.  latest() orders by started_at and then by the random id, which is *)
(* any of the rows that share the greatest stamp.                          *)

LatestOf(k) == {r \in RowsOf(k) : \A s \in RowsOf(k) : rows[s].started <= rows[r].started}

LatestIs(k, status) == \E r \in LatestOf(k) : rows[r].status = status

\* run_number and attempt of the row to be created next.
NextAttempt(k) == IF RowsOf(k) = {} THEN {1} ELSE {rows[r].attempt + 1 : r \in LatestOf(k)}

\* The partial unique index uq_job_run_active_task_key: writing an active
\* row under id r raises IntegrityError when another row of its key is active.
NoIndex(r, k) == TRUE
IndexAdmits(r, k) ==
  \A s \in Run \ {r} : ~(Active(rows[s].status) /\ rows[s].key = k)

KeyTaken(k) == \E s \in Run : Active(rows[s].status) /\ rows[s].key = k

----------------------------------------------------------------------------
(* Writes.  Each one is a single committed transaction.                    *)

StoreInit ==
  /\ rows = [r \in Run |-> Blank]
  /\ now = 0

InsertUnstamped(r, row) ==
  /\ Absent(r)
  /\ IndexAdmits(r, row.key)
  /\ now' = now + 1
  /\ rows' = [rows EXCEPT ![r] = row]
\* session.add + flush of a row whose started_at was just stamped.
Insert(r, row) ==
  /\ Absent(r)
  /\ IndexAdmits(r, row.key)
  /\ now' = now + 1
  /\ rows' = [rows EXCEPT ![r] = [row EXCEPT !.started = now + 1]]

\* replace(): every column is overwritten from the caller's record, whatever
\* the row holds by then.
Replace(r, row) ==
  /\ Active(row.status) => IndexAdmits(r, row.key)
  /\ rows' = [rows EXCEPT ![r] = row]
  /\ UNCHANGED now

\* UPDATE ... WHERE status = 'queued' of claim_queued(): queued -> running.
QueuedNow(r) == rows[r].status = "queued"
Claimed(r) == [rows[r] EXCEPT !.status = "running", !.phase = "provider-import",
                              !.started = now + 1, !.error = "none"]
Claim(r) ==
  /\ QueuedNow(r)
  /\ now' = now + 1
  /\ rows' = [rows EXCEPT ![r] = Claimed(r)]

\* UPDATE ... WHERE status = 'queued' AND started_at = :expected.
RequeuedAsSeen(r, seen) == QueuedNow(r) /\ rows[r].started = seen.started
Requeued(r) == [rows[r] EXCEPT !.phase = "requeueing", !.started = now + 1,
                               !.error = "none"]
ClaimForRequeue(r, seen) ==
  /\ RequeuedAsSeen(r, seen)
  /\ now' = now + 1
  /\ rows' = [rows EXCEPT ![r] = Requeued(r)]

MarkPhaseBlind(r) ==
  /\ rows' = [rows EXCEPT ![r].status = "queued", ![r].phase = "provider-import"]
  /\ UNCHANGED now
\* mark_queued(): the phase only, and only while the row is still queued.
MarkPhase(r) ==
  /\ rows' = IF QueuedNow(r) THEN [rows EXCEPT ![r].phase = "provider-import"]
             ELSE rows
  /\ UNCHANGED now

StoreTypeOK ==
  /\ rows \in [Run -> Row]
  /\ now \in Nat
============================================================================
