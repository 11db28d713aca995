------------------------------ MODULE JobRuns ------------------------------
(***************************************************************************)
(* The provider-import job lifecycle: admin API requests (api/v1/admin.py) *)
(* reserve, dispatch, retry and recover jobs; RQ carries one message per   *)
(* dispatch; workers run IdempotentTask.__call__ (jobs/idempotency.py).    *)
(* All of them meet in the job_run table of JobRunStore.                   *)
(*                                                                         *)
(* A request that changes nothing (wrong status, not stale yet, provider   *)
(* disabled, key already reserved) is answered and leaves no trace: it is  *)
(* a stuttering step.  The environment is described by fault, fixed from   *)
(* the start:                                                              *)
(*   "outage"   Redis refuses an enqueue, and says so                      *)
(*   "ackloss"  Redis takes the message but the client times out           *)
(*   "backlog"  a queued row goes stale while its message is still waiting *)
(*   "stall"    another process acts between two database statements of    *)
(*              one call sequence (a SELECT and the write that relies on   *)
(*              it)                                                        *)
(*   "crash"    a handler or a worker dies                                 *)
(*   "background"  the API process runs the jobs itself, in one thread: a  *)
(*              crash takes handlers, waiting jobs and the thread with it, *)
(*              and the startup fails the rows left running                *)
(* Without "stall" such a sequence is undisturbed on its key; without      *)
(* "backlog" JOB_QUEUE_STALE_AFTER_SECONDS exceeds the time any message    *)
(* or request needs to reach the claim.                                    *)
(***************************************************************************)
EXTENDS JobRunStore

CONSTANTS
  NoRun,       \* a process that holds no run id
  Request,     \* API requests (one handler thread each)
  Worker,      \* RQ workers
  Environments, \* the environments considered, each a set of faults
  MaxCrashes    \* bound on process crashes

ASSUME NoRunAssumption == NoRun \notin Run
ASSUME FaultAssumption ==
  Environments \subseteq SUBSET {"outage", "ackloss", "backlog", "stall", "crash", "background"}
ASSUME BackgroundAssumption ==
  \A e \in Environments : "background" \in e => "ackloss" \notin e
ASSUME CrashAssumption == MaxCrashes \in Nat

VARIABLES
  api,      \* per request: where its handler stands and the record it holds
  pending,  \* per run id: messages waiting in RQ that were sent for it
  task,     \* per worker: where IdempotentTask stands and its record
  effects,  \* history: successful provider operations per key
  crashes,  \* crashes so far
  fault     \* what the environment may do in this behaviour, see above

vars == <<rows, now, api, pending, task, effects, crashes, fault>>
storeVars == <<rows, now>>

ApiPc == {"idle", "reserve", "insert", "requeue", "replace", "enqueue",
          "mark", "fail", "done"}
TaskPc == {"idle", "latest", "select", "claim", "append", "abandon", "exec", "record"}

\* Read-then-write sequences on a key.
ApiWindow == {"reserve", "insert", "requeue", "replace"}
TaskWindow == {"select", "claim", "append", "abandon"}

Undisturbed(k) ==
  \/ "stall" \in fault
  \/ /\ \A q \in Request : api[q].pc \in ApiWindow => api[q].record.key # k
     /\ \A w \in Worker : task[w].pc \in TaskWindow => task[w].record.key # k

Idle == [pc |-> "idle", run |-> NoRun, record |-> Blank]

Init ==
  /\ StoreInit
  /\ api = [q \in Request |-> Idle]
  /\ pending = [r \in Run |-> 0]
  /\ task = [w \in Worker |-> Idle]
  /\ effects = [k \in Key |-> 0]
  /\ crashes = 0
  /\ fault \in Environments

ApiAt(q, pc) == api[q].pc = pc
ApiGoto(q, pc) == api' = [api EXCEPT ![q].pc = pc]
ApiHold(q, pc, r, record) ==
  api' = [api EXCEPT ![q] = [pc |-> pc, run |-> r, record |-> record]]

TaskAt(w, pc) == task[w].pc = pc
TaskHold(w, pc, r, record) ==
  task' = [task EXCEPT ![w] = [pc |-> pc, run |-> r, record |-> record]]
TaskEnd(w) == task' = [task EXCEPT ![w] = Idle]

NewRow(k, status, phase, attempt) ==
  [key |-> k, status |-> status, phase |-> phase, started |-> 0,
   attempt |-> attempt, error |-> "none"]

----------------------------------------------------------------------------
(* Dispatch: _enqueue_provider.                                            *)

\* POST /admin/data-imports/...: reserve_queued_owned's SELECT.  Any row of
\* the key, whatever its status, is returned instead of reserving.
ReservableUnlessActive(k) ==
  RowsOf(k) = {} \/ LatestIs(k, "failed") \/ LatestIs(k, "succeeded")
Reservable(k) == RowsOf(k) = {}

Submit(q, k) ==
  /\ ApiAt(q, "idle")
  /\ Undisturbed(k)
  /\ Reservable(k)
  /\ \E a \in NextAttempt(k) :
       ApiHold(q, "insert", NoRun, NewRow(k, "queued", "enqueueing", a))
  /\ UNCHANGED <<storeVars, pending, task, effects, crashes, fault>>

\* retry_job on a failed row: it must be the latest and its error retryable.
RetryableAnyFailure(r) == rows[r].status = "failed"
Retryable(r) == rows[r].status = "failed" /\ rows[r].error = "dependency"

RetryFailed(q, r) ==
  /\ ApiAt(q, "idle")
  /\ ~Absent(r) /\ Undisturbed(rows[r].key) /\ r \in LatestOf(rows[r].key)
  /\ Retryable(r)
  /\ ApiHold(q, "reserve", r, rows[r])
  /\ UNCHANGED <<storeVars, pending, task, effects, crashes, fault>>

\* reserve_queued_owned(retry_failed=True): its SELECT.  Only the status of
\* the latest row is looked at here.
ReserveRetry(q) ==
  LET k == api[q].record.key IN
  /\ ApiAt(q, "reserve")
  /\ IF LatestIs(k, "failed")
     THEN \E a \in NextAttempt(k) :
            ApiHold(q, "insert", NoRun, NewRow(k, "queued", "enqueueing", a))
     ELSE ApiGoto(q, "done")
  /\ UNCHANGED <<storeVars, pending, task, effects, crashes, fault>>

\* ... and its INSERT.  An IntegrityError hands the winner's row back.
ReserveInsert(q) ==
  LET row == api[q].record IN
  /\ ApiAt(q, "insert")
  /\ \/ \E r \in Run :
          /\ Insert(r, row)
          /\ ApiHold(q, "enqueue", r, [row EXCEPT !.started = now + 1])
     \/ /\ KeyTaken(row.key)
        /\ ApiGoto(q, "done")
        /\ UNCHANGED storeVars
  /\ UNCHANGED <<pending, task, effects, crashes, fault>>

\* enqueue_fn: the message is sent under the row's run id.
Enqueue(q) ==
  /\ ApiAt(q, "enqueue")
  /\ pending' = [pending EXCEPT ![api[q].run] = @ + 1]
  /\ \/ ApiGoto(q, "mark")
     \/ "ackloss" \in fault /\ ApiGoto(q, "fail")
  /\ UNCHANGED <<storeVars, task, effects, crashes, fault>>

EnqueueRefused(q) ==
  /\ "outage" \in fault
  /\ ApiAt(q, "enqueue")
  /\ ApiGoto(q, "fail")
  /\ UNCHANGED <<storeVars, pending, task, effects, crashes, fault>>

MarkQueued(q) ==
  /\ ApiAt(q, "mark")
  /\ Undisturbed(api[q].record.key)
  /\ MarkPhase(api[q].run)
  /\ ApiGoto(q, "done")
  /\ UNCHANGED <<pending, task, effects, crashes, fault>>

\* _mark_queue_failed: replace() from the record held since the reservation.
MarkQueueFailed(q) ==
  /\ ApiAt(q, "fail")
  /\ Undisturbed(api[q].record.key)
  /\ Replace(api[q].run, [api[q].record EXCEPT !.status = "failed", !.error = "dependency"])
  /\ ApiGoto(q, "done")
  /\ UNCHANGED <<pending, task, effects, crashes, fault>>

----------------------------------------------------------------------------
(* Recovery of a stale queued row: retry_job -> _requeue_provider.         *)

RecoverOnlySent(r) == rows[r].status = "queued" /\ rows[r].phase = "provider-import"

\* Work still on its way to the claim of row r, or to its refusal.
InFlight(r) ==
  \/ pending[r] > 0
  \/ \E q \in Request : api[q].run = r /\ api[q].pc \notin {"idle", "reserve", "insert", "done"}
  \/ \E w \in Worker : /\ task[w].pc \in {"latest", "select", "claim", "abandon"}
                       /\ task[w].record.key = rows[r].key

\* _queued_is_stale: any time may pass, so with a backlog nothing but the
\* status is certain.
QueuedIsStale(r) ==
  /\ rows[r].status = "queued"
  /\ "backlog" \in fault \/ ~InFlight(r)

RetryStale(q, r) ==
  /\ ApiAt(q, "idle")
  /\ ~Absent(r) /\ Undisturbed(rows[r].key) /\ r \in LatestOf(rows[r].key)
  /\ QueuedIsStale(r)
  /\ ApiHold(q, "requeue", r, rows[r])
  /\ UNCHANGED <<storeVars, pending, task, effects, crashes, fault>>

RequeueClaim(q) ==
  LET r == api[q].run IN
  /\ ApiAt(q, "requeue")
  /\ \/ /\ ClaimForRequeue(r, api[q].record)
        /\ ApiHold(q, "replace", r, Requeued(r))
     \/ /\ ~RequeuedAsSeen(r, api[q].record)
        /\ ApiGoto(q, "done")
        /\ UNCHANGED storeVars
  /\ UNCHANGED <<pending, task, effects, crashes, fault>>

\* store.replace(record) rewrites the whole row to carry the owner id along;
\* an IntegrityError is not caught and ends the request.
RequeueReplace(q) ==
  /\ ApiAt(q, "replace")
  /\ \/ /\ Replace(api[q].run, api[q].record)
        /\ ApiGoto(q, "enqueue")
     \/ /\ ~IndexAdmits(api[q].run, api[q].record.key)
        /\ ApiGoto(q, "done")
        /\ UNCHANGED storeVars
  /\ UNCHANGED <<pending, task, effects, crashes, fault>>

----------------------------------------------------------------------------
(* Worker: run_*_import -> IdempotentTask.__call__.                        *)

\* RQ hands a message to a free worker (external); the dispatcher of the API
\* process has a pool of one thread.
ThreadFree == "background" \in fault => \A v \in Worker : TaskAt(v, "idle")

Take(w, r) ==
  /\ TaskAt(w, "idle") /\ ThreadFree
  /\ pending[r] > 0
  /\ pending' = [pending EXCEPT ![r] = @ - 1]
  /\ TaskHold(w, "latest", r, [Blank EXCEPT !.key = rows[r].key])
  /\ UNCHANGED <<storeVars, api, effects, crashes, fault>>

\* previous = store.latest(key): replay, conflict, claim or a new attempt.
NewAttemptAllowed(k) == RowsOf(k) = {} \/ LatestIs(k, "failed")

TaskLatest(w) ==
  LET k == task[w].record.key IN
  /\ TaskAt(w, "latest")
  /\ Undisturbed(k)
  /\ \/ LatestIs(k, "queued") /\ TaskHold(w, "select", task[w].run, task[w].record)
     \/ /\ NewAttemptAllowed(k)
        /\ \E a \in NextAttempt(k) :
             TaskHold(w, "append", task[w].run,
                      NewRow(k, "running", "provider-import", a))
     \/ /\ ~LatestIs(k, "queued") /\ ~NewAttemptAllowed(k)
        /\ TaskEnd(w)
  /\ UNCHANGED <<storeVars, api, pending, effects, crashes, fault>>

\* claim_queued's SELECT of the latest row ...
ClaimSelect(w) ==
  LET k == task[w].record.key IN
  /\ TaskAt(w, "select")
  /\ \/ \E r \in LatestOf(k) : QueuedNow(r) /\ TaskHold(w, "claim", r, task[w].record)
     \/ ~LatestIs(k, "queued") /\ TaskEnd(w)
  /\ UNCHANGED <<storeVars, api, pending, effects, crashes, fault>>

\* ... and its compare-and-set UPDATE.
ClaimUpdate(w) ==
  LET r == task[w].run IN
  /\ TaskAt(w, "claim")
  /\ \/ Claim(r) /\ TaskHold(w, "exec", r, Claimed(r))
     \/ ~QueuedNow(r) /\ TaskEnd(w) /\ UNCHANGED storeVars
  /\ UNCHANGED <<api, pending, effects, crashes, fault>>

\* store.append of a running row; an IntegrityError is a StateConflictError.
AppendRun(w) ==
  LET row == task[w].record IN
  /\ TaskAt(w, "append")
  /\ \/ \E r \in Run :
          /\ Insert(r, row)
          /\ TaskHold(w, "exec", r, [row EXCEPT !.started = now + 1])
     \/ /\ KeyTaken(row.key)
        /\ TaskEnd(w)
        /\ UNCHANGED storeVars
  /\ UNCHANGED <<api, pending, effects, crashes, fault>>

\* operation(): the provider import succeeds or raises.
Outcome(w, status, error) ==
  [task[w].record EXCEPT !.status = status, !.error = error]

Operate(w) ==
  /\ TaskAt(w, "exec")
  /\ \/ /\ TaskHold(w, "record", task[w].run, Outcome(w, "succeeded", "none"))
        /\ effects' = [effects EXCEPT ![task[w].record.key] = @ + 1]
     \/ \E error \in {"dependency", "other"} :
          /\ TaskHold(w, "record", task[w].run, Outcome(w, "failed", error))
          /\ UNCHANGED effects
  /\ UNCHANGED <<storeVars, api, pending, crashes, fault>>

\* store.replace(succeeded) or store.replace(failed).
Record(w) ==
  /\ TaskAt(w, "record")
  /\ Undisturbed(task[w].record.key)
  /\ Replace(task[w].run, task[w].record)
  /\ TaskEnd(w)
  /\ UNCHANGED <<api, pending, effects, crashes, fault>>

\* The entry point raises before the task looks at its row: on_failure of
\* the dispatcher, _fail_background_provider_job, gets the row ...
EntryFails(w) ==
  LET r == task[w].run IN
  /\ "background" \in fault
  /\ TaskAt(w, "latest") /\ Undisturbed(task[w].record.key)
  /\ \/ /\ Active(rows[r].status)
        /\ \E error \in {"dependency", "other"} :
             TaskHold(w, "abandon", r, [rows[r] EXCEPT !.status = "failed", !.error = error])
     \/ ~Active(rows[r].status) /\ TaskEnd(w)
  /\ UNCHANGED <<storeVars, api, pending, effects, crashes, fault>>

\* ... and replaces it, whatever it holds by then.
EntryRecord(w) ==
  /\ "background" \in fault
  /\ TaskAt(w, "abandon")
  /\ Replace(task[w].run, task[w].record)
  /\ TaskEnd(w)
  /\ UNCHANGED <<api, pending, effects, crashes, fault>>

----------------------------------------------------------------------------
(* Crashes: the process is gone, the table and RQ are not.                 *)

CrashPossible == "crash" \in fault /\ crashes < MaxCrashes

ApiCrash(q) ==
  /\ CrashPossible /\ "background" \notin fault
  /\ api[q].pc \notin {"idle", "done"}
  /\ ApiGoto(q, "done")
  /\ crashes' = crashes + 1
  /\ UNCHANGED <<storeVars, pending, task, effects, fault>>

WorkerCrash(w) ==
  /\ CrashPossible /\ "background" \notin fault
  /\ ~TaskAt(w, "idle")
  /\ TaskEnd(w)
  /\ crashes' = crashes + 1
  /\ UNCHANGED <<storeVars, api, pending, effects, fault>>

LeftRunning(row) == row
\* _fail_abandoned_provider_jobs
Abandoned(row) ==
  IF row.status = "running" THEN [row EXCEPT !.status = "failed", !.error = "dependency"] ELSE row

\* The API process dies with everything it holds and starts again.
Restart ==
  /\ CrashPossible /\ "background" \in fault
  /\ rows' = [r \in Run |-> Abandoned(rows[r])]
  /\ api' = [q \in Request |-> IF ApiAt(q, "idle") THEN api[q] ELSE [api[q] EXCEPT !.pc = "done"]]
  /\ pending' = [r \in Run |-> 0]
  /\ task' = [w \in Worker |-> Idle]
  /\ crashes' = crashes + 1
  /\ UNCHANGED <<now, effects, fault>>

----------------------------------------------------------------------------
ApiStep(q) ==
  \/ ReserveRetry(q) \/ ReserveInsert(q)
  \/ Enqueue(q) \/ EnqueueRefused(q) \/ MarkQueued(q) \/ MarkQueueFailed(q)
  \/ RequeueClaim(q) \/ RequeueReplace(q)

TaskStep(w) ==
  \/ TaskLatest(w) \/ ClaimSelect(w) \/ ClaimUpdate(w) \/ AppendRun(w)
  \/ Operate(w) \/ Record(w) \/ EntryFails(w) \/ EntryRecord(w)

Next ==
  \/ \E q \in Request :
       \/ \E k \in Key : Submit(q, k)
       \/ \E r \in Run : RetryFailed(q, r) \/ RetryStale(q, r)
       \/ ApiStep(q)
       \/ ApiCrash(q)
  \/ \E w \in Worker :
       \/ \E r \in Run : Take(w, r)
       \/ TaskStep(w)
       \/ WorkerCrash(w)
  \/ Restart

Spec == Init /\ [][Next]_vars

ApiTypeOK ==
  /\ api \in [Request -> [pc: ApiPc, run: Run \cup {NoRun}, record: Row]]
  /\ \A q \in Request : api[q].pc \notin {"idle", "insert", "done"} => api[q].run \in Run

TaskTypeOK ==
  /\ task \in [Worker -> [pc: TaskPc, run: Run \cup {NoRun}, record: Row]]
  /\ \A w \in Worker : task[w].pc # "idle" => task[w].run \in Run

\* The variables have their types, and a process that needs a run id has one.
TypeOK ==
  /\ StoreTypeOK
  /\ ApiTypeOK
  /\ TaskTypeOK
  /\ pending \in [Run -> Nat]
  /\ effects \in [Key -> Nat]
  /\ crashes \in 0..MaxCrashes
  /\ fault \in Environments

----------------------------------------------------------------------------
(* Properties.                                                             *)

\* At most one row of a task key is queued or running, in every environment:
\* reservations, worker appends and blind replaces all race for the index.
OneActivePerKey ==
  \A r, s \in Run :
    (Active(rows[r].status) /\ Active(rows[s].status) /\ rows[r].key = rows[s].key)
      => r = s

\* Recovery never meets work that is still on its way: the staleness limit
\* exceeds the queueing time and no acknowledgement is lost.
NothingUnseen == fault \cap {"backlog", "ackloss"} = {}

\* Two workers never run the provider operation of one key at the same time,
\* wherever handlers and workers stall or die.
SingleExecution ==
  NothingUnseen =>
    \A v, w \in Worker :
      (TaskAt(v, "exec") /\ TaskAt(w, "exec") /\ task[v].record.key = task[w].record.key)
        => v = w

\* idempotency.py:333, "one side-effect execution per stable job key": over
\* all attempts, requests and messages the provider import of a key takes
\* effect at most once.
OneEffectPerKey ==
  fault \subseteq {"outage", "crash"} => \A k \in Key : effects[k] <= 1

\* README.md:97, a second attempt row appears only on top of a retryable
\* failure.
AttemptFollowsRetryable ==
  [][fault \subseteq {"outage", "crash"} =>
       \A r \in Run :
         Absent(r) /\ rows'[r].status # "absent" /\ RowsOf(rows'[r].key) # {}
           => \E s \in LatestOf(rows'[r].key) :
                rows[s].status = "failed" /\ rows[s].error = "dependency"]_vars

\* Neither a statement of another process between a read and its write, nor a
\* refused dispatch of a row whose message is still waiting.
WritesAreCurrent ==
  \/ fault \subseteq {"backlog", "crash", "background"}
  \/ fault \subseteq {"outage", "crash", "background"}

\* README.md:97, a succeeded row is final: no handler or worker overwrites it,
\* so that the recorded value can be replayed.
SucceededIsFinal ==
  [][WritesAreCurrent =>
       \A r \in Run : rows[r].status = "succeeded" => rows'[r] = rows[r]]_vars

\* main.py:339, a RUNNING row of the background mode is one the thread works
\* on: none is left behind by a restart, a failed entry point or a retry,
\* which no request could get started again.
RunningIsExecuted ==
  "background" \in fault =>
    \A r \in Run : rows[r].status = "running" =>
      \E w \in Worker : task[w].pc \in {"exec", "record"} /\ task[w].run = r

\* The row that is queued or running is the latest of its key: the only row
\* retry_job, claim_queued and the task runner can reach.
ActiveIsLatest ==
  WritesAreCurrent =>
    \A r \in Run : Active(rows[r].status) => r \in LatestOf(rows[r].key)

\* A job that was reserved is eventually decided: it leaves "queued".
QueuedIsDecided ==
  \A r \in Run : rows[r].status = "queued" ~> rows[r].status # "queued"

\* Handlers and free workers make progress; an operator recovers a stale row.
Fairness ==
  /\ \A q \in Request : WF_vars(ApiStep(q))
  /\ \A w \in Worker : WF_vars(TaskStep(w)) /\ WF_vars(\E r \in Run : Take(w, r))
  /\ \A r \in Run : WF_vars(\E q \in Request : RetryStale(q, r))

FairSpec == Spec /\ Fairness
============================================================================
