--------------------------- MODULE JobRunsProofs ---------------------------
(***************************************************************************)
(* Proofs about JobRuns for any keys, run ids, requests, workers and       *)
(* environment.                                                            *)
(*                                                                         *)
(* In every environment: the types, and that the table never holds two     *)
(* active rows of one task key.  The other properties name the             *)
(* environments they are claimed in, and rest on one another: HeldStatus   *)
(* (no running record is written back), OneToken (one sender, message or   *)
(* worker to a queued row), Current (what was read is still so), then      *)
(* EffectsTold (an effect has a row that tells of it) and                  *)
(* ReservesRetryable (a retry stands on a retryable failure).              *)
(***************************************************************************)
EXTENDS JobRuns, TLAPS

USE NoKeyAssumption, NoRunAssumption, CrashAssumption

\* A record built by NewRow is a row.
LEMMA NewRowType ==
  ASSUME NEW k \in Key \cup {NoKey}, NEW status \in Status, NEW phase \in Phase, NEW a \in Nat
  PROVE  NewRow(k, status, phase, a) \in Row
BY DEF NewRow, Row, Error

\* Updating columns of a row with well-typed values gives a row.
LEMMA RowUpdates ==
  ASSUME NEW row \in Row, NEW n \in Nat, NEW status \in Status,
         NEW phase \in Phase, NEW error \in Error
  PROVE  /\ [row EXCEPT !.started = n] \in Row
         /\ [row EXCEPT !.phase = phase] \in Row
         /\ [row EXCEPT !.status = status, !.error = error] \in Row
         /\ [row EXCEPT !.phase = phase, !.started = n, !.error = error] \in Row
         /\ [row EXCEPT !.status = status, !.phase = phase, !.started = n,
                        !.error = error] \in Row
BY DEF Row

\* The attempt numbers the store hands out are naturals, and the row latest()
\* returns is a row of the table.
LEMMA ReadTypes ==
  ASSUME StoreTypeOK, NEW k
  PROVE  /\ NextAttempt(k) \subseteq Nat
         /\ LatestOf(k) \subseteq Run
<1>1. LatestOf(k) \subseteq Run
  BY DEF LatestOf, RowsOf
<1>2. \A r \in LatestOf(k) : rows[r].attempt \in Nat
  BY <1>1 DEF StoreTypeOK, Row
<1>3. NextAttempt(k) \subseteq Nat
  BY <1>2 DEF NextAttempt
<1> QED BY <1>1, <1>3

\* Every store write keeps the table well formed.
LEMMA WriteTypes ==
  ASSUME StoreTypeOK, NEW r \in Run, NEW row \in Row
  PROVE  /\ Insert(r, row) => StoreTypeOK' /\ [row EXCEPT !.started = now + 1] \in Row
         /\ Replace(r, row) => StoreTypeOK'
         /\ Claim(r) => StoreTypeOK'
         /\ ClaimForRequeue(r, row) => StoreTypeOK'
         /\ MarkPhase(r) => StoreTypeOK'
         /\ Claimed(r) \in Row
         /\ Requeued(r) \in Row
<1> USE DEF StoreTypeOK
<1>1. now + 1 \in Nat /\ rows[r] \in Row
  OBVIOUS
<1>2. /\ "running" \in Status /\ "none" \in Error
      /\ "provider-import" \in Phase /\ "requeueing" \in Phase
  BY DEF Status, Error, Phase
<1>3. [row EXCEPT !.started = now + 1] \in Row
  BY <1>1, <1>2, RowUpdates
<1>4. Claimed(r) \in Row
  BY <1>1, <1>2, RowUpdates DEF Claimed
<1>5. Requeued(r) \in Row
  BY <1>1, <1>2, RowUpdates DEF Requeued
<1>6. MarkPhase(r) => StoreTypeOK'
  <2>1. [rows[r] EXCEPT !.phase = "provider-import"] \in Row
    BY <1>1, <1>2, RowUpdates
  <2> QED BY <2>1 DEF MarkPhase
<1> QED BY <1>3, <1>4, <1>5, <1>6 DEF Insert, Replace, Claim, ClaimForRequeue

\* A row of the table that is marked failed is a row of the same key.
LEMMA FailedRow ==
  ASSUME StoreTypeOK, NEW r \in Run, NEW error \in {"dependency", "other"}
  PROVE  /\ [rows[r] EXCEPT !.status = "failed", !.error = error] \in Row
         /\ [rows[r] EXCEPT !.status = "failed", !.error = error].key = rows[r].key
         /\ [rows[r] EXCEPT !.status = "failed", !.error = error].status = "failed"
BY DEF StoreTypeOK, Row, Status, Error

----------------------------------------------------------------------------
(* The processes' own state.                                               *)

\* A handler or a worker that moves to a known place with a row in hand keeps
\* the type of its component.
LEMMA ProcessTypes ==
  ASSUME TypeOK
  PROVE  /\ \A q \in Request : \A pc \in ApiPc : \A r \in Run : \A record \in Row :
              ApiHold(q, pc, r, record) => ApiTypeOK'
         /\ \A q \in Request : \A record \in Row :
              ApiHold(q, "insert", NoRun, record) => ApiTypeOK'
         /\ \A q \in Request : \A pc \in ApiPc :
              (api[q].run \in Run \/ pc = "done") /\ ApiGoto(q, pc) => ApiTypeOK'
         /\ \A w \in Worker : \A pc \in TaskPc : \A r \in Run : \A record \in Row :
              TaskHold(w, pc, r, record) => TaskTypeOK'
         /\ \A w \in Worker : TaskEnd(w) => TaskTypeOK'
<1>1. Blank \in Row
  BY DEF Blank, Row, Status, Phase, Error
<1>2. ASSUME NEW q \in Request, NEW pc \in ApiPc, NEW r \in Run, NEW record \in Row,
             ApiHold(q, pc, r, record)
      PROVE  ApiTypeOK'
  BY <1>2 DEF TypeOK, ApiTypeOK, ApiHold
<1>3. ASSUME NEW q \in Request, NEW record \in Row, ApiHold(q, "insert", NoRun, record)
      PROVE  ApiTypeOK'
  BY <1>3 DEF TypeOK, ApiTypeOK, ApiHold, ApiPc
<1>4. ASSUME NEW q \in Request, NEW pc \in ApiPc, api[q].run \in Run \/ pc = "done",
             ApiGoto(q, pc)
      PROVE  ApiTypeOK'
  BY <1>4 DEF TypeOK, ApiTypeOK, ApiGoto
<1>5. ASSUME NEW w \in Worker, NEW pc \in TaskPc, NEW r \in Run, NEW record \in Row,
             TaskHold(w, pc, r, record)
      PROVE  TaskTypeOK'
  BY <1>5 DEF TypeOK, TaskTypeOK, TaskHold
<1>6. ASSUME NEW w \in Worker, TaskEnd(w)
      PROVE  TaskTypeOK'
  BY <1>1, <1>6 DEF TypeOK, TaskTypeOK, TaskEnd, Idle, TaskPc
<1> QED BY <1>2, <1>3, <1>4, <1>5, <1>6

----------------------------------------------------------------------------
(* Type correctness.                                                       *)

\* The empty table and idle processes are well typed.
LEMMA InitType == Init => TypeOK
<1> SUFFICES ASSUME Init PROVE TypeOK
  OBVIOUS
<1>1. Blank \in Row
  BY DEF Blank, Row, Status, Phase, Error
<1>2. StoreTypeOK
  BY <1>1 DEF Init, StoreInit, StoreTypeOK
<1>3. ApiTypeOK /\ TaskTypeOK
  BY <1>1 DEF Init, Idle, ApiTypeOK, TaskTypeOK, ApiPc, TaskPc
<1> QED BY <1>2, <1>3 DEF Init, TypeOK

\* Every step of a handler of the API keeps the types.
LEMMA ApiStepType ==
  ASSUME TypeOK, NEW q \in Request, ApiStep(q)
  PROVE  TypeOK'
<1> DEFINE r == api[q].run
           row == api[q].record
<1>1. /\ row \in Row
      /\ api[q].pc \notin {"idle", "insert", "done"} => r \in Run
      /\ row.key \in Key \cup {NoKey}
  BY DEF TypeOK, ApiTypeOK, Row
<1>2. StoreTypeOK
  BY DEF TypeOK
<1> USE DEF TypeOK, ApiAt
<1>3. CASE ReserveRetry(q)
  <2>1. ASSUME NEW a \in NextAttempt(row.key)
        PROVE  NewRow(row.key, "queued", "enqueueing", a) \in Row
    BY <1>1, <1>2, ReadTypes, NewRowType DEF Status, Phase
  <2>2. ApiTypeOK'
    BY <1>3, <2>1, ProcessTypes DEF ReserveRetry, ApiPc
  <2>3. StoreTypeOK' /\ TaskTypeOK'
    BY <1>3 DEF ReserveRetry, storeVars, StoreTypeOK, TaskTypeOK
  <2> QED BY <1>3, <2>2, <2>3 DEF ReserveRetry
<1>4. CASE ReserveInsert(q)
  <2>1. ApiTypeOK' /\ StoreTypeOK'
    <3>1. CASE \E i \in Run : /\ Insert(i, row)
                             /\ ApiHold(q, "enqueue", i, [row EXCEPT !.started = now + 1])
      <4> PICK i \in Run : /\ Insert(i, row)
                           /\ ApiHold(q, "enqueue", i, [row EXCEPT !.started = now + 1])
        BY <3>1
      <4>1. [row EXCEPT !.started = now + 1] \in Row /\ StoreTypeOK'
        BY <1>1, <1>2, WriteTypes
      <4>2. "enqueue" \in ApiPc
        BY DEF ApiPc
      <4> QED BY <4>1, <4>2, ProcessTypes
    <3>2. CASE ApiGoto(q, "done") /\ UNCHANGED storeVars
      BY <3>2, ProcessTypes DEF ApiPc, storeVars, StoreTypeOK
    <3> QED BY <1>4, <3>1, <3>2 DEF ReserveInsert
  <2>2. TaskTypeOK'
    BY <1>4 DEF ReserveInsert, TaskTypeOK
  <2> QED BY <1>4, <2>1, <2>2 DEF ReserveInsert
<1>5. CASE Enqueue(q)
  <2>1. r \in Run /\ ApiTypeOK'
    BY <1>1, <1>5, ProcessTypes DEF Enqueue, ApiPc
  <2>2. StoreTypeOK' /\ TaskTypeOK'
    BY <1>5 DEF Enqueue, storeVars, StoreTypeOK, TaskTypeOK
  <2>3. pending' \in [Run -> Nat]
    BY <1>5, <2>1 DEF Enqueue
  <2> QED BY <1>5, <2>1, <2>2, <2>3 DEF Enqueue
<1>6. CASE EnqueueRefused(q)
  <2>1. ApiTypeOK'
    BY <1>1, <1>6, ProcessTypes DEF EnqueueRefused, ApiPc
  <2>2. StoreTypeOK' /\ TaskTypeOK'
    BY <1>6 DEF EnqueueRefused, storeVars, StoreTypeOK, TaskTypeOK
  <2> QED BY <1>6, <2>1, <2>2 DEF EnqueueRefused
<1>7. CASE MarkQueued(q)
  <2>1. ApiTypeOK' /\ StoreTypeOK'
    BY <1>1, <1>2, <1>7, ProcessTypes, WriteTypes DEF MarkQueued, ApiPc
  <2>2. TaskTypeOK'
    BY <1>7 DEF MarkQueued, TaskTypeOK
  <2> QED BY <1>7, <2>1, <2>2 DEF MarkQueued
<1>8. CASE MarkQueueFailed(q)
  <2>1. [row EXCEPT !.status = "failed", !.error = "dependency"] \in Row
    <3>1. "failed" \in Status /\ "dependency" \in Error /\ "enqueueing" \in Phase
      BY DEF Status, Error, Phase
    <3> QED BY <1>1, <3>1, RowUpdates
  <2>2. r \in Run
    BY <1>1, <1>8 DEF MarkQueueFailed
  <2>3. ApiTypeOK' /\ StoreTypeOK'
    BY <1>2, <1>8, <2>1, <2>2, ProcessTypes, WriteTypes DEF MarkQueueFailed, ApiPc
  <2>4. TaskTypeOK'
    BY <1>8 DEF MarkQueueFailed, TaskTypeOK
  <2> QED BY <1>8, <2>3, <2>4 DEF MarkQueueFailed
<1>9. CASE RequeueClaim(q)
  <2>1. r \in Run
    BY <1>1, <1>9 DEF RequeueClaim
  <2>2. ApiTypeOK' /\ StoreTypeOK'
    <3>1. CASE ClaimForRequeue(r, row) /\ ApiHold(q, "replace", r, Requeued(r))
      BY <1>1, <1>2, <2>1, <3>1, ProcessTypes, WriteTypes DEF ApiPc
    <3>2. CASE ApiGoto(q, "done") /\ UNCHANGED storeVars
      BY <3>2, ProcessTypes DEF ApiPc, storeVars, StoreTypeOK
    <3> QED BY <1>9, <3>1, <3>2 DEF RequeueClaim
  <2>3. TaskTypeOK'
    BY <1>9 DEF RequeueClaim, TaskTypeOK
  <2> QED BY <1>9, <2>2, <2>3 DEF RequeueClaim
<1>10. CASE RequeueReplace(q)
  <2>1. r \in Run
    BY <1>1, <1>10 DEF RequeueReplace
  <2>2. ApiTypeOK' /\ StoreTypeOK'
    <3>1. CASE Replace(r, row) /\ ApiGoto(q, "enqueue")
      BY <1>1, <1>2, <2>1, <3>1, ProcessTypes, WriteTypes DEF ApiPc
    <3>2. CASE ApiGoto(q, "done") /\ UNCHANGED storeVars
      BY <3>2, ProcessTypes DEF ApiPc, storeVars, StoreTypeOK
    <3> QED BY <1>10, <3>1, <3>2 DEF RequeueReplace
  <2>3. TaskTypeOK'
    BY <1>10 DEF RequeueReplace, TaskTypeOK
  <2> QED BY <1>10, <2>2, <2>3 DEF RequeueReplace
<1> QED BY <1>3, <1>4, <1>5, <1>6, <1>7, <1>8, <1>9, <1>10 DEF ApiStep

\* Every step of a worker or of the thread keeps the types.
LEMMA TaskStepType ==
  ASSUME TypeOK, NEW w \in Worker, TaskStep(w)
  PROVE  TypeOK'
<1> DEFINE r == task[w].run
           row == task[w].record
<1>1. /\ row \in Row
      /\ task[w].pc # "idle" => r \in Run
      /\ row.key \in Key \cup {NoKey}
  BY DEF TypeOK, TaskTypeOK, Row
<1>2. StoreTypeOK
  BY DEF TypeOK
<1> USE DEF TypeOK, TaskAt
<1>3. CASE TaskLatest(w)
  <2>1. ASSUME NEW a \in NextAttempt(row.key)
        PROVE  NewRow(row.key, "running", "provider-import", a) \in Row
    BY <1>1, <1>2, ReadTypes, NewRowType DEF Status, Phase
  <2>2. r \in Run
    BY <1>1, <1>3 DEF TaskLatest
  <2>3. TaskTypeOK'
    BY <1>1, <1>3, <2>1, <2>2, ProcessTypes DEF TaskLatest, TaskPc
  <2>4. StoreTypeOK' /\ ApiTypeOK'
    BY <1>3 DEF TaskLatest, storeVars, StoreTypeOK, ApiTypeOK
  <2> QED BY <1>3, <2>3, <2>4 DEF TaskLatest
<1>4. CASE ClaimSelect(w)
  <2>1. TaskTypeOK'
    BY <1>1, <1>2, <1>4, ReadTypes, ProcessTypes DEF ClaimSelect, TaskPc
  <2>2. StoreTypeOK' /\ ApiTypeOK'
    BY <1>4 DEF ClaimSelect, storeVars, StoreTypeOK, ApiTypeOK
  <2> QED BY <1>4, <2>1, <2>2 DEF ClaimSelect
<1>5. CASE ClaimUpdate(w)
  <2>1. r \in Run
    BY <1>1, <1>5 DEF ClaimUpdate
  <2>2. TaskTypeOK' /\ StoreTypeOK'
    <3>1. CASE Claim(r) /\ TaskHold(w, "exec", r, Claimed(r))
      BY <1>1, <1>2, <2>1, <3>1, ProcessTypes, WriteTypes DEF TaskPc
    <3>2. CASE TaskEnd(w) /\ UNCHANGED storeVars
      BY <3>2, ProcessTypes DEF storeVars, StoreTypeOK
    <3> QED BY <1>5, <3>1, <3>2 DEF ClaimUpdate
  <2>3. ApiTypeOK'
    BY <1>5 DEF ClaimUpdate, ApiTypeOK
  <2> QED BY <1>5, <2>2, <2>3 DEF ClaimUpdate
<1>6. CASE AppendRun(w)
  <2>1. TaskTypeOK' /\ StoreTypeOK'
    <3>1. CASE \E i \in Run : /\ Insert(i, row)
                             /\ TaskHold(w, "exec", i, [row EXCEPT !.started = now + 1])
      <4> PICK i \in Run : /\ Insert(i, row)
                           /\ TaskHold(w, "exec", i, [row EXCEPT !.started = now + 1])
        BY <3>1
      <4>1. [row EXCEPT !.started = now + 1] \in Row /\ StoreTypeOK'
        BY <1>1, <1>2, WriteTypes
      <4>2. "exec" \in TaskPc
        BY DEF TaskPc
      <4> QED BY <4>1, <4>2, ProcessTypes
    <3>2. CASE TaskEnd(w) /\ UNCHANGED storeVars
      BY <3>2, ProcessTypes DEF storeVars, StoreTypeOK
    <3> QED BY <1>6, <3>1, <3>2 DEF AppendRun
  <2>2. ApiTypeOK'
    BY <1>6 DEF AppendRun, ApiTypeOK
  <2> QED BY <1>6, <2>1, <2>2 DEF AppendRun
<1>7. CASE Operate(w)
  <2>1. r \in Run
    BY <1>1, <1>7 DEF Operate
  <2>2. ASSUME NEW status \in {"succeeded", "failed"}, NEW error \in Error
        PROVE  Outcome(w, status, error) \in Row
    <3>1. status \in Status /\ "enqueueing" \in Phase
      BY DEF Status, Phase
    <3> QED BY <1>1, <3>1, RowUpdates DEF Outcome
  <2>3. TaskTypeOK'
    BY <1>7, <2>1, <2>2, ProcessTypes DEF Operate, Error, TaskPc
  <2>4. StoreTypeOK' /\ ApiTypeOK'
    BY <1>7 DEF Operate, storeVars, StoreTypeOK, ApiTypeOK
  <2>5. effects' \in [Key -> Nat]
    BY <1>7 DEF Operate
  <2> QED BY <1>7, <2>3, <2>4, <2>5 DEF Operate
<1>8. CASE Record(w)
  <2>1. r \in Run
    BY <1>1, <1>8 DEF Record
  <2>2. TaskTypeOK' /\ StoreTypeOK'
    BY <1>1, <1>2, <1>8, <2>1, ProcessTypes, WriteTypes DEF Record
  <2>3. ApiTypeOK'
    BY <1>8 DEF Record, ApiTypeOK
  <2> QED BY <1>8, <2>2, <2>3 DEF Record
<1>9. CASE EntryFails(w)
  <2>1. r \in Run
    BY <1>1, <1>9 DEF EntryFails
  <2>2. StoreTypeOK' /\ ApiTypeOK'
    BY <1>2, <1>9 DEF EntryFails, storeVars, StoreTypeOK, ApiTypeOK
  <2>3. ASSUME NEW error \in {"dependency", "other"},
               TaskHold(w, "abandon", r, [rows[r] EXCEPT !.status = "failed", !.error = error])
        PROVE  TaskTypeOK'
    BY <1>2, <2>1, <2>3, FailedRow, ProcessTypes DEF TaskPc
  <2>4. TaskTypeOK'
    BY <1>9, <2>3, ProcessTypes DEF EntryFails
  <2> QED BY <1>9, <2>2, <2>4 DEF EntryFails
<1>10. CASE EntryRecord(w)
  <2>1. r \in Run
    BY <1>1, <1>10 DEF EntryRecord
  <2>2. TaskTypeOK' /\ StoreTypeOK'
    BY <1>1, <1>2, <1>10, <2>1, ProcessTypes, WriteTypes DEF EntryRecord
  <2>3. ApiTypeOK'
    BY <1>10 DEF EntryRecord, ApiTypeOK
  <2> QED BY <1>10, <2>2, <2>3 DEF EntryRecord
<1> QED BY <1>3, <1>4, <1>5, <1>6, <1>7, <1>8, <1>9, <1>10 DEF TaskStep

\* A restart with its startup recovery keeps the types.
LEMMA RestartType ==
  ASSUME TypeOK, Restart
  PROVE  TypeOK'
<1> USE DEF TypeOK
<1>1. Blank \in Row
  BY DEF Blank, Row, Status, Phase, Error
<1>2. StoreTypeOK'
  <2>1. ASSUME NEW r \in Run PROVE Abandoned(rows[r]) \in Row
    BY FailedRow DEF Abandoned, StoreTypeOK
  <2> QED BY <2>1 DEF Restart, StoreTypeOK
<1>3. ApiTypeOK'
  <2>1. ASSUME NEW q \in Request
        PROVE  /\ api'[q] \in [pc: ApiPc, run: Run \cup {NoRun}, record: Row]
               /\ api'[q].pc \notin {"idle", "insert", "done"} => api'[q].run \in Run
    BY DEF Restart, ApiTypeOK, ApiAt, ApiPc
  <2> QED BY <2>1 DEF Restart, ApiTypeOK
<1>4. TaskTypeOK'
  BY <1>1 DEF Restart, TaskTypeOK, Idle, TaskPc
<1> QED BY <1>2, <1>3, <1>4 DEF Restart, CrashPossible

\* Every step keeps the types.
LEMMA NextType == TypeOK /\ [Next]_vars => TypeOK'
<1> SUFFICES ASSUME TypeOK, [Next]_vars PROVE TypeOK'
  OBVIOUS
<1> USE DEF TypeOK
<1>1. CASE UNCHANGED vars
  BY <1>1 DEF vars, StoreTypeOK, ApiTypeOK, TaskTypeOK
<1>2. ASSUME NEW q \in Request, NEW k \in Key, Submit(q, k) PROVE TypeOK'
  <2>1. ASSUME NEW a \in NextAttempt(k)
        PROVE  NewRow(k, "queued", "enqueueing", a) \in Row
    BY ReadTypes, NewRowType DEF Status, Phase
  <2>2. ApiTypeOK'
    BY <1>2, <2>1, ProcessTypes DEF Submit
  <2> QED BY <1>2, <2>2 DEF Submit, storeVars, StoreTypeOK, TaskTypeOK
<1>3. ASSUME NEW q \in Request, NEW r \in Run, RetryFailed(q, r) \/ RetryStale(q, r)
      PROVE TypeOK'
  <2>1. rows[r] \in Row /\ "reserve" \in ApiPc /\ "requeue" \in ApiPc
    BY DEF StoreTypeOK, ApiPc
  <2>2. ApiTypeOK'
    BY <1>3, <2>1, ProcessTypes DEF RetryFailed, RetryStale
  <2> QED BY <1>3, <2>2 DEF RetryFailed, RetryStale, storeVars, StoreTypeOK, TaskTypeOK
<1>4. ASSUME NEW q \in Request, ApiCrash(q) PROVE TypeOK'
  <2>1. ApiTypeOK'
    BY <1>4, ProcessTypes DEF ApiCrash, ApiPc
  <2>2. crashes' \in 0..MaxCrashes
    BY <1>4 DEF ApiCrash, CrashPossible
  <2> QED BY <1>4, <2>1, <2>2 DEF ApiCrash, storeVars, StoreTypeOK, TaskTypeOK
<1>5. ASSUME NEW w \in Worker, NEW r \in Run, Take(w, r) PROVE TypeOK'
  <2>1. [Blank EXCEPT !.key = rows[r].key] \in Row /\ "latest" \in TaskPc
    BY DEF Blank, Row, Status, Phase, Error, StoreTypeOK, TaskPc
  <2>2. TaskTypeOK'
    BY <1>5, <2>1, ProcessTypes DEF Take
  <2>3. pending' \in [Run -> Nat]
    BY <1>5 DEF Take
  <2> QED BY <1>5, <2>2, <2>3 DEF Take, storeVars, StoreTypeOK, ApiTypeOK
<1>6. ASSUME NEW w \in Worker, WorkerCrash(w) PROVE TypeOK'
  <2>1. TaskTypeOK'
    BY <1>6, ProcessTypes DEF WorkerCrash
  <2>2. crashes' \in 0..MaxCrashes
    BY <1>6 DEF WorkerCrash, CrashPossible
  <2> QED BY <1>6, <2>1, <2>2 DEF WorkerCrash, storeVars, StoreTypeOK, ApiTypeOK
<1> QED BY <1>1, <1>2, <1>3, <1>4, <1>5, <1>6, ApiStepType, TaskStepType, RestartType
       DEF Next

\* Every reachable state of the job lifecycle is well typed: no handler or
\* worker ever acts without the run id of a row in hand.
THEOREM TypeCorrect == Spec => []TypeOK
BY InitType, NextType, PTL DEF Spec

----------------------------------------------------------------------------
(* One active row per task key.                                            *)

\* Every store write keeps at most one active row per key: a new active row
\* passes the index, and a claim or a phase update keeps key and activity.
LEMMA WritesKeepOneActive ==
  ASSUME StoreTypeOK, OneActivePerKey, NEW r \in Run, NEW row \in Row
  PROVE  /\ Insert(r, row) => OneActivePerKey'
         /\ Replace(r, row) => OneActivePerKey'
         /\ Claim(r) => OneActivePerKey'
         /\ ClaimForRequeue(r, row) => OneActivePerKey'
         /\ MarkPhase(r) => OneActivePerKey'
<1> USE DEF StoreTypeOK
\* Overwriting row r is safe when its new content is inactive, passes the
\* index, or keeps the key of a row that was active already.
<1>1. ASSUME NEW new \in Row, rows' = [rows EXCEPT ![r] = new],
             \/ ~Active(new.status)
             \/ IndexAdmits(r, new.key)
             \/ Active(rows[r].status) /\ new.key = rows[r].key
      PROVE  OneActivePerKey'
  <2> SUFFICES ASSUME NEW s \in Run, NEW t \in Run, s # t,
                      Active(rows'[s].status), Active(rows'[t].status),
                      rows'[s].key = rows'[t].key
               PROVE  FALSE
    BY DEF OneActivePerKey
  <2>1. CASE s # r /\ t # r
    BY <1>1, <2>1 DEF OneActivePerKey
  <2>2. CASE s = r
    BY <1>1, <2>2 DEF OneActivePerKey, IndexAdmits
  <2>3. CASE t = r
    BY <1>1, <2>3 DEF OneActivePerKey, IndexAdmits
  <2> QED BY <2>1, <2>2, <2>3
<1>2. ASSUME Insert(r, row) PROVE OneActivePerKey'
  <2>1. [row EXCEPT !.started = now + 1] \in Row
    BY <1>2, WriteTypes
  <2>2. [row EXCEPT !.started = now + 1].key = row.key
    BY DEF Row
  <2> QED BY <1>1, <1>2, <2>1, <2>2 DEF Insert
<1>3. ASSUME Replace(r, row) PROVE OneActivePerKey'
  BY <1>1, <1>3 DEF Replace
<1>4. ASSUME Claim(r) PROVE OneActivePerKey'
  <2>1. Claimed(r) \in Row
    BY WriteTypes
  <2>2. Claimed(r).key = rows[r].key /\ Active(rows[r].status)
    BY <1>4 DEF Claimed, Claim, QueuedNow, Active, Row
  <2> QED BY <1>1, <1>4, <2>1, <2>2 DEF Claim
<1>5. ASSUME ClaimForRequeue(r, row) PROVE OneActivePerKey'
  <2>1. Requeued(r) \in Row
    BY WriteTypes
  <2>2. Requeued(r).key = rows[r].key /\ Active(rows[r].status)
    BY <1>5 DEF Requeued, ClaimForRequeue, RequeuedAsSeen, QueuedNow, Active, Row
  <2> QED BY <1>1, <1>5, <2>1, <2>2 DEF ClaimForRequeue
<1>6. ASSUME MarkPhase(r) PROVE OneActivePerKey'
  <2>1. CASE ~QueuedNow(r)
    BY <1>6, <2>1 DEF MarkPhase, OneActivePerKey
  <2>2. CASE QueuedNow(r)
    <3> DEFINE new == [rows[r] EXCEPT !.phase = "provider-import"]
    <3>1. new \in Row /\ new.key = rows[r].key
      BY DEF Row, Phase
    <3>2. rows' = [rows EXCEPT ![r] = new]
      BY <1>6, <2>2 DEF MarkPhase
    <3>3. Active(rows[r].status)
      BY <2>2 DEF QueuedNow, Active
    <3> HIDE DEF new
    <3> QED BY <1>1, <3>1, <3>2, <3>3
  <2> QED BY <2>1, <2>2
<1> QED BY <1>2, <1>3, <1>4, <1>5, <1>6

\* Every step keeps at most one active row per key.
LEMMA NextOneActive == TypeOK /\ OneActivePerKey /\ [Next]_vars => OneActivePerKey'
<1> SUFFICES ASSUME TypeOK, OneActivePerKey, [Next]_vars PROVE OneActivePerKey'
  OBVIOUS
<1>1. StoreTypeOK
  BY DEF TypeOK
<1>2. CASE UNCHANGED rows
  BY <1>2 DEF OneActivePerKey
<1>3. ASSUME NEW q \in Request, ApiStep(q), rows' # rows PROVE OneActivePerKey'
  <2> DEFINE r == api[q].run
             row == api[q].record
  <2>1. row \in Row /\ (api[q].pc \notin {"idle", "insert", "done"} => r \in Run)
    BY DEF TypeOK, ApiTypeOK
  <2>2. CASE ReserveInsert(q)
    BY <1>1, <1>3, <2>1, <2>2, WritesKeepOneActive DEF ReserveInsert, storeVars
  <2>3. CASE MarkQueued(q)
    BY <1>1, <2>1, <2>3, WritesKeepOneActive DEF MarkQueued, ApiAt
  <2>4. CASE MarkQueueFailed(q)
    <3>1. [row EXCEPT !.status = "failed", !.error = "dependency"] \in Row
      <4>1. "failed" \in Status /\ "dependency" \in Error /\ "enqueueing" \in Phase
        BY DEF Status, Error, Phase
      <4>2. row \in Row /\ now \in Nat
        BY <1>1, <2>1 DEF StoreTypeOK
      <4> HIDE DEF row
      <4> QED BY <4>1, <4>2, RowUpdates
    <3>2. r \in Run
      BY <2>1, <2>4 DEF MarkQueueFailed, ApiAt
    <3> QED BY <1>1, <2>4, <3>1, <3>2, WritesKeepOneActive DEF MarkQueueFailed
  <2>5. CASE RequeueClaim(q)
    BY <1>1, <1>3, <2>1, <2>5, WritesKeepOneActive DEF RequeueClaim, ApiAt, storeVars
  <2>6. CASE RequeueReplace(q)
    BY <1>1, <1>3, <2>1, <2>6, WritesKeepOneActive DEF RequeueReplace, ApiAt, storeVars
  <2>7. CASE ReserveRetry(q) \/ Enqueue(q) \/ EnqueueRefused(q)
    BY <1>3, <2>7 DEF ReserveRetry, Enqueue, EnqueueRefused, storeVars
  <2> QED BY <1>3, <2>2, <2>3, <2>4, <2>5, <2>6, <2>7 DEF ApiStep
<1>4. ASSUME NEW w \in Worker, TaskStep(w), rows' # rows PROVE OneActivePerKey'
  <2> DEFINE r == task[w].run
             row == task[w].record
  <2>1. row \in Row /\ (task[w].pc # "idle" => r \in Run)
    BY DEF TypeOK, TaskTypeOK
  <2>2. CASE ClaimUpdate(w)
    BY <1>1, <1>4, <2>1, <2>2, WritesKeepOneActive DEF ClaimUpdate, TaskAt, storeVars
  <2>3. CASE AppendRun(w)
    BY <1>1, <1>4, <2>1, <2>3, WritesKeepOneActive DEF AppendRun, storeVars
  <2>4. CASE Record(w)
    BY <1>1, <2>1, <2>4, WritesKeepOneActive DEF Record, TaskAt
  <2>5. CASE TaskLatest(w) \/ ClaimSelect(w) \/ Operate(w) \/ EntryFails(w)
    BY <1>4, <2>5 DEF TaskLatest, ClaimSelect, Operate, EntryFails, storeVars
  <2>6. CASE EntryRecord(w)
    BY <1>1, <2>1, <2>6, WritesKeepOneActive DEF EntryRecord, TaskAt
  <2> QED BY <1>4, <2>2, <2>3, <2>4, <2>5, <2>6 DEF TaskStep
<1>5. CASE Restart
  <2>1. ASSUME NEW r \in Run, Active(rows'[r].status)
        PROVE  Active(rows[r].status) /\ rows'[r].key = rows[r].key
    <3>1. rows'[r] = Abandoned(rows[r])
      BY <1>5 DEF Restart
    <3> QED BY <1>1, <2>1, <3>1, FailedRow DEF Abandoned, Active
  <2> QED BY <2>1 DEF OneActivePerKey
<1>6. \/ UNCHANGED rows
      \/ \E q \in Request : ApiStep(q)
      \/ \E w \in Worker : TaskStep(w)
      \/ Restart
  BY DEF Next, vars, storeVars, Submit, RetryFailed, RetryStale, ApiCrash, Take, WorkerCrash
<1> QED BY <1>2, <1>3, <1>4, <1>5, <1>6

\* Whatever the queue, the clock and crashes do, no two rows of one task key
\* are ever queued or running together.
THEOREM OneActive == Spec => []OneActivePerKey
<1>1. Init => OneActivePerKey
  BY DEF Init, StoreInit, Blank, OneActivePerKey, Active
<1>2. TypeOK /\ OneActivePerKey /\ [Next]_vars => OneActivePerKey'
  BY NextOneActive
<1> QED BY <1>1, <1>2, TypeCorrect, PTL DEF Spec

----------------------------------------------------------------------------
(* Running rows of the background mode.                                    *)

\* The status a process is about to write: a handler writes a queued row, a
\* worker a running one when it goes on to execute it and a decided one after.
HeldStatus ==
  /\ \A q \in Request : api[q].pc \in {"insert", "replace"} => api[q].record.status = "queued"
  /\ \A w \in Worker : task[w].pc = "append" => task[w].record.status = "running"
  /\ \A w \in Worker : task[w].pc = "record" => task[w].record.status \in {"succeeded", "failed"}
  /\ \A w \in Worker : task[w].pc = "abandon" => task[w].record.status = "failed"

\* A process that moves keeps HeldStatus if what it now holds does.
LEMMA MovesKeepHeld ==
  ASSUME TypeOK, HeldStatus
  PROVE  /\ \A q \in Request : \A pc, r, record :
              /\ ApiHold(q, pc, r, record) /\ UNCHANGED task
              /\ pc \in {"insert", "replace"} => record.status = "queued"
              => HeldStatus'
         /\ \A q \in Request : \A pc :
              ApiGoto(q, pc) /\ UNCHANGED task /\ pc \notin {"insert", "replace"} => HeldStatus'
         /\ \A w \in Worker : \A pc, r, record :
              /\ TaskHold(w, pc, r, record) /\ UNCHANGED api
              /\ pc = "append" => record.status = "running"
              /\ pc = "record" => record.status \in {"succeeded", "failed"}
              /\ pc = "abandon" => record.status = "failed"
              => HeldStatus'
         /\ \A w \in Worker : TaskEnd(w) /\ UNCHANGED api => HeldStatus'
<1> USE DEF TypeOK, HeldStatus
<1>1. ASSUME NEW q \in Request, NEW pc, NEW r, NEW record,
             ApiHold(q, pc, r, record), UNCHANGED task,
             pc \in {"insert", "replace"} => record.status = "queued"
      PROVE  HeldStatus'
  BY <1>1 DEF ApiHold, ApiTypeOK
<1>2. ASSUME NEW q \in Request, NEW pc, ApiGoto(q, pc), UNCHANGED task,
             pc \notin {"insert", "replace"}
      PROVE  HeldStatus'
  BY <1>2 DEF ApiGoto, ApiTypeOK
<1>3. ASSUME NEW w \in Worker, NEW pc, NEW r, NEW record,
             TaskHold(w, pc, r, record), UNCHANGED api,
             pc = "append" => record.status = "running",
             pc = "record" => record.status \in {"succeeded", "failed"},
             pc = "abandon" => record.status = "failed"
      PROVE  HeldStatus'
  BY <1>3 DEF TaskHold, TaskTypeOK
<1>4. ASSUME NEW w \in Worker, TaskEnd(w), UNCHANGED api PROVE HeldStatus'
  BY <1>4 DEF TaskEnd, TaskTypeOK, Idle
<1> QED BY <1>1, <1>2, <1>3, <1>4

\* No step puts a running record in the hands of one who writes it back.
LEMMA NextHeld == TypeOK /\ HeldStatus /\ [Next]_vars => HeldStatus'
<1> SUFFICES ASSUME TypeOK, HeldStatus, [Next]_vars PROVE HeldStatus'
  OBVIOUS
<1>1. ASSUME NEW k, NEW status \in {"queued", "running"}, NEW phase, NEW a
      PROVE  NewRow(k, status, phase, a).status = status
  BY DEF NewRow
<1>2. CASE UNCHANGED vars
  BY <1>2 DEF vars, HeldStatus
<1>3. ASSUME NEW q \in Request, NEW k \in Key, Submit(q, k) PROVE HeldStatus'
  BY <1>1, <1>3, MovesKeepHeld DEF Submit
<1>4. ASSUME NEW q \in Request, NEW r \in Run, RetryFailed(q, r) \/ RetryStale(q, r)
      PROVE  HeldStatus'
  BY <1>4, MovesKeepHeld DEF RetryFailed, RetryStale
<1>5. ASSUME NEW q \in Request, ApiStep(q) PROVE HeldStatus'
  <2>1. CASE ReserveRetry(q)
    BY <1>1, <2>1, MovesKeepHeld DEF ReserveRetry
  <2>2. CASE RequeueClaim(q)
    <3>1. ClaimForRequeue(api[q].run, api[q].record) => Requeued(api[q].run).status = "queued"
      <4>1. api[q].run \in Run /\ rows[api[q].run] \in Row
        BY <2>2 DEF RequeueClaim, ApiAt, TypeOK, ApiTypeOK, StoreTypeOK
      <4> QED BY <4>1 DEF ClaimForRequeue, RequeuedAsSeen, QueuedNow, Requeued, Row
    <3> QED BY <2>2, <3>1, MovesKeepHeld DEF RequeueClaim
  <2>3. CASE ReserveInsert(q) \/ Enqueue(q) \/ EnqueueRefused(q) \/ MarkQueued(q)
             \/ MarkQueueFailed(q) \/ RequeueReplace(q)
    BY <2>3, MovesKeepHeld
       DEF ReserveInsert, Enqueue, EnqueueRefused, MarkQueued, MarkQueueFailed, RequeueReplace
  <2> QED BY <1>5, <2>1, <2>2, <2>3 DEF ApiStep
<1>6. ASSUME NEW q \in Request, ApiCrash(q) PROVE HeldStatus'
  BY <1>6, MovesKeepHeld DEF ApiCrash
<1>7. ASSUME NEW w \in Worker, NEW r \in Run, Take(w, r) PROVE HeldStatus'
  BY <1>7, MovesKeepHeld DEF Take
<1>8. ASSUME NEW w \in Worker, TaskStep(w) PROVE HeldStatus'
  <2>1. CASE Operate(w)
    <3>1. ASSUME NEW status \in {"succeeded", "failed"}, NEW error
          PROVE  Outcome(w, status, error).status = status
      BY DEF Outcome, TypeOK, TaskTypeOK, Row
    <3> QED BY <2>1, <3>1, MovesKeepHeld DEF Operate
  <2>2. CASE ClaimSelect(w) \/ ClaimUpdate(w) \/ AppendRun(w) \/ Record(w) \/ EntryRecord(w)
    BY <2>2, MovesKeepHeld DEF ClaimSelect, ClaimUpdate, AppendRun, Record, EntryRecord
  <2>3. CASE TaskLatest(w)
    BY <1>1, <2>3, MovesKeepHeld DEF TaskLatest
  <2>4. CASE EntryFails(w)
    <3>1. StoreTypeOK /\ task[w].run \in Run
      BY <2>4 DEF EntryFails, TaskAt, TypeOK, TaskTypeOK
    <3>2. ASSUME NEW error \in {"dependency", "other"},
                 TaskHold(w, "abandon", task[w].run,
                          [rows[task[w].run] EXCEPT !.status = "failed", !.error = error])
          PROVE  HeldStatus'
      BY <2>4, <3>1, <3>2, FailedRow, MovesKeepHeld DEF EntryFails
    <3> QED BY <2>4, <3>2, MovesKeepHeld DEF EntryFails
  <2> QED BY <1>8, <2>1, <2>2, <2>3, <2>4 DEF TaskStep
<1>9. ASSUME NEW w \in Worker, WorkerCrash(w) PROVE HeldStatus'
  BY <1>9, MovesKeepHeld DEF WorkerCrash
<1>10. CASE Restart
  BY <1>10 DEF Restart, HeldStatus, ApiAt, Idle, TypeOK, ApiTypeOK
<1> QED BY <1>2, <1>3, <1>4, <1>5, <1>6, <1>7, <1>8, <1>9, <1>10 DEF Next

\* A step keeps RunningIsExecuted if every row that runs after it ran before
\* and kept its worker, or has the worker that moves.
LEMMA WorkerMoves ==
  ASSUME TypeOK, RunningIsExecuted, NEW w \in Worker, NEW pc, NEW run, NEW record,
         task' = [task EXCEPT ![w] = [pc |-> pc, run |-> run, record |-> record]],
         UNCHANGED fault,
         \A r \in Run : rows'[r].status = "running" =>
           \/ pc \in {"exec", "record"} /\ run = r
           \/ /\ rows[r].status = "running"
              /\ task[w].pc \notin {"exec", "record"} \/ task[w].run # r
  PROVE  RunningIsExecuted'
BY DEF RunningIsExecuted, TypeOK, TaskTypeOK

\* A step of no worker that makes no row run keeps the property.
LEMMA RowsMove ==
  ASSUME RunningIsExecuted, UNCHANGED <<task, fault>>,
         \A r \in Run : rows'[r].status = "running" => rows[r].status = "running"
  PROVE  RunningIsExecuted'
BY DEF RunningIsExecuted

\* No write but a claim or an append of a running record makes a row run.
LEMMA RunsOnlyByClaim ==
  ASSUME StoreTypeOK, NEW r \in Run, NEW row \in Row, NEW s \in Run,
         rows'[s].status = "running"
  PROVE  /\ Insert(r, row) /\ row.status # "running" => rows[s].status = "running"
         /\ Replace(r, row) /\ row.status # "running" => rows[s].status = "running" /\ s # r
         /\ ClaimForRequeue(r, row) => rows[s].status = "running"
         /\ MarkPhase(r) => rows[s].status = "running"
         /\ Insert(r, row) /\ s # r => rows[s].status = "running"
         /\ Claim(r) /\ s # r => rows[s].status = "running"
<1> USE DEF StoreTypeOK
<1>1. [row EXCEPT !.started = now + 1].status = row.status
  BY DEF Row
<1>2. ASSUME Insert(r, row), row.status # "running" PROVE rows[s].status = "running"
  BY <1>1, <1>2 DEF Insert
<1>3. ASSUME Replace(r, row), row.status # "running" PROVE rows[s].status = "running" /\ s # r
  BY <1>3 DEF Replace
<1>4. ASSUME ClaimForRequeue(r, row) PROVE rows[s].status = "running"
  <2>1. Requeued(r).status = rows[r].status
    BY DEF Requeued, Row
  <2> QED BY <1>4, <2>1 DEF ClaimForRequeue
<1>5. ASSUME MarkPhase(r) PROVE rows[s].status = "running"
  BY <1>5 DEF MarkPhase, Row
<1>6. ASSUME Insert(r, row) \/ Claim(r), s # r PROVE rows[s].status = "running"
  BY <1>6 DEF Insert, Claim
<1> QED BY <1>2, <1>3, <1>4, <1>5, <1>6

\* Every step keeps a running row with the thread that executes it.
LEMMA NextRunning ==
  TypeOK /\ HeldStatus /\ RunningIsExecuted /\ [Next]_vars => RunningIsExecuted'
<1> SUFFICES ASSUME TypeOK, HeldStatus, RunningIsExecuted, [Next]_vars
             PROVE  RunningIsExecuted'
  OBVIOUS
<1>0. StoreTypeOK
  BY DEF TypeOK
<1>1. CASE UNCHANGED <<rows, task, fault>>
  BY <1>1 DEF RunningIsExecuted
<1>2. ASSUME NEW q \in Request, ApiStep(q) PROVE RunningIsExecuted'
  <2> DEFINE r == api[q].run
             row == api[q].record
  <2>1. row \in Row /\ (api[q].pc \notin {"idle", "insert", "done"} => r \in Run)
    BY DEF TypeOK, ApiTypeOK
  <2>2. CASE ReserveInsert(q)
    <3>1. row.status # "running"
      BY <2>2 DEF ReserveInsert, ApiAt, HeldStatus
    <3>2. \A s \in Run : rows'[s].status = "running" => rows[s].status = "running"
      BY <1>0, <2>1, <2>2, <3>1, RunsOnlyByClaim DEF ReserveInsert, storeVars
    <3> QED BY <2>2, <3>2, RowsMove DEF ReserveInsert
  <2>3. CASE MarkQueued(q)
    <3>1. \A s \in Run : rows'[s].status = "running" => rows[s].status = "running"
      BY <1>0, <2>1, <2>3, RunsOnlyByClaim DEF MarkQueued, ApiAt
    <3> QED BY <2>3, <3>1, RowsMove DEF MarkQueued
  <2>4. CASE MarkQueueFailed(q)
    <3>1. /\ [row EXCEPT !.status = "failed", !.error = "dependency"] \in Row
          /\ [row EXCEPT !.status = "failed", !.error = "dependency"].status # "running"
      BY <2>1 DEF Row, Status, Error
    <3>2. r \in Run
      BY <2>1, <2>4 DEF MarkQueueFailed, ApiAt
    <3>3. \A s \in Run : rows'[s].status = "running" => rows[s].status = "running"
      BY <1>0, <2>4, <3>1, <3>2, RunsOnlyByClaim DEF MarkQueueFailed
    <3> QED BY <2>4, <3>3, RowsMove DEF MarkQueueFailed
  <2>5. CASE RequeueClaim(q)
    <3>1. \A s \in Run : rows'[s].status = "running" => rows[s].status = "running"
      BY <1>0, <2>1, <2>5, RunsOnlyByClaim DEF RequeueClaim, ApiAt, storeVars
    <3> QED BY <2>5, <3>1, RowsMove DEF RequeueClaim
  <2>6. CASE RequeueReplace(q)
    <3>1. row.status # "running"
      BY <2>6 DEF RequeueReplace, ApiAt, HeldStatus
    <3>2. \A s \in Run : rows'[s].status = "running" => rows[s].status = "running"
      BY <1>0, <2>1, <2>6, <3>1, RunsOnlyByClaim DEF RequeueReplace, ApiAt, storeVars
    <3> QED BY <2>6, <3>2, RowsMove DEF RequeueReplace
  <2>7. CASE ReserveRetry(q) \/ Enqueue(q) \/ EnqueueRefused(q)
    BY <1>1, <2>7 DEF ReserveRetry, Enqueue, EnqueueRefused, storeVars
  <2> QED BY <1>2, <2>2, <2>3, <2>4, <2>5, <2>6, <2>7 DEF ApiStep
<1>3. ASSUME NEW w \in Worker, NEW r \in Run, Take(w, r) PROVE RunningIsExecuted'
  BY <1>3, WorkerMoves DEF Take, TaskAt, TaskHold, storeVars
<1>4. ASSUME NEW w \in Worker, TaskStep(w) PROVE RunningIsExecuted'
  <2> DEFINE r == task[w].run
             row == task[w].record
  <2>1. row \in Row /\ (task[w].pc # "idle" => r \in Run)
    BY DEF TypeOK, TaskTypeOK
  <2>2. CASE TaskLatest(w) \/ ClaimSelect(w)
    <3>1. task[w].pc \notin {"exec", "record"} /\ UNCHANGED <<rows, fault>>
      BY <2>2 DEF TaskLatest, ClaimSelect, TaskAt, storeVars
    <3>2. PICK pc, run, record :
            task' = [task EXCEPT ![w] = [pc |-> pc, run |-> run, record |-> record]]
      BY <2>2 DEF TaskLatest, ClaimSelect, TaskHold, TaskEnd, Idle
    <3> QED BY <3>1, <3>2, WorkerMoves
  <2>3. CASE ClaimUpdate(w)
    <3>1. r \in Run /\ task[w].pc \notin {"exec", "record"} /\ UNCHANGED fault
      BY <2>1, <2>3 DEF ClaimUpdate, TaskAt
    <3>2. CASE Claim(r) /\ TaskHold(w, "exec", r, Claimed(r))
      <4>1. \A s \in Run : rows'[s].status = "running" /\ s # r => rows[s].status = "running"
        BY <1>0, <2>1, <3>1, <3>2, RunsOnlyByClaim
      <4>2. PICK run, record :
              /\ task' = [task EXCEPT ![w] = [pc |-> "exec", run |-> run, record |-> record]]
              /\ run = r
        BY <3>2 DEF TaskHold
      <4>3. \A s \in Run : rows'[s].status = "running" =>
              run = s \/ (rows[s].status = "running" /\ task[w].pc \notin {"exec", "record"})
        BY <3>1, <4>1, <4>2
      <4> QED BY <3>1, <4>2, <4>3 DEF RunningIsExecuted, TypeOK, TaskTypeOK
    <3>3. CASE TaskEnd(w) /\ UNCHANGED storeVars
      BY <3>1, <3>3, WorkerMoves DEF TaskEnd, Idle, storeVars
    <3> QED BY <2>3, <3>2, <3>3 DEF ClaimUpdate
  <2>4. CASE AppendRun(w)
    <3>1. task[w].pc \notin {"exec", "record"} /\ UNCHANGED fault
      BY <2>4 DEF AppendRun, TaskAt
    <3>2. ASSUME NEW i \in Run, Insert(i, row),
                 TaskHold(w, "exec", i, [row EXCEPT !.started = now + 1])
          PROVE  RunningIsExecuted'
      <4>1. \A s \in Run : rows'[s].status = "running" /\ s # i => rows[s].status = "running"
        BY <1>0, <2>1, <3>2, RunsOnlyByClaim
      <4>2. PICK record :
              task' = [task EXCEPT ![w] = [pc |-> "exec", run |-> i, record |-> record]]
        BY <3>2 DEF TaskHold
      <4>3. \A s \in Run : rows'[s].status = "running" =>
              i = s \/ (rows[s].status = "running" /\ task[w].pc \notin {"exec", "record"})
        BY <3>1, <4>1
      <4> QED BY <3>1, <4>2, <4>3 DEF RunningIsExecuted, TypeOK, TaskTypeOK
    <3>3. CASE TaskEnd(w) /\ UNCHANGED storeVars
      BY <3>1, <3>3, WorkerMoves DEF TaskEnd, Idle, storeVars
    <3> QED BY <2>4, <3>2, <3>3 DEF AppendRun
  <2>5. CASE Operate(w)
    <3>1. UNCHANGED <<rows, fault>>
      BY <2>5 DEF Operate, storeVars
    <3>2. PICK run, record :
            /\ task' = [task EXCEPT ![w] = [pc |-> "record", run |-> run, record |-> record]]
            /\ run = r
      BY <2>5 DEF Operate, TaskHold
    <3>3. \A s \in Run : rows'[s].status = "running" =>
            run = s \/ (rows[s].status = "running" /\ task[w].run # s)
      BY <3>1, <3>2
    <3> QED BY <3>1, <3>2, <3>3 DEF RunningIsExecuted, TypeOK, TaskTypeOK
  <2>6. CASE Record(w)
    <3>1. r \in Run /\ row.status # "running" /\ Replace(r, row) /\ TaskEnd(w) /\ UNCHANGED fault
      BY <2>1, <2>6 DEF Record, TaskAt, HeldStatus
    <3>2. \A s \in Run : rows'[s].status = "running" => rows[s].status = "running" /\ s # r
      BY <1>0, <2>1, <3>1, RunsOnlyByClaim
    <3>3. PICK pc, run, record :
            task' = [task EXCEPT ![w] = [pc |-> pc, run |-> run, record |-> record]]
      BY <3>1 DEF TaskEnd, Idle
    <3>4. \A s \in Run : rows'[s].status = "running" =>
            rows[s].status = "running" /\ task[w].run # s
      BY <3>2
    <3> QED BY <3>1, <3>3, <3>4 DEF RunningIsExecuted, TypeOK, TaskTypeOK
  <2>7. CASE EntryFails(w)
    <3>1. task[w].pc \notin {"exec", "record"} /\ UNCHANGED <<rows, fault>>
      BY <2>7 DEF EntryFails, TaskAt, storeVars
    <3>2. PICK pc, run, record :
            /\ task' = [task EXCEPT ![w] = [pc |-> pc, run |-> run, record |-> record]]
            /\ pc \in {"abandon", "idle"}
      BY <2>7 DEF EntryFails, TaskHold, TaskEnd, Idle
    <3> QED BY <3>1, <3>2, WorkerMoves
  <2>8. CASE EntryRecord(w)
    <3>1. /\ r \in Run /\ row.status # "running" /\ Replace(r, row)
          /\ task[w].pc \notin {"exec", "record"} /\ TaskEnd(w) /\ UNCHANGED fault
      BY <2>1, <2>8 DEF EntryRecord, TaskAt, HeldStatus
    <3>2. \A s \in Run : rows'[s].status = "running" => rows[s].status = "running"
      BY <1>0, <2>1, <3>1, RunsOnlyByClaim
    <3> QED BY <3>1, <3>2, WorkerMoves DEF TaskEnd, Idle
  <2> QED BY <1>4, <2>2, <2>3, <2>4, <2>5, <2>6, <2>7, <2>8 DEF TaskStep
<1>5. CASE Restart
  <2>1. ASSUME NEW r \in Run PROVE rows'[r].status # "running"
    <3>1. rows'[r] = Abandoned(rows[r])
      BY <1>5 DEF Restart
    <3> QED BY <1>0, <3>1, FailedRow DEF Abandoned
  <2> QED BY <2>1 DEF RunningIsExecuted
<1>6. ASSUME NEW w \in Worker, WorkerCrash(w) PROVE RunningIsExecuted'
  BY <1>6 DEF WorkerCrash, RunningIsExecuted
<1>7. ASSUME NEW q \in Request, \/ \E k \in Key : Submit(q, k)
                                \/ \E r \in Run : RetryFailed(q, r) \/ RetryStale(q, r)
                                \/ ApiCrash(q)
      PROVE  RunningIsExecuted'
  BY <1>1, <1>7 DEF Submit, RetryFailed, RetryStale, ApiCrash, storeVars
<1>8. CASE UNCHANGED vars
  BY <1>1, <1>8 DEF vars
<1> QED BY <1>2, <1>3, <1>4, <1>5, <1>6, <1>7, <1>8 DEF Next

\* In the background mode a running row always has the thread that executes
\* it: a restart, a failing entry point or a stale requeue strands none.
THEOREM RunningHasThread == Spec => []RunningIsExecuted
<1>1. Init => HeldStatus /\ RunningIsExecuted
  BY DEF Init, StoreInit, HeldStatus, RunningIsExecuted, Blank, Idle
<1>2. TypeOK /\ HeldStatus /\ RunningIsExecuted /\ [Next]_vars
        => HeldStatus' /\ RunningIsExecuted'
  BY NextHeld, NextRunning
<1> QED BY <1>1, <1>2, TypeCorrect, PTL DEF Spec

----------------------------------------------------------------------------
(* What each step does, column by column.                                  *)

\* Row r has a new status and stamp, the same key; the other rows are kept.
RowTo(r, status, started) ==
  /\ rows'[r].status = status /\ rows'[r].key = rows[r].key /\ rows'[r].started = started
  /\ \A s \in Run \ {r} : rows'[s] = rows[s]

\* Row r is new.
RowAdded(r, row) ==
  /\ Absent(r) /\ IndexAdmits(r, row.key)
  /\ rows'[r].status = row.status /\ rows'[r].key = row.key /\ rows'[r].started = now + 1
  /\ \A s \in Run \ {r} : rows'[s] = rows[s]
  /\ now' = now + 1

\* What the lifecycle reads of every row is kept.
RowsKept ==
  \A s \in Run : /\ rows'[s].status = rows[s].status /\ rows'[s].key = rows[s].key
                 /\ rows'[s].started = rows[s].started /\ rows'[s].error = rows[s].error

ApiTo(q, pc, r, record) ==
  /\ api'[q].pc = pc /\ api'[q].run = r /\ api'[q].record = record
  /\ \A p \in Request \ {q} : api'[p] = api[p]

TaskTo(w, pc, r, record) ==
  /\ task'[w].pc = pc /\ task'[w].run = r /\ task'[w].record = record
  /\ \A v \in Worker \ {w} : task'[v] = task[v]

\* What each statement of the store does to the rows.
LEMMA StoreEffects ==
  ASSUME StoreTypeOK, NEW r \in Run, NEW row \in Row
  PROVE  /\ Insert(r, row) => RowAdded(r, row) /\ rows'[r] = [row EXCEPT !.started = now + 1]
         /\ Replace(r, row) => rows'[r] = row /\ now' = now /\ \A s \in Run \ {r} : rows'[s] = rows[s]
         /\ Claim(r) => /\ rows[r].status = "queued" /\ RowTo(r, "running", now + 1)
                        /\ rows'[r] = Claimed(r) /\ now' = now + 1
         /\ ClaimForRequeue(r, row) => /\ rows[r].status = "queued" /\ RowTo(r, "queued", now + 1)
                                       /\ rows'[r] = Requeued(r) /\ now' = now + 1
         /\ MarkPhase(r) => RowsKept /\ now' = now
<1> USE DEF StoreTypeOK
<1>1. rows[r] \in Row /\ now + 1 \in Nat
  OBVIOUS
<1>2. ASSUME Insert(r, row)
      PROVE  RowAdded(r, row) /\ rows'[r] = [row EXCEPT !.started = now + 1]
  <2>1. rows'[r] = [row EXCEPT !.started = now + 1] /\ \A s \in Run \ {r} : rows'[s] = rows[s]
    BY <1>2 DEF Insert
  <2>2. /\ [row EXCEPT !.started = now + 1].status = row.status
        /\ [row EXCEPT !.started = now + 1].key = row.key
        /\ [row EXCEPT !.started = now + 1].started = now + 1
    BY DEF Row
  <2> QED BY <1>2, <2>1, <2>2 DEF Insert, RowAdded
<1>3. Replace(r, row) => rows'[r] = row /\ now' = now /\ \A s \in Run \ {r} : rows'[s] = rows[s]
  BY DEF Replace
<1>4. ASSUME Claim(r)
      PROVE  /\ rows[r].status = "queued" /\ RowTo(r, "running", now + 1)
             /\ rows'[r] = Claimed(r) /\ now' = now + 1
  <2>1. rows'[r] = Claimed(r) /\ \A s \in Run \ {r} : rows'[s] = rows[s]
    BY <1>4 DEF Claim
  <2>2. Claimed(r).status = "running" /\ Claimed(r).key = rows[r].key /\ Claimed(r).started = now + 1
    BY <1>1 DEF Claimed, Row
  <2> QED BY <1>4, <2>1, <2>2 DEF Claim, QueuedNow, RowTo
<1>5. ASSUME ClaimForRequeue(r, row)
      PROVE  /\ rows[r].status = "queued" /\ RowTo(r, "queued", now + 1)
             /\ rows'[r] = Requeued(r) /\ now' = now + 1
  <2>1. rows'[r] = Requeued(r) /\ \A s \in Run \ {r} : rows'[s] = rows[s]
    BY <1>5 DEF ClaimForRequeue
  <2>2. rows[r].status = "queued"
    BY <1>5 DEF ClaimForRequeue, RequeuedAsSeen, QueuedNow
  <2>3. Requeued(r).status = "queued" /\ Requeued(r).key = rows[r].key /\ Requeued(r).started = now + 1
    BY <1>1, <2>2 DEF Requeued, Row
  <2> QED BY <1>5, <2>1, <2>2, <2>3 DEF ClaimForRequeue, RowTo
<1>6. ASSUME MarkPhase(r) PROVE RowsKept /\ now' = now
  <2>1. CASE ~QueuedNow(r)
    BY <1>6, <2>1 DEF MarkPhase, RowsKept
  <2>2. CASE QueuedNow(r)
    <3> DEFINE new == [rows[r] EXCEPT !.phase = "provider-import"]
    <3>1. /\ new.status = rows[r].status /\ new.key = rows[r].key
          /\ new.started = rows[r].started /\ new.error = rows[r].error
      BY <1>1 DEF Row
    <3>2. rows' = [rows EXCEPT ![r] = new]
      BY <1>6, <2>2 DEF MarkPhase
    <3> HIDE DEF new
    <3> QED BY <1>6, <3>1, <3>2 DEF RowsKept, MarkPhase
  <2> QED BY <2>1, <2>2
<1> QED BY <1>2, <1>3, <1>4, <1>5, <1>6

\* Where a step leaves the handler or worker that takes it, and the others.
LEMMA ProcessEffects ==
  ASSUME TypeOK
  PROVE  /\ \A q \in Request : \A pc, r, record :
              ApiHold(q, pc, r, record) => ApiTo(q, pc, r, record)
         /\ \A q \in Request : \A pc :
              ApiGoto(q, pc) => ApiTo(q, pc, api[q].run, api[q].record)
         /\ \A w \in Worker : \A pc, r, record :
              TaskHold(w, pc, r, record) => TaskTo(w, pc, r, record)
         /\ \A w \in Worker : TaskEnd(w) => TaskTo(w, "idle", NoRun, Blank)
<1> USE DEF TypeOK, ApiTypeOK, TaskTypeOK
<1>1. ASSUME NEW q \in Request, NEW pc, NEW r, NEW record, ApiHold(q, pc, r, record)
      PROVE  ApiTo(q, pc, r, record)
  BY <1>1 DEF ApiHold, ApiTo
<1>2. ASSUME NEW q \in Request, NEW pc, ApiGoto(q, pc)
      PROVE  ApiTo(q, pc, api[q].run, api[q].record)
  BY <1>2 DEF ApiGoto, ApiTo
<1>3. ASSUME NEW w \in Worker, NEW pc, NEW r, NEW record, TaskHold(w, pc, r, record)
      PROVE  TaskTo(w, pc, r, record)
  BY <1>3 DEF TaskHold, TaskTo
<1>4. ASSUME NEW w \in Worker, TaskEnd(w) PROVE TaskTo(w, "idle", NoRun, Blank)
  BY <1>4 DEF TaskEnd, Idle, TaskTo
<1> QED BY <1>1, <1>2, <1>3, <1>4

\* What the steps of a handler do to its record and to the table.
LEMMA ApiEffects ==
  ASSUME TypeOK, HeldStatus, NEW q \in Request
  PROVE  /\ \A k \in Key : Submit(q, k) =>
              \E record \in Row : record.key = k /\ ApiTo(q, "insert", NoRun, record)
         /\ ReserveRetry(q) =>
              \/ ApiTo(q, "done", api[q].run, api[q].record)
              \/ \E record \in Row : /\ record.key = api[q].record.key
                                     /\ ApiTo(q, "insert", NoRun, record)
         /\ ReserveInsert(q) =>
              \/ \E i \in Run : /\ RowAdded(i, api[q].record) /\ api[q].record.status = "queued"
                                /\ ApiTo(q, "enqueue", i, rows'[i])
              \/ UNCHANGED <<rows, now>> /\ ApiTo(q, "done", api[q].run, api[q].record)
         /\ MarkQueued(q) => RowsKept /\ now' = now /\ ApiTo(q, "done", api[q].run, api[q].record)
         /\ MarkQueueFailed(q) =>
              /\ api[q].run \in Run /\ now' = now /\ ApiTo(q, "done", api[q].run, api[q].record)
              /\ rows'[api[q].run].status = "failed"
              /\ rows'[api[q].run].key = api[q].record.key
              /\ rows'[api[q].run].started = api[q].record.started
              /\ \A s \in Run \ {api[q].run} : rows'[s] = rows[s]
         /\ RequeueClaim(q) =>
              /\ api[q].run \in Run
              /\ \/ /\ rows[api[q].run].status = "queued" /\ RowTo(api[q].run, "queued", now + 1)
                    /\ now' = now + 1 /\ ApiTo(q, "replace", api[q].run, rows'[api[q].run])
                 \/ UNCHANGED <<rows, now>> /\ ApiTo(q, "done", api[q].run, api[q].record)
         /\ RequeueReplace(q) =>
              /\ api[q].run \in Run /\ now' = now
              /\ \/ /\ rows'[api[q].run] = api[q].record /\ api[q].record.status = "queued"
                    /\ \A s \in Run \ {api[q].run} : rows'[s] = rows[s]
                    /\ ApiTo(q, "enqueue", api[q].run, api[q].record)
                 \/ rows' = rows /\ ApiTo(q, "done", api[q].run, api[q].record)
<1> DEFINE r == api[q].run
           row == api[q].record
<1>1. /\ row \in Row /\ StoreTypeOK /\ row.key \in Key \cup {NoKey}
      /\ api[q].pc \notin {"idle", "insert", "done"} => r \in Run
  BY DEF TypeOK, ApiTypeOK, Row
<1>2. ASSUME NEW k \in Key \cup {NoKey}, NEW a \in NextAttempt(k)
      PROVE  /\ NewRow(k, "queued", "enqueueing", a) \in Row
             /\ NewRow(k, "queued", "enqueueing", a).key = k
  BY <1>1, ReadTypes, NewRowType DEF Status, Phase, NewRow
<1>3. ASSUME NEW k \in Key, Submit(q, k)
      PROVE  \E record \in Row : record.key = k /\ ApiTo(q, "insert", NoRun, record)
  BY <1>2, <1>3, ProcessEffects DEF Submit
<1>4. ASSUME ReserveRetry(q)
      PROVE  \/ ApiTo(q, "done", r, row)
             \/ \E record \in Row : record.key = row.key /\ ApiTo(q, "insert", NoRun, record)
  BY <1>1, <1>2, <1>4, ProcessEffects DEF ReserveRetry
<1>5. ASSUME ReserveInsert(q)
      PROVE  \/ \E i \in Run : /\ RowAdded(i, row) /\ row.status = "queued"
                               /\ ApiTo(q, "enqueue", i, rows'[i])
             \/ UNCHANGED <<rows, now>> /\ ApiTo(q, "done", r, row)
  <2>1. row.status = "queued"
    BY <1>5 DEF ReserveInsert, ApiAt, HeldStatus
  <2> QED BY <1>1, <1>5, <2>1, StoreEffects, ProcessEffects DEF ReserveInsert, storeVars
<1>6. ASSUME MarkQueued(q) PROVE RowsKept /\ now' = now /\ ApiTo(q, "done", r, row)
  BY <1>1, <1>6, StoreEffects, ProcessEffects DEF MarkQueued, ApiAt
<1>7. ASSUME MarkQueueFailed(q)
      PROVE  /\ r \in Run /\ now' = now /\ ApiTo(q, "done", r, row)
             /\ rows'[r].status = "failed" /\ rows'[r].key = row.key
             /\ rows'[r].started = row.started /\ \A s \in Run \ {r} : rows'[s] = rows[s]
  <2> DEFINE new == [row EXCEPT !.status = "failed", !.error = "dependency"]
  <2>1. /\ new \in Row /\ new.status = "failed" /\ new.key = row.key
        /\ new.started = row.started
    BY <1>1 DEF Row, Status, Error
  <2>2. r \in Run /\ Replace(r, new) /\ ApiGoto(q, "done")
    BY <1>1, <1>7 DEF MarkQueueFailed, ApiAt
  <2> HIDE DEF new
  <2> QED BY <1>1, <2>1, <2>2, StoreEffects, ProcessEffects
<1>8. ASSUME RequeueClaim(q)
      PROVE  /\ r \in Run
             /\ \/ /\ rows[r].status = "queued" /\ RowTo(r, "queued", now + 1)
                   /\ now' = now + 1 /\ ApiTo(q, "replace", r, rows'[r])
                \/ UNCHANGED <<rows, now>> /\ ApiTo(q, "done", r, row)
  <2>1. r \in Run
    BY <1>1, <1>8 DEF RequeueClaim, ApiAt
  <2>2. CASE ClaimForRequeue(r, row) /\ ApiHold(q, "replace", r, Requeued(r))
    <3>1. /\ rows[r].status = "queued" /\ RowTo(r, "queued", now + 1)
          /\ rows'[r] = Requeued(r) /\ now' = now + 1
      BY <1>1, <2>1, <2>2, StoreEffects
    <3>2. ApiTo(q, "replace", r, Requeued(r))
      BY <2>2, ProcessEffects
    <3> QED BY <2>1, <3>1, <3>2
  <2>3. CASE ApiGoto(q, "done") /\ UNCHANGED storeVars
    BY <2>1, <2>3, ProcessEffects DEF storeVars
  <2> QED BY <1>8, <2>2, <2>3 DEF RequeueClaim
<1>9. ASSUME RequeueReplace(q)
      PROVE  /\ r \in Run /\ now' = now
             /\ \/ /\ rows'[r] = row /\ row.status = "queued"
                   /\ \A s \in Run \ {r} : rows'[s] = rows[s]
                   /\ ApiTo(q, "enqueue", r, row)
                \/ rows' = rows /\ ApiTo(q, "done", r, row)
  <2>1. r \in Run /\ row.status = "queued"
    BY <1>1, <1>9 DEF RequeueReplace, ApiAt, HeldStatus
  <2>2. CASE Replace(r, row) /\ ApiGoto(q, "enqueue")
    <3>1. rows'[r] = row /\ now' = now /\ \A s \in Run \ {r} : rows'[s] = rows[s]
      BY <1>1, <2>1, <2>2, StoreEffects
    <3>2. ApiTo(q, "enqueue", r, row)
      BY <2>2, ProcessEffects
    <3> QED BY <2>1, <3>1, <3>2
  <2>3. CASE ApiGoto(q, "done") /\ UNCHANGED storeVars
    BY <2>1, <2>3, ProcessEffects DEF storeVars
  <2> QED BY <1>9, <2>2, <2>3 DEF RequeueReplace
<1> QED BY <1>3, <1>4, <1>5, <1>6, <1>7, <1>8, <1>9

\* What the steps of a worker do to its record and to the table.
LEMMA TaskEffects ==
  ASSUME TypeOK, HeldStatus, NEW w \in Worker
  PROVE  /\ \A r \in Run : Take(w, r) =>
              \E record \in Row : record.key = rows[r].key /\ TaskTo(w, "latest", r, record)
         /\ TaskLatest(w) =>
              \/ TaskTo(w, "select", task[w].run, task[w].record)
              \/ /\ NewAttemptAllowed(task[w].record.key)
                 /\ \E record \in Row : /\ record.key = task[w].record.key
                                        /\ TaskTo(w, "append", task[w].run, record)
              \/ TaskTo(w, "idle", NoRun, Blank)
         /\ ClaimSelect(w) =>
              \/ \E r \in LatestOf(task[w].record.key) :
                   rows[r].status = "queued" /\ TaskTo(w, "claim", r, task[w].record)
              \/ TaskTo(w, "idle", NoRun, Blank)
         /\ ClaimUpdate(w) =>
              /\ task[w].run \in Run
              /\ \/ /\ rows[task[w].run].status = "queued" /\ RowTo(task[w].run, "running", now + 1)
                    /\ now' = now + 1 /\ TaskTo(w, "exec", task[w].run, rows'[task[w].run])
                 \/ UNCHANGED <<rows, now>> /\ TaskTo(w, "idle", NoRun, Blank)
         /\ AppendRun(w) =>
              \/ \E i \in Run : /\ RowAdded(i, task[w].record) /\ task[w].record.status = "running"
                                /\ TaskTo(w, "exec", i, rows'[i])
              \/ UNCHANGED <<rows, now>> /\ TaskTo(w, "idle", NoRun, Blank)
         /\ Operate(w) =>
              \E record \in Row : /\ record.key = task[w].record.key
                                  /\ record.started = task[w].record.started
                                  /\ record.status \in {"succeeded", "failed"}
                                  /\ record.status = "failed" => effects' = effects
                                  /\ record.status = "succeeded" =>
                                       effects' = [effects EXCEPT ![record.key] = @ + 1]
                                  /\ TaskTo(w, "record", task[w].run, record)
         /\ Record(w) =>
              /\ task[w].run \in Run /\ task[w].record.status \in {"succeeded", "failed"}
              /\ rows'[task[w].run] = task[w].record /\ now' = now
              /\ \A s \in Run \ {task[w].run} : rows'[s] = rows[s]
              /\ TaskTo(w, "idle", NoRun, Blank)
         /\ EntryFails(w) =>
              /\ task[w].run \in Run /\ UNCHANGED <<rows, now>>
              /\ \/ /\ Active(rows[task[w].run].status)
                    /\ \E record \in Row : /\ record.key = rows[task[w].run].key
                                           /\ record.started = rows[task[w].run].started
                                           /\ TaskTo(w, "abandon", task[w].run, record)
                 \/ TaskTo(w, "idle", NoRun, Blank)
         /\ EntryRecord(w) =>
              /\ task[w].run \in Run /\ task[w].record.status = "failed"
              /\ rows'[task[w].run] = task[w].record /\ now' = now
              /\ \A s \in Run \ {task[w].run} : rows'[s] = rows[s]
              /\ TaskTo(w, "idle", NoRun, Blank)
<1> DEFINE r == task[w].run
           row == task[w].record
<1>1. /\ row \in Row /\ StoreTypeOK /\ row.key \in Key \cup {NoKey}
      /\ task[w].pc # "idle" => r \in Run
  BY DEF TypeOK, TaskTypeOK, Row
<1>2. ASSUME NEW s \in Run, Take(w, s)
      PROVE  \E record \in Row : record.key = rows[s].key /\ TaskTo(w, "latest", s, record)
  <2>1. /\ [Blank EXCEPT !.key = rows[s].key] \in Row
        /\ [Blank EXCEPT !.key = rows[s].key].key = rows[s].key
    BY <1>1 DEF Blank, Row, Status, Phase, Error, StoreTypeOK
  <2> QED BY <1>2, <2>1, ProcessEffects DEF Take
<1>3. ASSUME TaskLatest(w)
      PROVE  \/ TaskTo(w, "select", r, row)
             \/ /\ NewAttemptAllowed(row.key)
                /\ \E record \in Row : record.key = row.key /\ TaskTo(w, "append", r, record)
             \/ TaskTo(w, "idle", NoRun, Blank)
  <2>1. ASSUME NEW a \in NextAttempt(row.key)
        PROVE  /\ NewRow(row.key, "running", "provider-import", a) \in Row
               /\ NewRow(row.key, "running", "provider-import", a).key = row.key
    BY <1>1, ReadTypes, NewRowType DEF Status, Phase, NewRow
  <2> QED BY <1>3, <2>1, ProcessEffects DEF TaskLatest
<1>4. ASSUME ClaimSelect(w)
      PROVE  \/ \E s \in LatestOf(row.key) :
                  rows[s].status = "queued" /\ TaskTo(w, "claim", s, row)
             \/ TaskTo(w, "idle", NoRun, Blank)
  BY <1>4, ProcessEffects DEF ClaimSelect, QueuedNow
<1>5. ASSUME ClaimUpdate(w)
      PROVE  /\ r \in Run
             /\ \/ /\ rows[r].status = "queued" /\ RowTo(r, "running", now + 1)
                   /\ now' = now + 1 /\ TaskTo(w, "exec", r, rows'[r])
                \/ UNCHANGED <<rows, now>> /\ TaskTo(w, "idle", NoRun, Blank)
  <2>1. r \in Run
    BY <1>1, <1>5 DEF ClaimUpdate, TaskAt
  <2>2. CASE Claim(r) /\ TaskHold(w, "exec", r, Claimed(r))
    <3>1. /\ rows[r].status = "queued" /\ RowTo(r, "running", now + 1)
          /\ rows'[r] = Claimed(r) /\ now' = now + 1
      BY <1>1, <2>1, <2>2, StoreEffects
    <3>2. TaskTo(w, "exec", r, Claimed(r))
      BY <2>2, ProcessEffects
    <3> QED BY <2>1, <3>1, <3>2
  <2>3. CASE TaskEnd(w) /\ UNCHANGED storeVars
    BY <2>1, <2>3, ProcessEffects DEF storeVars
  <2> QED BY <1>5, <2>2, <2>3 DEF ClaimUpdate
<1>6. ASSUME AppendRun(w)
      PROVE  \/ \E i \in Run : /\ RowAdded(i, row) /\ row.status = "running"
                               /\ TaskTo(w, "exec", i, rows'[i])
             \/ UNCHANGED <<rows, now>> /\ TaskTo(w, "idle", NoRun, Blank)
  <2>1. row.status = "running"
    BY <1>6 DEF AppendRun, TaskAt, HeldStatus
  <2> QED BY <1>1, <1>6, <2>1, StoreEffects, ProcessEffects DEF AppendRun, storeVars
<1>7. ASSUME Operate(w)
      PROVE  \E record \in Row : /\ record.key = row.key /\ record.started = row.started
                                 /\ record.status \in {"succeeded", "failed"}
                                 /\ record.status = "failed" => effects' = effects
                                 /\ record.status = "succeeded" =>
                                      effects' = [effects EXCEPT ![record.key] = @ + 1]
                                 /\ TaskTo(w, "record", r, record)
  <2>1. ASSUME NEW status \in {"succeeded", "failed"}, NEW error \in Error
        PROVE  /\ Outcome(w, status, error) \in Row /\ Outcome(w, status, error).key = row.key
               /\ Outcome(w, status, error).started = row.started
               /\ Outcome(w, status, error).status = status
    BY <1>1 DEF Outcome, Row, Status
  <2>2. CASE /\ TaskHold(w, "record", r, Outcome(w, "succeeded", "none"))
             /\ effects' = [effects EXCEPT ![row.key] = @ + 1]
    BY <2>1, <2>2, ProcessEffects DEF Error
  <2>3. CASE \E error \in {"dependency", "other"} :
               /\ TaskHold(w, "record", r, Outcome(w, "failed", error))
               /\ UNCHANGED effects
    BY <2>1, <2>3, ProcessEffects DEF Error
  <2> QED BY <1>7, <2>2, <2>3 DEF Operate
<1>8. ASSUME Record(w)
      PROVE  /\ r \in Run /\ row.status \in {"succeeded", "failed"}
             /\ rows'[r] = row /\ now' = now
             /\ \A s \in Run \ {r} : rows'[s] = rows[s]
             /\ TaskTo(w, "idle", NoRun, Blank)
  <2>1. r \in Run /\ row.status \in {"succeeded", "failed"} /\ Replace(r, row) /\ TaskEnd(w)
    BY <1>1, <1>8 DEF Record, TaskAt, HeldStatus
  <2>2. rows'[r] = row /\ now' = now /\ \A s \in Run \ {r} : rows'[s] = rows[s]
    BY <1>1, <2>1, StoreEffects
  <2>3. TaskTo(w, "idle", NoRun, Blank)
    BY <2>1, ProcessEffects
  <2> QED BY <2>1, <2>2, <2>3
<1>9. ASSUME EntryFails(w)
      PROVE  /\ r \in Run /\ UNCHANGED <<rows, now>>
             /\ \/ /\ Active(rows[r].status)
                   /\ \E record \in Row : /\ record.key = rows[r].key
                                          /\ record.started = rows[r].started
                                          /\ TaskTo(w, "abandon", r, record)
                \/ TaskTo(w, "idle", NoRun, Blank)
  <2>1. r \in Run /\ UNCHANGED <<rows, now>>
    BY <1>1, <1>9 DEF EntryFails, TaskAt, storeVars
  <2>2. ASSUME NEW error \in {"dependency", "other"},
               TaskHold(w, "abandon", r, [rows[r] EXCEPT !.status = "failed", !.error = error])
        PROVE  \E record \in Row : /\ record.key = rows[r].key
                                   /\ record.started = rows[r].started
                                   /\ TaskTo(w, "abandon", r, record)
    <3> DEFINE new == [rows[r] EXCEPT !.status = "failed", !.error = error]
    <3>1. new \in Row /\ new.key = rows[r].key /\ new.started = rows[r].started
      BY <1>1, <2>1 DEF StoreTypeOK, Row, Status, Error
    <3>2. TaskHold(w, "abandon", r, new)
      BY <2>2
    <3> HIDE DEF new
    <3> QED BY <3>1, <3>2, ProcessEffects
  <2> QED BY <1>9, <2>1, <2>2, ProcessEffects DEF EntryFails
<1>10. ASSUME EntryRecord(w)
      PROVE  /\ r \in Run /\ row.status = "failed"
             /\ rows'[r] = row /\ now' = now
             /\ \A s \in Run \ {r} : rows'[s] = rows[s]
             /\ TaskTo(w, "idle", NoRun, Blank)
  <2>1. r \in Run /\ row.status = "failed" /\ Replace(r, row) /\ TaskEnd(w)
    BY <1>1, <1>10 DEF EntryRecord, TaskAt, HeldStatus
  <2>2. rows'[r] = row /\ now' = now /\ \A s \in Run \ {r} : rows'[s] = rows[s]
    BY <1>1, <2>1, StoreEffects
  <2>3. TaskTo(w, "idle", NoRun, Blank)
    BY <2>1, ProcessEffects
  <2> QED BY <2>1, <2>2, <2>3
<1> QED BY <1>2, <1>3, <1>4, <1>5, <1>6, <1>7, <1>8, <1>9, <1>10

----------------------------------------------------------------------------
(* One execution at a time.                                                *)

\* A handler that has yet to send the message of its row, a worker on its way
\* to the claim or to its refusal, a worker that executes.
Sending(q) == api[q].pc \in {"requeue", "replace", "enqueue", "fail"}
Seeking(w) == task[w].pc \in {"latest", "select", "claim", "abandon"}
Working(w) == task[w].pc \in {"exec", "record"}

\* The row process p stands for has this status, and p's record its key and stamp.
Agrees(p, status) ==
  /\ rows[p.run].status = status
  /\ rows[p.run].key = p.record.key
  /\ rows[p.run].started = p.record.started

\* Row r is later than every other row of its key.
Last(r) ==
  \A s \in Run \ {r} : ~Absent(s) /\ rows[s].key = rows[r].key => rows[s].started < rows[r].started

Stamped == \A r \in Run : rows[r].started <= now

\* A worker that executes has a running row of its own.
Owned ==
  /\ \A w \in Worker : Working(w) => Agrees(task[w], "running")
  /\ \A v, w \in Worker : Working(v) /\ Working(w) /\ task[v].run = task[w].run => v = w

\* A handler that will send a message, a waiting message and a worker that
\* took one are three forms of one token.  Its row is queued, and there is
\* one token to a row.
SendersHold ==
  /\ \A q \in Request : Sending(q) => Agrees(api[q], "queued") /\ pending[api[q].run] = 0
  /\ \A p, q \in Request : Sending(p) /\ Sending(q) /\ api[p].run = api[q].run => p = q

MessagesHold == \A r \in Run : pending[r] # 0 => pending[r] = 1 /\ rows[r].status = "queued"

SeekersHold ==
  /\ \A w \in Worker : Seeking(w) =>
       /\ rows[task[w].run].status = "queued" /\ rows[task[w].run].key = task[w].record.key
       /\ task[w].pc = "abandon" => rows[task[w].run].started = task[w].record.started
       /\ pending[task[w].run] = 0
       /\ \A q \in Request : Sending(q) => api[q].run # task[w].run
  /\ \A v, w \in Worker : Seeking(v) /\ Seeking(w) /\ task[v].run = task[w].run => v = w

\* So that a worker always finds the row of its message queued, and never
\* starts an attempt of its own.
NoAppend == \A w \in Worker : task[w].pc # "append"

ActiveIsLast == \A r \in Run : Active(rows[r].status) => Last(r)

OneToken ==
  Stamped /\ Owned /\ SendersHold /\ MessagesHold /\ SeekersHold /\ NoAppend /\ ActiveIsLast

\* Nothing is issued for any key at the start.
LEMMA TokenInit == Init => OneToken
<1> SUFFICES ASSUME Init PROVE OneToken
  OBVIOUS
<1>1. /\ \A r \in Run : rows[r].status = "absent" /\ rows[r].started = 0 /\ pending[r] = 0
      /\ \A q \in Request : api[q].pc = "idle"
      /\ \A w \in Worker : task[w].pc = "idle"
      /\ now = 0
  BY DEF Init, StoreInit, Blank, Idle
<1> QED BY <1>1 DEF OneToken, Stamped, Owned, SendersHold, MessagesHold, SeekersHold,
                    NoAppend, ActiveIsLast, Sending, Seeking, Working, Active

\* Handlers issue a message only with the row they own.
LEMMA TokenApi ==
  ASSUME TypeOK, HeldStatus, NothingUnseen, OneToken, NEW q \in Request, ApiStep(q)
  PROVE  OneToken'
<1> DEFINE r == api[q].run
           row == api[q].record
<1>1. /\ \A s \in Run : rows[s].started \in Nat
      /\ now \in Nat /\ r \in Run \cup {NoRun} /\ row.started \in Nat
      /\ \A p \in Request : Sending(p) => api[p].run \in Run
      /\ \A w \in Worker : Seeking(w) \/ Working(w) => task[w].run \in Run
      /\ pending \in [Run -> Nat]
  BY DEF TypeOK, StoreTypeOK, ApiTypeOK, TaskTypeOK, Row, Sending, Seeking, Working
<1> USE DEF OneToken, Stamped, Owned, SendersHold, MessagesHold, SeekersHold,
            NoAppend, ActiveIsLast, Sending, Seeking, Working, Agrees, Last, Absent
\* A handler that moves on without sending anything leaves the tokens alone.
<1>m. ASSUME rows' = rows, now' = now, pending' = pending, task' = task,
             api'[q].pc \in {"insert", "done"}, \A p \in Request \ {q} : api'[p] = api[p]
      PROVE  OneToken'
  BY <1>1, <1>m
<1>2. CASE ReserveRetry(q)
  <2>1. api'[q].pc \in {"insert", "done"} /\ \A p \in Request \ {q} : api'[p] = api[p]
    BY <1>2, ApiEffects DEF ApiTo
  <2> QED BY <1>2, <1>m, <2>1 DEF ReserveRetry, storeVars
<1>3. CASE ReserveInsert(q)
  <2>1. CASE UNCHANGED <<rows, now>> /\ ApiTo(q, "done", r, row)
    BY <1>3, <1>m, <2>1 DEF ReserveInsert, ApiTo
  <2>2. ASSUME NEW i \in Run, RowAdded(i, row), row.status = "queued", ApiTo(q, "enqueue", i, rows'[i])
        PROVE  OneToken'
    BY <1>1, <1>3, <2>2 DEF ReserveInsert, ApiTo, RowAdded, IndexAdmits, Active
  <2> QED BY <1>3, <2>1, <2>2, ApiEffects
<1>4. CASE Enqueue(q)
  <2>1. ApiTo(q, "mark", r, row) /\ api[q].pc = "enqueue"
    BY <1>4, ProcessEffects DEF Enqueue, ApiAt, NothingUnseen
  <2>2. UNCHANGED <<rows, now, task>> /\ pending' = [pending EXCEPT ![r] = @ + 1]
    BY <1>4 DEF Enqueue, storeVars
  <2> QED BY <1>1, <2>1, <2>2 DEF ApiTo
<1>5. CASE EnqueueRefused(q)
  <2>1. ApiTo(q, "fail", r, row) /\ api[q].pc = "enqueue" /\ UNCHANGED <<rows, now, pending, task>>
    BY <1>5, ProcessEffects DEF EnqueueRefused, ApiAt, storeVars
  <2> QED BY <1>1, <2>1 DEF ApiTo
<1>6. CASE MarkQueued(q)
  <2>1. RowsKept /\ now' = now /\ ApiTo(q, "done", r, row)
    BY <1>6, ApiEffects
  <2> QED BY <1>1, <1>6, <2>1 DEF MarkQueued, ApiTo, RowsKept
<1>7. CASE MarkQueueFailed(q)
  <2>1. /\ r \in Run /\ now' = now /\ ApiTo(q, "done", r, row)
        /\ rows'[r].status = "failed" /\ rows'[r].key = row.key
        /\ rows'[r].started = row.started /\ \A s \in Run \ {r} : rows'[s] = rows[s]
    BY <1>7, ApiEffects
  <2>2. UNCHANGED <<pending, task>> /\ Agrees(api[q], "queued") /\ Sending(q)
    BY <1>7 DEF MarkQueueFailed, ApiAt
  <2> QED BY <1>1, <2>1, <2>2 DEF ApiTo, Active
<1>8. CASE RequeueClaim(q)
  <2>1. CASE UNCHANGED <<rows, now>> /\ ApiTo(q, "done", r, row)
    BY <1>8, <1>m, <2>1 DEF RequeueClaim, ApiTo
  <2>2. CASE /\ rows[r].status = "queued" /\ RowTo(r, "queued", now + 1)
             /\ now' = now + 1 /\ ApiTo(q, "replace", r, rows'[r])
    BY <1>1, <1>8, <2>2 DEF RequeueClaim, ApiAt, ApiTo, RowTo, Active
  <2> QED BY <1>8, <2>1, <2>2, ApiEffects
<1>9. CASE RequeueReplace(q)
  <2>1. CASE rows' = rows /\ now' = now /\ ApiTo(q, "done", r, row)
    BY <1>9, <1>m, <2>1 DEF RequeueReplace, ApiTo
  <2>2. CASE /\ rows'[r] = row /\ row.status = "queued" /\ now' = now
             /\ \A s \in Run \ {r} : rows'[s] = rows[s]
             /\ ApiTo(q, "enqueue", r, row)
    <3>1. UNCHANGED <<pending, task>> /\ Agrees(api[q], "queued") /\ Sending(q)
      BY <1>9 DEF RequeueReplace, ApiAt
    <3> QED BY <1>1, <2>2, <3>1 DEF ApiTo, Active
  <2> QED BY <1>9, <2>1, <2>2, ApiEffects
<1> QED BY <1>2, <1>3, <1>4, <1>5, <1>6, <1>7, <1>8, <1>9 DEF ApiStep

\* Workers pass on the one token of their key, or end it.
LEMMA TokenTask ==
  ASSUME TypeOK, HeldStatus, OneToken, NEW w \in Worker, TaskStep(w)
  PROVE  OneToken'
<1> DEFINE r == task[w].run
           row == task[w].record
<1>1. /\ \A s \in Run : rows[s].started \in Nat
      /\ now \in Nat /\ r \in Run \cup {NoRun} /\ row.started \in Nat
      /\ \A p \in Request : Sending(p) => api[p].run \in Run
      /\ \A v \in Worker : Seeking(v) \/ Working(v) => task[v].run \in Run
      /\ pending \in [Run -> Nat]
  BY DEF TypeOK, StoreTypeOK, ApiTypeOK, TaskTypeOK, Row, Sending, Seeking, Working
<1> USE DEF OneToken, Stamped, Owned, SendersHold, MessagesHold, SeekersHold,
            NoAppend, ActiveIsLast, Sending, Seeking, Working, Agrees, Last, Absent
\* A worker that gives up takes its token away.
<1>m. ASSUME UNCHANGED <<rows, now, pending, api>>, TaskTo(w, "idle", NoRun, Blank)
      PROVE  OneToken'
  BY <1>1, <1>m DEF TaskTo
<1>2. CASE TaskLatest(w)
  <2>1. UNCHANGED <<rows, now, pending, api>> /\ task[w].pc = "latest"
    BY <1>2 DEF TaskLatest, TaskAt, storeVars
  <2>2. CASE TaskTo(w, "select", r, row)
    BY <1>1, <2>1, <2>2 DEF TaskTo
  <2>3. ~NewAttemptAllowed(row.key)
    <3>1. r \in Run /\ rows[r].status = "queued" /\ rows[r].key = row.key /\ Last(r)
      BY <1>1, <2>1 DEF Active
    <3>2. \A s \in LatestOf(row.key) : s = r
      BY <1>1, <3>1 DEF LatestOf, RowsOf
    <3> QED BY <3>1, <3>2 DEF NewAttemptAllowed, LatestIs, RowsOf
  <2> QED BY <1>2, <1>m, <2>1, <2>2, <2>3, TaskEffects
<1>3. CASE ClaimSelect(w)
  <2>1. UNCHANGED <<rows, now, pending, api>> /\ task[w].pc = "select"
    BY <1>3 DEF ClaimSelect, TaskAt, storeVars
  <2>2. ASSUME NEW s \in LatestOf(row.key), rows[s].status = "queued", TaskTo(w, "claim", s, row)
        PROVE  OneToken'
    <3>1. s = r
      BY <1>1, <2>1, <2>2 DEF LatestOf, RowsOf, Active
    <3> QED BY <1>1, <2>1, <2>2, <3>1 DEF TaskTo
  <2> QED BY <1>3, <1>m, <2>1, <2>2, TaskEffects
<1>4. CASE ClaimUpdate(w)
  <2>1. UNCHANGED <<pending, api>> /\ task[w].pc = "claim"
    BY <1>4 DEF ClaimUpdate, TaskAt
  <2>2. CASE UNCHANGED <<rows, now>> /\ TaskTo(w, "idle", NoRun, Blank)
    BY <1>m, <2>1, <2>2
  <2>3. CASE /\ r \in Run /\ rows[r].status = "queued" /\ RowTo(r, "running", now + 1)
             /\ now' = now + 1 /\ TaskTo(w, "exec", r, rows'[r])
    BY <1>1, <2>1, <2>3 DEF TaskTo, RowTo, Active
  <2> QED BY <1>4, <2>2, <2>3, TaskEffects
<1>5. CASE AppendRun(w)
  BY <1>5 DEF AppendRun, TaskAt
<1>6. CASE Operate(w)
  <2>1. UNCHANGED <<rows, now, pending, api>> /\ task[w].pc = "exec"
    BY <1>6 DEF Operate, TaskAt, storeVars
  <2>2. PICK record \in Row : /\ record.key = row.key /\ record.started = row.started
                              /\ TaskTo(w, "record", r, record)
    BY <1>6, TaskEffects
  <2> QED BY <1>1, <2>1, <2>2 DEF TaskTo
<1>7. CASE Record(w)
  <2>1. UNCHANGED <<pending, api>> /\ task[w].pc = "record"
    BY <1>7 DEF Record, TaskAt
  <2>2. /\ r \in Run /\ row.status \in {"succeeded", "failed"}
        /\ rows'[r] = row /\ now' = now
        /\ \A s \in Run \ {r} : rows'[s] = rows[s]
        /\ TaskTo(w, "idle", NoRun, Blank)
    BY <1>7, TaskEffects
  <2>3. rows[r].status = "running" /\ rows[r].key = row.key /\ rows[r].started = row.started
    BY <2>1
  <2>4. Stamped' /\ MessagesHold' /\ ActiveIsLast'
    BY <1>1, <2>1, <2>2, <2>3 DEF Active
  <2>5. Owned' /\ NoAppend'
    BY <1>1, <2>1, <2>2, <2>3 DEF TaskTo
  <2>6. SendersHold' /\ SeekersHold'
    BY <1>1, <2>1, <2>2, <2>3 DEF TaskTo
  <2> QED BY <2>4, <2>5, <2>6
<1>8. CASE EntryFails(w)
  <2>1. UNCHANGED <<rows, now, pending, api>> /\ task[w].pc = "latest" /\ r \in Run
    BY <1>1, <1>8 DEF EntryFails, TaskAt, storeVars
  <2>2. ASSUME NEW record \in Row, record.key = rows[r].key, record.started = rows[r].started,
               TaskTo(w, "abandon", r, record)
        PROVE  OneToken'
    <3>1. Stamped' /\ SendersHold' /\ MessagesHold' /\ ActiveIsLast'
      BY <2>1
    <3>2. Owned' /\ NoAppend'
      BY <1>1, <2>1, <2>2 DEF TaskTo
    <3>3. SeekersHold'
      BY <1>1, <2>1, <2>2 DEF TaskTo
    <3> QED BY <3>1, <3>2, <3>3
  <2> QED BY <1>8, <1>m, <2>1, <2>2, TaskEffects
<1>9. CASE EntryRecord(w)
  <2>1. UNCHANGED <<pending, api>> /\ task[w].pc = "abandon"
    BY <1>9 DEF EntryRecord, TaskAt
  <2>2. /\ r \in Run /\ row.status = "failed"
        /\ rows'[r] = row /\ now' = now
        /\ \A s \in Run \ {r} : rows'[s] = rows[s]
        /\ TaskTo(w, "idle", NoRun, Blank)
    BY <1>9, TaskEffects
  <2>3. rows[r].status = "queued" /\ rows[r].key = row.key /\ rows[r].started = row.started
    BY <2>1
  <2>4. Stamped' /\ MessagesHold' /\ ActiveIsLast'
    BY <1>1, <2>1, <2>2, <2>3 DEF Active
  <2>5. Owned' /\ NoAppend'
    BY <1>1, <2>1, <2>2, <2>3 DEF TaskTo
  <2>6. SendersHold' /\ SeekersHold'
    BY <1>1, <2>1, <2>2, <2>3 DEF TaskTo
  <2> QED BY <2>4, <2>5, <2>6
<1> QED BY <1>2, <1>3, <1>4, <1>5, <1>6, <1>7, <1>8, <1>9 DEF TaskStep

\* Every step keeps one token per key, while no message is unseen.
LEMMA TokenStep ==
  TypeOK /\ HeldStatus /\ NothingUnseen /\ OneToken /\ [Next]_vars => OneToken'
<1> SUFFICES ASSUME TypeOK, HeldStatus, NothingUnseen, OneToken, [Next]_vars PROVE OneToken'
  OBVIOUS
<1>1. /\ \A s \in Run : rows[s].started \in Nat
      /\ now \in Nat
      /\ \A p \in Request : Sending(p) => api[p].run \in Run
      /\ \A v \in Worker : Seeking(v) \/ Working(v) => task[v].run \in Run
      /\ pending \in [Run -> Nat]
  BY DEF TypeOK, StoreTypeOK, ApiTypeOK, TaskTypeOK, Row, Sending, Seeking, Working
<1> USE DEF OneToken, Stamped, Owned, SendersHold, MessagesHold, SeekersHold,
            NoAppend, ActiveIsLast, Sending, Seeking, Working, Agrees, Last, Absent
<1>2. CASE UNCHANGED vars
  BY <1>2 DEF vars
<1>3. ASSUME NEW q \in Request, UNCHANGED <<rows, now, pending, task>>,
             api'[q].pc \in {"insert", "reserve", "done"}, \A p \in Request \ {q} : api'[p] = api[p]
      PROVE  OneToken'
  BY <1>1, <1>3
<1>4. ASSUME NEW q \in Request, \/ \E k \in Key : Submit(q, k)
                                \/ \E r \in Run : RetryFailed(q, r)
                                \/ ApiCrash(q)
      PROVE  OneToken'
  <2>1. api'[q].pc \in {"insert", "reserve", "done"} /\ \A p \in Request \ {q} : api'[p] = api[p]
    BY <1>4, ProcessEffects DEF Submit, RetryFailed, ApiCrash, ApiTo
  <2> QED BY <1>3, <1>4, <2>1 DEF Submit, RetryFailed, ApiCrash, storeVars
<1>5. ASSUME NEW q \in Request, NEW r \in Run, RetryStale(q, r) PROVE OneToken'
  <2>1. /\ UNCHANGED <<rows, now, pending, task>> /\ rows[r].status = "queued"
        /\ ApiTo(q, "requeue", r, rows[r])
    BY <1>5, ProcessEffects DEF RetryStale, storeVars, QueuedIsStale
  <2>2. /\ pending[r] = 0
        /\ \A p \in Request : Sending(p) => api[p].run # r
        /\ \A w \in Worker : Seeking(w) => task[w].record.key # rows[r].key
    BY <1>1, <1>5 DEF RetryStale, QueuedIsStale, InFlight, NothingUnseen
  <2> QED BY <1>1, <2>1, <2>2 DEF ApiTo
<1>6. ASSUME NEW w \in Worker, NEW r \in Run, Take(w, r) PROVE OneToken'
  <2>1. /\ UNCHANGED <<rows, now, api>> /\ task[w].pc = "idle" /\ pending[r] > 0
        /\ pending' = [pending EXCEPT ![r] = @ - 1]
    BY <1>6 DEF Take, TaskAt, storeVars
  <2>2. PICK record \in Row : record.key = rows[r].key /\ TaskTo(w, "latest", r, record)
    BY <1>6, TaskEffects
  <2>3. /\ pending'[r] = 0 /\ rows[r].status = "queued"
        /\ \A s \in Run \ {r} : pending'[s] = pending[s]
    BY <1>1, <2>1
  <2> QED BY <1>1, <2>1, <2>2, <2>3 DEF TaskTo
<1>7. ASSUME NEW w \in Worker, WorkerCrash(w) PROVE OneToken'
  <2>1. UNCHANGED <<rows, now, pending, api>> /\ TaskTo(w, "idle", NoRun, Blank)
    BY <1>7, ProcessEffects DEF WorkerCrash, storeVars
  <2> QED BY <1>1, <2>1 DEF TaskTo
<1>8. CASE Restart
  <2>1. ASSUME NEW r \in Run
        PROVE  /\ rows'[r].key = rows[r].key /\ rows'[r].started = rows[r].started
               /\ rows'[r].status = "absent" <=> rows[r].status = "absent"
               /\ Active(rows'[r].status) => Active(rows[r].status)
               /\ pending'[r] = 0
    <3>1. rows'[r] = Abandoned(rows[r]) /\ rows[r] \in Row
      BY <1>8 DEF Restart, TypeOK, StoreTypeOK
    <3>2. /\ Abandoned(rows[r]).key = rows[r].key
          /\ Abandoned(rows[r]).started = rows[r].started
          /\ Abandoned(rows[r]).status =
               IF rows[r].status = "running" THEN "failed" ELSE rows[r].status
      BY <3>1 DEF Abandoned, Row
    <3> QED BY <1>8, <3>1, <3>2 DEF Restart, Active
  <2>2. /\ \A q \in Request : api'[q].pc \in {"idle", "done"}
        /\ \A w \in Worker : task'[w].pc = "idle"
        /\ now' = now
    BY <1>8 DEF Restart, ApiAt, Idle, TypeOK, ApiTypeOK
  <2> QED BY <1>1, <2>1, <2>2
<1> QED BY <1>2, <1>4, <1>5, <1>6, <1>7, <1>8, TokenApi, TokenTask DEF Next

\* The environment of a behaviour is fixed.
LEMMA FaultFixed == [Next]_vars => fault' = fault
BY DEF Next, vars, Submit, RetryFailed, RetryStale, ApiStep, ReserveRetry, ReserveInsert,
       Enqueue, EnqueueRefused, MarkQueued, MarkQueueFailed, RequeueClaim, RequeueReplace,
       ApiCrash, Take, TaskStep, TaskLatest, ClaimSelect, ClaimUpdate, AppendRun, Operate,
       Record, EntryFails, EntryRecord, WorkerCrash, Restart

\* HeldStatus in every reachable state.
LEMMA HeldAlways == Spec => []HeldStatus
<1>1. Init => HeldStatus
  BY DEF Init, HeldStatus, Idle
<1> QED BY <1>1, NextHeld, TypeCorrect, PTL DEF Spec

\* One token per key in every reachable state.
LEMMA TokenAlways == Spec => [](NothingUnseen => OneToken)
<1>1. NothingUnseen' = NothingUnseen \/ fault' # fault
  BY DEF NothingUnseen
<1>2. TypeOK /\ HeldStatus /\ (NothingUnseen => OneToken) /\ [Next]_vars
        => (NothingUnseen => OneToken)'
  BY <1>1, TokenStep, FaultFixed
<1> QED BY <1>2, TokenInit, TypeCorrect, HeldAlways, PTL DEF Spec

\* While the staleness limit exceeds the queueing time and no acknowledgement
\* is lost, two workers never run the import of one key together: not after a
\* crash, a restart, a refused dispatch or a write between a read and the
\* statement that relies on it.
THEOREM ExecutionIsSingle == Spec => []SingleExecution
<1>1. TypeOK /\ (NothingUnseen => OneToken) => SingleExecution
  <2> SUFFICES ASSUME TypeOK, OneToken, NEW v \in Worker, NEW w \in Worker,
                      TaskAt(v, "exec"), TaskAt(w, "exec"),
                      task[v].record.key = task[w].record.key
               PROVE  v = w
    BY DEF SingleExecution
  <2>1. Working(v) /\ Working(w) /\ task[v].run \in Run /\ task[w].run \in Run
    BY DEF TaskAt, Working, TypeOK, TaskTypeOK
  <2>2. /\ rows[task[v].run].status = "running" /\ rows[task[w].run].status = "running"
        /\ rows[task[v].run].key = rows[task[w].run].key
    BY <2>1 DEF OneToken, Owned, Agrees
  <2>3. /\ \A r \in Run : rows[r].started \in Nat
        /\ Last(task[v].run) /\ Last(task[w].run)
    BY <2>1, <2>2 DEF OneToken, ActiveIsLast, Active, TypeOK, StoreTypeOK, Row
  <2>4. task[v].run = task[w].run
    BY <2>1, <2>2, <2>3 DEF Last, Absent
  <2> QED BY <2>1, <2>4 DEF OneToken, Owned
<1> QED BY <1>1, TokenAlways, TypeCorrect, PTL

----------------------------------------------------------------------------
(* What is decided stays decided: writes that rely on a current read.      *)

\* A row that did not fail is later than every other row of its key, hence
\* the only such row.
UnfailedIsLast == \A r \in Run : rows[r].status \notin {"absent", "failed"} => Last(r)

AllFailed(k) == \A r \in Run : ~Absent(r) /\ rows[r].key = k => rows[r].status = "failed"

\* One read-then-write sequence at a time on a key.
InApi(q) == api[q].pc \in ApiWindow
InTask(w) == task[w].pc \in TaskWindow
OneWindow ==
  /\ \A p, q \in Request : InApi(p) /\ InApi(q) /\ api[p].record.key = api[q].record.key => p = q
  /\ \A v, w \in Worker : InTask(v) /\ InTask(w) /\ task[v].record.key = task[w].record.key => v = w
  /\ \A q \in Request : \A w \in Worker : InApi(q) /\ InTask(w) =>
       api[q].record.key # task[w].record.key

\* Row r exists and belongs to key k.
OfKey(r, k) == ~Absent(r) /\ rows[r].key = k

\* What a process read is still so: a new attempt is made where all failed, a
\* handler rewrites the queued row it claimed, and the rows of handlers,
\* messages and workers exist under their keys.
ApiKnows(q) ==
  /\ api[q].pc \in {"reserve", "insert"} => AllFailed(api[q].record.key)
  /\ api[q].pc \in {"requeue", "replace", "enqueue"} => OfKey(api[q].run, api[q].record.key)
  /\ api[q].pc = "replace" => Agrees(api[q], "queued")
  /\ api[q].pc = "fail" => fault \cap {"outage", "ackloss"} # {}

TaskKnows(w) ==
  /\ task[w].pc = "append" => AllFailed(task[w].record.key)
  /\ task[w].pc \in {"latest", "select", "claim", "abandon"} => OfKey(task[w].run, task[w].record.key)
  /\ task[w].pc = "abandon" =>
       /\ "background" \in fault /\ Active(rows[task[w].run].status)
       /\ rows[task[w].run].started = task[w].record.started

ReadsAreCurrent ==
  /\ \A q \in Request : ApiKnows(q)
  /\ \A w \in Worker : TaskKnows(w)
  /\ \A r \in Run : pending[r] # 0 => ~Absent(r)

\* The background mode has one thread.
OneThread ==
  "background" \in fault =>
    \A v, w \in Worker : task[v].pc # "idle" /\ task[w].pc # "idle" => v = w

Current == Stamped /\ Owned /\ UnfailedIsLast /\ OneWindow /\ ReadsAreCurrent /\ OneThread

\* A failing handler is of the environment where recovery never overtakes
\* it, so that its row is still queued.
LEMMA FailingIsToken ==
  ASSUME WritesAreCurrent, NothingUnseen => OneToken, Current, NEW q \in Request,
         api[q].pc = "fail"
  PROVE  Agrees(api[q], "queued")
<1>1. "outage" \in fault /\ NothingUnseen
  BY DEF Current, ReadsAreCurrent, ApiKnows, WritesAreCurrent, NothingUnseen
<1> QED BY <1>1 DEF OneToken, SendersHold, Sending

\* Nothing has been read at the start.
LEMMA CurrentInit == Init => Current
<1> SUFFICES ASSUME Init PROVE Current
  OBVIOUS
<1>1. /\ \A r \in Run : rows[r].status = "absent" /\ rows[r].started = 0 /\ pending[r] = 0
      /\ \A q \in Request : api[q].pc = "idle"
      /\ \A w \in Worker : task[w].pc = "idle"
      /\ now = 0
  BY DEF Init, StoreInit, Blank, Idle
<1> QED BY <1>1 DEF Current, Stamped, Owned, UnfailedIsLast, OneWindow, ReadsAreCurrent, OneThread,
                    ApiKnows, TaskKnows, InApi, InTask, ApiWindow, TaskWindow, Working

\* What a handler reads is still so when it writes.
LEMMA CurrentApi ==
  ASSUME TypeOK, HeldStatus, WritesAreCurrent, NothingUnseen => OneToken, Current,
         NEW q \in Request, ApiStep(q)
  PROVE  Current'
<1> DEFINE r == api[q].run
           row == api[q].record
<1>1. /\ \A s \in Run : rows[s].started \in Nat
      /\ now \in Nat /\ r \in Run \cup {NoRun} /\ row.started \in Nat
      /\ \A p \in Request : api[p].pc \in {"requeue", "replace", "enqueue", "fail"} => api[p].run \in Run
      /\ \A w \in Worker : task[w].pc # "idle" => task[w].run \in Run
      /\ pending \in [Run -> Nat]
      /\ "stall" \notin fault /\ "ackloss" \notin fault
  BY DEF TypeOK, StoreTypeOK, ApiTypeOK, TaskTypeOK, Row, WritesAreCurrent
<1>f. UNCHANGED <<fault, task>>
  BY DEF ApiStep, ReserveRetry, ReserveInsert, Enqueue, EnqueueRefused, MarkQueued,
         MarkQueueFailed, RequeueClaim, RequeueReplace
<1> USE DEF Current, Stamped, Owned, UnfailedIsLast, OneWindow, ReadsAreCurrent, OneThread,
            ApiKnows, TaskKnows, InApi, InTask, ApiWindow, TaskWindow, Working, AllFailed,
            Agrees, OfKey, Last, Absent
\* A handler that goes on in its window, or leaves it, without a write.
<1>m. ASSUME UNCHANGED <<rows, now, pending>>, \A p \in Request \ {q} : api'[p] = api[p],
             \/ api'[q].pc = "done"
             \/ /\ api[q].pc = "reserve" /\ api'[q].pc = "insert"
                /\ api'[q].record.key = api[q].record.key
      PROVE  Current'
  BY <1>1, <1>f, <1>m
<1>2. CASE ReserveRetry(q)
  <2>1. /\ \A p \in Request \ {q} : api'[p] = api[p]
        /\ \/ api'[q].pc = "done"
           \/ api'[q].pc = "insert" /\ api'[q].record.key = api[q].record.key
    BY <1>2, ApiEffects DEF ApiTo
  <2> QED BY <1>2, <1>m, <2>1 DEF ReserveRetry, ApiAt, storeVars
<1>3. CASE ReserveInsert(q)
  <2>1. CASE UNCHANGED <<rows, now>> /\ ApiTo(q, "done", r, row)
    BY <1>3, <1>m, <2>1 DEF ReserveInsert, ApiTo
  <2>2. ASSUME NEW i \in Run, RowAdded(i, row), row.status = "queued", ApiTo(q, "enqueue", i, rows'[i])
        PROVE  Current'
    <3>1. api[q].pc = "insert" /\ UNCHANGED pending
      BY <1>3 DEF ReserveInsert, ApiAt
    <3>a. Stamped' /\ UnfailedIsLast'
      BY <1>1, <1>f, <2>2, <3>1 DEF RowAdded
    <3>b. Owned'
      BY <1>1, <1>f, <2>2, <3>1 DEF RowAdded
    <3>c. OneWindow' /\ OneThread'
      BY <1>1, <1>f, <2>2, <3>1 DEF ApiTo
    <3>d. \A p \in Request : ApiKnows(p)'
      BY <1>1, <1>f, <2>2, <3>1 DEF RowAdded, ApiTo
    <3>e. /\ \A v \in Worker : TaskKnows(v)'
          /\ \A s \in Run : pending'[s] # 0 => ~Absent(s)'
      BY <1>1, <1>f, <2>2, <3>1 DEF RowAdded
    <3> QED BY <3>a, <3>b, <3>c, <3>d, <3>e
  <2> QED BY <1>3, <2>1, <2>2, ApiEffects
<1>4. CASE Enqueue(q)
  <2>1. ApiTo(q, "mark", r, row) /\ api[q].pc = "enqueue"
    BY <1>1, <1>4, ProcessEffects DEF Enqueue, ApiAt
  <2>2. UNCHANGED <<rows, now>> /\ pending' = [pending EXCEPT ![r] = @ + 1]
    BY <1>4 DEF Enqueue, storeVars
  <2> QED BY <1>1, <1>f, <2>1, <2>2 DEF ApiTo
<1>5. CASE EnqueueRefused(q)
  <2>1. /\ ApiTo(q, "fail", r, row) /\ api[q].pc = "enqueue" /\ UNCHANGED <<rows, now, pending>>
        /\ "outage" \in fault
    BY <1>5, ProcessEffects DEF EnqueueRefused, ApiAt, storeVars
  <2> QED BY <1>1, <1>f, <2>1 DEF ApiTo
<1>6. CASE MarkQueued(q)
  <2>1. RowsKept /\ now' = now /\ ApiTo(q, "done", r, row) /\ UNCHANGED pending
    BY <1>6, ApiEffects DEF MarkQueued
  <2> QED BY <1>1, <1>f, <2>1 DEF ApiTo, RowsKept
<1>7. CASE MarkQueueFailed(q)
  <2>1. /\ r \in Run /\ now' = now /\ ApiTo(q, "done", r, row)
        /\ rows'[r].status = "failed" /\ rows'[r].key = row.key
        /\ rows'[r].started = row.started /\ \A s \in Run \ {r} : rows'[s] = rows[s]
    BY <1>7, ApiEffects
  <2>2. UNCHANGED pending /\ Agrees(api[q], "queued") /\ Undisturbed(row.key)
    BY <1>7, FailingIsToken DEF MarkQueueFailed, ApiAt
  <2>3. /\ \A p \in Request : InApi(p) => api[p].record.key # row.key
        /\ \A w \in Worker : InTask(w) => task[w].record.key # row.key
    BY <1>1, <2>2 DEF Undisturbed
  <2>a. Stamped' /\ UnfailedIsLast'
    BY <1>1, <1>f, <2>1, <2>2, <2>3
  <2>b. Owned'
    BY <1>1, <1>f, <2>1, <2>2, <2>3
  <2>c. OneWindow' /\ OneThread'
    BY <1>1, <1>f, <2>1, <2>2, <2>3 DEF ApiTo
  <2>d. \A p \in Request : ApiKnows(p)'
    BY <1>1, <1>f, <2>1, <2>2, <2>3 DEF ApiTo
  <2>e. /\ \A v \in Worker : TaskKnows(v)'
        /\ \A s \in Run : pending'[s] # 0 => ~Absent(s)'
    BY <1>1, <1>f, <2>1, <2>2, <2>3
  <2> QED BY <2>a, <2>b, <2>c, <2>d, <2>e
<1>8. CASE RequeueClaim(q)
  <2>1. CASE UNCHANGED <<rows, now>> /\ ApiTo(q, "done", r, row)
    BY <1>8, <1>m, <2>1 DEF RequeueClaim, ApiTo
  <2>2. CASE /\ rows[r].status = "queued" /\ RowTo(r, "queued", now + 1)
             /\ now' = now + 1 /\ ApiTo(q, "replace", r, rows'[r])
    <3>1. api[q].pc = "requeue" /\ UNCHANGED pending
      BY <1>8 DEF RequeueClaim, ApiAt
    <3>2. /\ r \in Run /\ rows[r].key = row.key /\ InApi(q)
          /\ api'[q].pc = "replace" /\ api'[q].run = r /\ api'[q].record.key = row.key
          /\ \A p \in Request \ {q} : api'[p] = api[p]
      BY <1>1, <2>2, <3>1 DEF ApiTo, RowTo
    <3>a. Stamped' /\ UnfailedIsLast'
      BY <1>1, <1>f, <2>2, <3>1 DEF RowTo
    <3>b. Owned'
      BY <1>1, <1>f, <2>2, <3>1 DEF RowTo
    <3>c. OneWindow' /\ OneThread'
      BY <1>f, <3>1, <3>2
    <3>d. \A p \in Request : ApiKnows(p)'
      BY <1>1, <1>f, <2>2, <3>1 DEF RowTo, ApiTo
    <3>e. /\ \A v \in Worker : TaskKnows(v)'
          /\ \A s \in Run : pending'[s] # 0 => ~Absent(s)'
      BY <1>1, <1>f, <2>2, <3>1 DEF RowTo
    <3> QED BY <3>a, <3>b, <3>c, <3>d, <3>e
  <2> QED BY <1>8, <2>1, <2>2, ApiEffects
<1>9. CASE RequeueReplace(q)
  <2>1. CASE rows' = rows /\ now' = now /\ ApiTo(q, "done", r, row)
    BY <1>9, <1>m, <2>1 DEF RequeueReplace, ApiTo
  <2>2. CASE /\ rows'[r] = row /\ row.status = "queued" /\ now' = now
             /\ \A s \in Run \ {r} : rows'[s] = rows[s]
             /\ ApiTo(q, "enqueue", r, row)
    <3>1. api[q].pc = "replace" /\ UNCHANGED pending
      BY <1>9 DEF RequeueReplace, ApiAt
    <3>a. Stamped' /\ UnfailedIsLast'
      BY <1>1, <1>f, <2>2, <3>1
    <3>b. Owned'
      BY <1>1, <1>f, <2>2, <3>1
    <3>c. OneWindow' /\ OneThread'
      BY <1>1, <1>f, <2>2, <3>1 DEF ApiTo
    <3>d. \A p \in Request : ApiKnows(p)'
      BY <1>1, <1>f, <2>2, <3>1 DEF ApiTo
    <3>e. /\ \A v \in Worker : TaskKnows(v)'
          /\ \A s \in Run : pending'[s] # 0 => ~Absent(s)'
      BY <1>1, <1>f, <2>2, <3>1
    <3> QED BY <3>a, <3>b, <3>c, <3>d, <3>e
  <2> QED BY <1>9, <2>1, <2>2, ApiEffects
<1> QED BY <1>2, <1>3, <1>4, <1>5, <1>6, <1>7, <1>8, <1>9 DEF ApiStep

\* Where there is no row, or a latest one failed, all of them failed.
LEMMA FailedLatest ==
  ASSUME StoreTypeOK, UnfailedIsLast, NEW k, RowsOf(k) = {} \/ LatestIs(k, "failed")
  PROVE  AllFailed(k)
<1> SUFFICES ASSUME NEW r \in Run, ~Absent(r), rows[r].key = k, rows[r].status # "failed"
             PROVE  FALSE
  BY DEF AllFailed
<1>1. Last(r) /\ r \in RowsOf(k)
  BY DEF UnfailedIsLast, Absent, RowsOf
<1>2. \A s \in Run : rows[s].started \in Nat
  BY DEF StoreTypeOK, Row
<1>3. \A s \in LatestOf(k) : s = r
  BY <1>1, <1>2 DEF LatestOf, RowsOf, Last
<1> QED BY <1>1, <1>3 DEF LatestIs

\* What a worker reads is still so when it writes.
LEMMA CurrentTask ==
  ASSUME TypeOK, HeldStatus, WritesAreCurrent, Current, NEW w \in Worker, TaskStep(w)
  PROVE  Current'
<1> DEFINE r == task[w].run
           row == task[w].record
<1>1. /\ \A s \in Run : rows[s].started \in Nat
      /\ now \in Nat /\ r \in Run \cup {NoRun} /\ row.started \in Nat
      /\ \A p \in Request : api[p].pc \in {"requeue", "replace", "enqueue", "fail"} => api[p].run \in Run
      /\ \A v \in Worker : task[v].pc # "idle" => task[v].run \in Run
      /\ pending \in [Run -> Nat]
      /\ "stall" \notin fault /\ StoreTypeOK
  BY DEF TypeOK, StoreTypeOK, ApiTypeOK, TaskTypeOK, Row, WritesAreCurrent
<1>f. UNCHANGED <<fault, api, pending>>
  BY DEF TaskStep, TaskLatest, ClaimSelect, ClaimUpdate, AppendRun, Operate, Record, EntryFails,
         EntryRecord
<1>2. CASE TaskLatest(w)
  <2>1. UNCHANGED <<rows, now>> /\ task[w].pc = "latest" /\ Undisturbed(row.key)
    BY <1>2 DEF TaskLatest, TaskAt, storeVars
  <2>2. NewAttemptAllowed(row.key) => AllFailed(row.key)
    BY <1>1, FailedLatest DEF NewAttemptAllowed, Current
  <2>3. /\ \A v \in Worker \ {w} : task'[v] = task[v]
        /\ \/ task'[w].pc = "idle"
           \/ task'[w].pc = "select" /\ task'[w].run = r /\ task'[w].record = row
           \/ task'[w].pc = "append" /\ task'[w].record.key = row.key /\ AllFailed(row.key)
    BY <1>2, <2>2, TaskEffects DEF TaskTo
  <2>4. /\ \A p \in Request : InApi(p) => api[p].record.key # row.key
        /\ \A v \in Worker : InTask(v) => task[v].record.key # row.key
    BY <1>1, <2>1 DEF Undisturbed, InApi, InTask
  <2> QED BY <1>1, <1>f, <2>1, <2>3, <2>4
     DEF Current, Stamped, Owned, UnfailedIsLast, OneWindow, ReadsAreCurrent, OneThread,
         ApiKnows, TaskKnows, InApi, InTask, ApiWindow, TaskWindow, Working, AllFailed,
         Agrees, OfKey, Last, Absent
<1> USE DEF Current, Stamped, Owned, UnfailedIsLast, OneWindow, ReadsAreCurrent, OneThread,
            ApiKnows, TaskKnows, InApi, InTask, ApiWindow, TaskWindow, Working, AllFailed,
            Agrees, OfKey, Last, Absent
\* A worker that gives up.
<1>m. ASSUME UNCHANGED <<rows, now>>, TaskTo(w, "idle", NoRun, Blank) PROVE Current'
  BY <1>1, <1>f, <1>m DEF TaskTo
<1>3. CASE ClaimSelect(w)
  <2>1. UNCHANGED <<rows, now>> /\ task[w].pc = "select"
    BY <1>3 DEF ClaimSelect, TaskAt, storeVars
  <2>2. ASSUME NEW s \in LatestOf(row.key), TaskTo(w, "claim", s, row) PROVE Current'
    <3>1. s \in Run /\ ~Absent(s) /\ rows[s].key = row.key
      BY DEF LatestOf, RowsOf
    <3> QED BY <1>1, <1>f, <2>1, <2>2, <3>1 DEF TaskTo
  <2> QED BY <1>3, <1>m, <2>1, <2>2, TaskEffects
<1>4. CASE ClaimUpdate(w)
  <2>1. task[w].pc = "claim"
    BY <1>4 DEF ClaimUpdate, TaskAt
  <2>2. CASE UNCHANGED <<rows, now>> /\ TaskTo(w, "idle", NoRun, Blank)
    BY <1>m, <2>2
  <2>3. CASE /\ r \in Run /\ rows[r].status = "queued" /\ RowTo(r, "running", now + 1)
             /\ now' = now + 1 /\ TaskTo(w, "exec", r, rows'[r])
    <3>1. /\ OfKey(r, row.key) /\ Last(r) /\ InTask(w)
          /\ \A s \in Run : rows'[s].key = rows[s].key
          /\ \A s \in Run : rows'[s].status = "absent" <=> rows[s].status = "absent"
          /\ \A v \in Worker \ {w} : task'[v] = task[v]
      BY <1>1, <2>1, <2>3 DEF TaskTo, RowTo
    <3>2. Stamped' /\ UnfailedIsLast'
      BY <1>1, <2>3, <3>1 DEF RowTo
    <3>3. Owned'
      BY <1>1, <2>3, <3>1 DEF RowTo, TaskTo
    <3>4. OneWindow' /\ OneThread'
      BY <1>f, <2>1, <2>3, <3>1 DEF TaskTo
    <3>5. \A q \in Request : ApiKnows(q)'
      BY <1>1, <1>f, <2>3, <3>1 DEF RowTo
    <3>6. /\ \A v \in Worker : TaskKnows(v)'
          /\ \A s \in Run : pending'[s] # 0 => ~Absent(s)'
      BY <1>1, <1>f, <2>3, <3>1 DEF RowTo, TaskTo
    <3> QED BY <3>2, <3>3, <3>4, <3>5, <3>6
  <2> QED BY <1>4, <2>2, <2>3, TaskEffects
<1>5. CASE AppendRun(w)
  <2>1. task[w].pc = "append"
    BY <1>5 DEF AppendRun, TaskAt
  <2>2. CASE UNCHANGED <<rows, now>> /\ TaskTo(w, "idle", NoRun, Blank)
    BY <1>m, <2>2
  <2>3. ASSUME NEW i \in Run, RowAdded(i, row), row.status = "running", TaskTo(w, "exec", i, rows'[i])
        PROVE  Current'
    <3>a. Stamped' /\ UnfailedIsLast'
      BY <1>1, <1>f, <2>1, <2>3 DEF RowAdded
    <3>b. Owned'
      BY <1>1, <1>f, <2>1, <2>3 DEF RowAdded, TaskTo
    <3>c. OneWindow' /\ OneThread'
      BY <1>1, <1>f, <2>1, <2>3 DEF TaskTo
    <3>d. \A p \in Request : ApiKnows(p)'
      BY <1>1, <1>f, <2>1, <2>3 DEF RowAdded
    <3>e. /\ \A v \in Worker : TaskKnows(v)'
          /\ \A s \in Run : pending'[s] # 0 => ~Absent(s)'
      BY <1>1, <1>f, <2>1, <2>3 DEF RowAdded, TaskTo
    <3> QED BY <3>a, <3>b, <3>c, <3>d, <3>e
  <2> QED BY <1>5, <2>2, <2>3, TaskEffects
<1>6. CASE Operate(w)
  <2>1. UNCHANGED <<rows, now>> /\ task[w].pc = "exec"
    BY <1>6 DEF Operate, TaskAt, storeVars
  <2>2. PICK record \in Row : /\ record.key = row.key /\ record.started = row.started
                              /\ TaskTo(w, "record", r, record)
    BY <1>6, TaskEffects
  <2> QED BY <1>1, <1>f, <2>1, <2>2 DEF TaskTo
<1>7. CASE Record(w)
  <2>1. task[w].pc = "record" /\ Undisturbed(row.key)
    BY <1>7 DEF Record, TaskAt
  <2>2. /\ r \in Run /\ row.status \in {"succeeded", "failed"}
        /\ rows'[r] = row /\ now' = now
        /\ \A s \in Run \ {r} : rows'[s] = rows[s]
        /\ TaskTo(w, "idle", NoRun, Blank)
    BY <1>7, TaskEffects
  <2>3. /\ \A p \in Request : InApi(p) => api[p].record.key # row.key
        /\ \A v \in Worker : InTask(v) => task[v].record.key # row.key
    BY <1>1, <2>1 DEF Undisturbed
  <2>a. Stamped' /\ UnfailedIsLast'
    BY <1>1, <1>f, <2>1, <2>2, <2>3
  <2>b. Owned'
    BY <1>1, <1>f, <2>1, <2>2, <2>3 DEF TaskTo
  <2>c. OneWindow' /\ OneThread'
    BY <1>1, <1>f, <2>1, <2>2, <2>3 DEF TaskTo
  <2>d. \A p \in Request : ApiKnows(p)'
    BY <1>1, <1>f, <2>1, <2>2, <2>3
  <2>e. /\ \A v \in Worker : TaskKnows(v)'
        /\ \A s \in Run : pending'[s] # 0 => ~Absent(s)'
    BY <1>1, <1>f, <2>1, <2>2, <2>3 DEF TaskTo
  <2> QED BY <2>a, <2>b, <2>c, <2>d, <2>e
<1>8. CASE EntryFails(w)
  <2>1. /\ UNCHANGED <<rows, now>> /\ task[w].pc = "latest" /\ r \in Run /\ Undisturbed(row.key)
        /\ "background" \in fault
    BY <1>1, <1>8 DEF EntryFails, TaskAt, storeVars
  <2>2. ASSUME NEW record \in Row, record.key = rows[r].key, record.started = rows[r].started,
               Active(rows[r].status), TaskTo(w, "abandon", r, record)
        PROVE  Current'
    <3>1. /\ \A p \in Request : InApi(p) => api[p].record.key # row.key
          /\ \A v \in Worker : v # w => task[v].pc = "idle"
          /\ rows[r].key = row.key
      BY <1>1, <2>1 DEF Undisturbed
    <3>a. Stamped' /\ UnfailedIsLast'
      BY <2>1
    <3>b. Owned'
      BY <1>1, <2>1, <2>2, <3>1 DEF TaskTo
    <3>c. OneWindow' /\ OneThread'
      BY <1>1, <1>f, <2>1, <2>2, <3>1 DEF TaskTo
    <3>d. \A p \in Request : ApiKnows(p)'
      BY <1>f, <2>1
    <3>e. /\ \A v \in Worker : TaskKnows(v)'
          /\ \A s \in Run : pending'[s] # 0 => ~Absent(s)'
      BY <1>1, <1>f, <2>1, <2>2, <3>1 DEF TaskTo
    <3> QED BY <3>a, <3>b, <3>c, <3>d, <3>e
  <2> QED BY <1>8, <1>m, <2>1, <2>2, TaskEffects
<1>9. CASE EntryRecord(w)
  <2>1. task[w].pc = "abandon" /\ "background" \in fault
    BY <1>9 DEF EntryRecord, TaskAt
  <2>2. /\ r \in Run /\ row.status = "failed"
        /\ rows'[r] = row /\ now' = now
        /\ \A s \in Run \ {r} : rows'[s] = rows[s]
        /\ TaskTo(w, "idle", NoRun, Blank)
    BY <1>9, TaskEffects
  <2>3. /\ \A p \in Request : InApi(p) => api[p].record.key # row.key
        /\ \A v \in Worker : v # w => task[v].pc = "idle"
        /\ rows[r].key = row.key /\ rows[r].status # "absent" /\ rows[r].started = row.started
    BY <1>1, <2>1
  <2>a. Stamped' /\ UnfailedIsLast'
    BY <1>1, <1>f, <2>1, <2>2, <2>3
  <2>b. Owned'
    BY <1>1, <1>f, <2>1, <2>2, <2>3 DEF TaskTo
  <2>c. OneWindow' /\ OneThread'
    BY <1>1, <1>f, <2>1, <2>2, <2>3 DEF TaskTo
  <2>d. \A p \in Request : ApiKnows(p)'
    BY <1>1, <1>f, <2>1, <2>2, <2>3
  <2>e. /\ \A v \in Worker : TaskKnows(v)'
        /\ \A s \in Run : pending'[s] # 0 => ~Absent(s)'
    BY <1>1, <1>f, <2>1, <2>2, <2>3 DEF TaskTo
  <2> QED BY <2>a, <2>b, <2>c, <2>d, <2>e
<1> QED BY <1>2, <1>3, <1>4, <1>5, <1>6, <1>7, <1>8, <1>9 DEF TaskStep

\* Every step keeps reads current.
LEMMA CurrentStep ==
  /\ TypeOK /\ HeldStatus /\ WritesAreCurrent /\ (NothingUnseen => OneToken)
  /\ Current /\ [Next]_vars
  => Current'
<1> SUFFICES ASSUME TypeOK, HeldStatus, WritesAreCurrent, NothingUnseen => OneToken, Current,
                    [Next]_vars
             PROVE  Current'
  OBVIOUS
<1>1. /\ \A s \in Run : rows[s].started \in Nat
      /\ now \in Nat
      /\ \A p \in Request : api[p].pc \in {"requeue", "replace", "enqueue", "fail"} => api[p].run \in Run
      /\ \A v \in Worker : task[v].pc # "idle" => task[v].run \in Run
      /\ pending \in [Run -> Nat]
      /\ "stall" \notin fault /\ StoreTypeOK
  BY DEF TypeOK, StoreTypeOK, ApiTypeOK, TaskTypeOK, Row, WritesAreCurrent
<1>f. fault' = fault
  BY FaultFixed
<1>2. ASSUME NEW q \in Request, NEW k, Undisturbed(k)
      PROVE  /\ \A p \in Request : InApi(p) => api[p].record.key # k
             /\ \A v \in Worker : InTask(v) => task[v].record.key # k
  BY <1>1, <1>2 DEF Undisturbed, InApi, InTask
<1>a. ASSUME NEW r \in Run, r \in LatestOf(rows[r].key), rows[r].status = "failed"
      PROVE  AllFailed(rows[r].key)
  BY <1>1, <1>a, FailedLatest DEF LatestIs, Current
<1>b. ASSUME NEW k, RowsOf(k) = {} PROVE AllFailed(k)
  BY <1>1, <1>b, FailedLatest DEF Current
<1>3. ASSUME NEW q \in Request, NEW k, UNCHANGED <<rows, now, pending, task>>, Undisturbed(k),
             \A p \in Request \ {q} : api'[p] = api[p], api'[q].record.key = k,
             \/ api'[q].pc \in {"insert", "reserve"} /\ AllFailed(k)
             \/ api'[q].pc = "requeue" /\ OfKey(api'[q].run, k)
      PROVE  Current'
  BY <1>1, <1>f, <1>2, <1>3
     DEF Current, Stamped, Owned, UnfailedIsLast, OneWindow, ReadsAreCurrent, OneThread,
         ApiKnows, TaskKnows, InApi, InTask, ApiWindow, TaskWindow, Working, AllFailed,
         Agrees, OfKey, Last, Absent
<1>4. ASSUME NEW q \in Request, NEW k \in Key, Submit(q, k) PROVE Current'
  <2>1. AllFailed(k) /\ Undisturbed(k) /\ UNCHANGED <<rows, now, pending, task>>
    BY <1>4, <1>b DEF Submit, Reservable, storeVars
  <2>2. /\ api'[q].pc = "insert" /\ api'[q].record.key = k
        /\ \A p \in Request \ {q} : api'[p] = api[p]
    BY <1>4, ApiEffects DEF ApiTo
  <2> QED BY <1>3, <2>1, <2>2
<1>5. ASSUME NEW q \in Request, NEW r \in Run, RetryFailed(q, r) PROVE Current'
  <2>1. /\ AllFailed(rows[r].key) /\ Undisturbed(rows[r].key)
        /\ UNCHANGED <<rows, now, pending, task>>
    BY <1>5, <1>a DEF RetryFailed, Retryable, storeVars
  <2>2. ApiTo(q, "reserve", r, rows[r])
    BY <1>5, ProcessEffects DEF RetryFailed
  <2> QED BY <1>3, <2>1, <2>2 DEF ApiTo
<1>6. ASSUME NEW q \in Request, NEW r \in Run, RetryStale(q, r) PROVE Current'
  <2>1. /\ OfKey(r, rows[r].key) /\ Undisturbed(rows[r].key)
        /\ UNCHANGED <<rows, now, pending, task>>
    BY <1>6 DEF RetryStale, storeVars, OfKey
  <2>2. ApiTo(q, "requeue", r, rows[r])
    BY <1>6, ProcessEffects DEF RetryStale
  <2> QED BY <1>3, <2>1, <2>2 DEF ApiTo
<1> USE DEF Current, Stamped, Owned, UnfailedIsLast, OneWindow, ReadsAreCurrent, OneThread,
            ApiKnows, TaskKnows, InApi, InTask, ApiWindow, TaskWindow, Working, AllFailed,
            Agrees, OfKey, Last, Absent
<1>7. ASSUME NEW q \in Request, ApiCrash(q) PROVE Current'
  <2>1. UNCHANGED <<rows, now, pending, task>> /\ ApiTo(q, "done", api[q].run, api[q].record)
    BY <1>7, ProcessEffects DEF ApiCrash, storeVars
  <2> QED BY <1>1, <1>f, <2>1 DEF ApiTo
<1>8. ASSUME NEW w \in Worker, NEW r \in Run, Take(w, r) PROVE Current'
  <2>1. /\ UNCHANGED <<rows, now, api>> /\ task[w].pc = "idle" /\ pending[r] > 0
        /\ pending' = [pending EXCEPT ![r] = @ - 1] /\ ThreadFree
    BY <1>8 DEF Take, TaskAt, storeVars
  <2>2. PICK record \in Row : record.key = rows[r].key /\ TaskTo(w, "latest", r, record)
    BY <1>8, TaskEffects
  <2>3. \A s \in Run : pending'[s] # 0 => pending[s] # 0
    BY <1>1, <2>1
  <2> QED BY <1>1, <1>f, <2>1, <2>2, <2>3 DEF TaskTo, ThreadFree, TaskAt
<1>9. ASSUME NEW w \in Worker, WorkerCrash(w) PROVE Current'
  <2>1. UNCHANGED <<rows, now, pending, api>> /\ TaskTo(w, "idle", NoRun, Blank)
    BY <1>9, ProcessEffects DEF WorkerCrash, storeVars
  <2> QED BY <1>1, <1>f, <2>1 DEF TaskTo
<1>10. CASE Restart
  <2>1. ASSUME NEW r \in Run
        PROVE  /\ rows'[r].key = rows[r].key /\ rows'[r].started = rows[r].started
               /\ rows'[r].status = IF rows[r].status = "running" THEN "failed" ELSE rows[r].status
               /\ pending'[r] = 0
    <3>1. rows'[r] = Abandoned(rows[r]) /\ rows[r] \in Row
      BY <1>10 DEF Restart, TypeOK, StoreTypeOK
    <3>2. /\ Abandoned(rows[r]).key = rows[r].key
          /\ Abandoned(rows[r]).started = rows[r].started
          /\ Abandoned(rows[r]).status =
               IF rows[r].status = "running" THEN "failed" ELSE rows[r].status
      BY <3>1 DEF Abandoned, Row
    <3> QED BY <1>10, <3>1, <3>2 DEF Restart
  <2>2. /\ \A q \in Request : api'[q].pc \in {"idle", "done"}
        /\ \A w \in Worker : task'[w].pc = "idle"
        /\ now' = now
    BY <1>10 DEF Restart, ApiAt, Idle, TypeOK, ApiTypeOK
  <2> QED BY <1>1, <1>f, <2>1, <2>2
<1>11. CASE UNCHANGED vars
  BY <1>11 DEF vars
<1> QED BY <1>4, <1>5, <1>6, <1>7, <1>8, <1>9, <1>10, <1>11, CurrentApi, CurrentTask DEF Next

\* Reads are current in every reachable state, where the environment allows.
LEMMA CurrentAlways == Spec => [](WritesAreCurrent => Current)
<1>1. WritesAreCurrent' = WritesAreCurrent \/ fault' # fault
  BY DEF WritesAreCurrent
<1>2. /\ TypeOK /\ HeldStatus /\ (NothingUnseen => OneToken)
      /\ (WritesAreCurrent => Current) /\ [Next]_vars
      => (WritesAreCurrent => Current)'
  BY <1>1, CurrentStep, FaultFixed
<1> QED BY <1>2, CurrentInit, TypeCorrect, HeldAlways, TokenAlways, PTL DEF Spec

\* Where writes rely on current reads, the row that is queued or running is
\* the latest of its key, the one retry_job and the task runner look at.
THEOREM ActiveRowIsLatest == Spec => []ActiveIsLatest
<1>1. TypeOK /\ (WritesAreCurrent => Current) => ActiveIsLatest
  <2> SUFFICES ASSUME TypeOK, Current, NEW r \in Run, Active(rows[r].status)
               PROVE  r \in LatestOf(rows[r].key)
    BY DEF ActiveIsLatest
  <2>1. Last(r) /\ ~Absent(r) /\ \A s \in Run : rows[s].started \in Nat
    BY DEF Current, UnfailedIsLast, Active, Absent, TypeOK, StoreTypeOK, Row
  <2> QED BY <2>1 DEF LatestOf, RowsOf, Last
<1> QED BY <1>1, CurrentAlways, TypeCorrect, PTL

\* No step rewrites a succeeded row.
LEMMA SucceededKept ==
  ASSUME TypeOK, HeldStatus, WritesAreCurrent, NothingUnseen => OneToken, Current, [Next]_vars,
         NEW r \in Run, rows[r].status = "succeeded"
  PROVE  rows'[r] = rows[r]
<1>1. CASE rows' = rows
  BY <1>1
<1>2. ASSUME NEW q \in Request, ApiStep(q), rows' # rows PROVE rows'[r] = rows[r]
  <2>1. CASE ReserveInsert(q)
    BY <1>2, <2>1, ApiEffects DEF RowAdded, Absent
  <2>2. CASE MarkQueued(q)
    BY <2>2 DEF MarkQueued, MarkPhase, QueuedNow, TypeOK, StoreTypeOK
  <2>3. CASE MarkQueueFailed(q)
    <3>1. rows[api[q].run].status = "queued"
      BY <2>3, FailingIsToken DEF MarkQueueFailed, ApiAt, Agrees
    <3>2. \A s \in Run \ {api[q].run} : rows'[s] = rows[s]
      BY <2>3, ApiEffects
    <3> QED BY <3>1, <3>2
  <2>4. CASE RequeueClaim(q)
    BY <1>2, <2>4, ApiEffects DEF RowTo
  <2>5. CASE RequeueReplace(q)
    <3>1. rows[api[q].run].status = "queued"
      BY <2>5 DEF RequeueReplace, ApiAt, Current, ReadsAreCurrent, ApiKnows, Agrees
    <3>2. \A s \in Run \ {api[q].run} : rows'[s] = rows[s]
      BY <1>2, <2>5, ApiEffects
    <3> QED BY <3>1, <3>2
  <2> QED BY <1>2, <2>1, <2>2, <2>3, <2>4, <2>5
         DEF ApiStep, ReserveRetry, Enqueue, EnqueueRefused, storeVars
<1>3. ASSUME NEW w \in Worker, TaskStep(w), rows' # rows PROVE rows'[r] = rows[r]
  <2>1. CASE ClaimUpdate(w)
    BY <1>3, <2>1, TaskEffects DEF RowTo
  <2>2. CASE AppendRun(w)
    BY <1>3, <2>2, TaskEffects DEF RowAdded, Absent
  <2>3. CASE Record(w)
    <3>1. rows[task[w].run].status = "running"
      BY <2>3 DEF Record, TaskAt, Current, Owned, Working, Agrees
    <3>2. \A s \in Run \ {task[w].run} : rows'[s] = rows[s]
      BY <2>3, TaskEffects
    <3> QED BY <3>1, <3>2
  <2>4. CASE EntryRecord(w)
    <3>1. Active(rows[task[w].run].status)
      BY <2>4 DEF EntryRecord, TaskAt, Current, ReadsAreCurrent, TaskKnows
    <3>2. \A s \in Run \ {task[w].run} : rows'[s] = rows[s]
      BY <2>4, TaskEffects
    <3> QED BY <3>1, <3>2 DEF Active
  <2> QED BY <1>3, <2>1, <2>2, <2>3, <2>4
         DEF TaskStep, TaskLatest, ClaimSelect, Operate, EntryFails, storeVars
<1>4. CASE Restart
  BY <1>4 DEF Restart, Abandoned
<1> QED BY <1>1, <1>2, <1>3, <1>4
       DEF Next, vars, storeVars, Submit, RetryFailed, RetryStale, ApiCrash, Take, WorkerCrash

\* Where writes rely on current reads, no handler, worker or restart ever
\* overwrites a succeeded row: the value it recorded can be replayed.
THEOREM SucceededStays == Spec => SucceededIsFinal
<1>1. /\ TypeOK /\ HeldStatus /\ (NothingUnseen => OneToken) /\ (WritesAreCurrent => Current)
      /\ [Next]_vars
      => [WritesAreCurrent => \A r \in Run : rows[r].status = "succeeded" => rows'[r] = rows[r]]_vars
  BY SucceededKept
<1> QED BY <1>1, TypeCorrect, HeldAlways, TokenAlways, CurrentAlways, PTL
       DEF Spec, SucceededIsFinal

----------------------------------------------------------------------------
(* One effect per key.                                                     *)

\* Row r stands for an import that took effect: it succeeded, or runs with its
\* worker about to record the success or gone.
Effective(r) ==
  \/ rows[r].status = "succeeded"
  \/ /\ rows[r].status = "running"
     /\ \A w \in Worker : Working(w) /\ task[w].run = r =>
          task[w].pc = "record" /\ task[w].record.status = "succeeded"

EffectsTold ==
  \A k \in Key : effects[k] # 0 =>
    effects[k] = 1 /\ \E r \in Run : rows[r].key = k /\ Effective(r)

\* Without a restart no step but a second success ends what makes r effective.
LEMMA EffectiveStays ==
  ASSUME TypeOK, HeldStatus, WritesAreCurrent, NothingUnseen => OneToken, Current, [Next]_vars,
         "background" \notin fault, NEW r \in Run, Effective(r)
  PROVE  rows'[r].key = rows[r].key /\ Effective(r)'
<1>0. StoreTypeOK /\ \A w \in Worker : Working(w) => task[w].run \in Run
  BY DEF TypeOK, TaskTypeOK, Working
<1> USE DEF Effective
<1>1. CASE rows[r].status = "succeeded"
  BY <1>1, SucceededKept
<1>2. CASE /\ rows[r].status = "running"
           /\ \A w \in Worker : Working(w) /\ task[w].run = r =>
                task[w].pc = "record" /\ task[w].record.status = "succeeded"
  <2>1. ASSUME rows'[r].key = rows[r].key, rows'[r].status = "running", task' = task
        PROVE  rows'[r].key = rows[r].key /\ Effective(r)'
    BY <1>2, <2>1 DEF Working
  <2>2. ASSUME NEW q \in Request, ApiStep(q) PROVE rows'[r].key = rows[r].key /\ Effective(r)'
    <3>t. task' = task
      BY <2>2 DEF ApiStep, ReserveRetry, ReserveInsert, Enqueue, EnqueueRefused, MarkQueued,
                  MarkQueueFailed, RequeueClaim, RequeueReplace
    <3>1. CASE ReserveInsert(q)
      <4>1. rows'[r] = rows[r]
        BY <1>2, <3>1, ApiEffects DEF RowAdded, Absent
      <4> QED BY <1>2, <2>1, <3>t, <4>1
    <3>2. CASE MarkQueued(q)
      <4>1. rows'[r].key = rows[r].key /\ rows'[r].status = rows[r].status
        BY <3>2, ApiEffects DEF RowsKept
      <4> QED BY <1>2, <2>1, <3>t, <4>1
    <3>3. CASE MarkQueueFailed(q)
      <4>1. rows[api[q].run].status = "queued"
        BY <3>3, FailingIsToken DEF MarkQueueFailed, ApiAt, Agrees
      <4>2. rows'[r] = rows[r]
        BY <1>2, <3>3, <4>1, ApiEffects
      <4> QED BY <1>2, <2>1, <3>t, <4>2
    <3>4. CASE RequeueClaim(q)
      <4>1. rows'[r] = rows[r]
        BY <1>2, <3>4, ApiEffects DEF RowTo
      <4> QED BY <1>2, <2>1, <3>t, <4>1
    <3>5. CASE RequeueReplace(q)
      <4>1. rows[api[q].run].status = "queued"
        BY <3>5 DEF RequeueReplace, ApiAt, Current, ReadsAreCurrent, ApiKnows, Agrees
      <4>2. rows'[r] = rows[r]
        BY <1>2, <3>5, <4>1, ApiEffects
      <4> QED BY <1>2, <2>1, <3>t, <4>2
    <3>6. CASE ReserveRetry(q) \/ Enqueue(q) \/ EnqueueRefused(q)
      BY <1>2, <2>1, <3>t, <3>6 DEF ReserveRetry, Enqueue, EnqueueRefused, storeVars
    <3> QED BY <2>2, <3>1, <3>2, <3>3, <3>4, <3>5, <3>6 DEF ApiStep
  \* A worker that does not execute row r is nothing to it.
  <2>3. ASSUME NEW w \in Worker, rows'[r] = rows[r], \A v \in Worker \ {w} : task'[v] = task[v],
               task'[w].pc \notin {"exec", "record"} \/ task'[w].run # r
        PROVE  rows'[r].key = rows[r].key /\ Effective(r)'
    BY <1>2, <2>3 DEF Working
  <2>4. ASSUME NEW w \in Worker, TaskStep(w) PROVE rows'[r].key = rows[r].key /\ Effective(r)'
    <3>1. CASE TaskLatest(w) \/ ClaimSelect(w)
      <4>1. rows' = rows
        BY <3>1 DEF TaskLatest, ClaimSelect, storeVars
      <4>2. task'[w].pc \notin {"exec", "record"} /\ \A v \in Worker \ {w} : task'[v] = task[v]
        BY <3>1, TaskEffects DEF TaskTo
      <4> QED BY <2>3, <4>1, <4>2
    <3>2. CASE ClaimUpdate(w)
      <4>1. /\ rows'[r] = rows[r] /\ \A v \in Worker \ {w} : task'[v] = task[v]
            /\ task'[w].pc \notin {"exec", "record"} \/ task'[w].run # r
        BY <1>2, <3>2, TaskEffects DEF RowTo, TaskTo
      <4> QED BY <2>3, <4>1
    <3>3. CASE AppendRun(w)
      <4>1. /\ rows'[r] = rows[r] /\ \A v \in Worker \ {w} : task'[v] = task[v]
            /\ task'[w].pc \notin {"exec", "record"} \/ task'[w].run # r
        BY <1>2, <3>3, TaskEffects DEF RowAdded, TaskTo, Absent
      <4> QED BY <2>3, <4>1
    <3>4. CASE Operate(w)
      <4>1. rows' = rows /\ Working(w) /\ task[w].pc = "exec"
        BY <3>4 DEF Operate, storeVars, TaskAt, Working
      <4>2. task'[w].run = task[w].run /\ \A v \in Worker \ {w} : task'[v] = task[v]
        BY <3>4, TaskEffects DEF TaskTo
      <4> QED BY <1>2, <2>3, <4>1, <4>2
    <3>5. CASE Record(w)
      <4>1. /\ Working(w) /\ task[w].pc = "record" /\ task[w].run \in Run
            /\ rows'[task[w].run] = task[w].record /\ task'[w].pc = "idle"
            /\ \A s \in Run \ {task[w].run} : rows'[s] = rows[s]
            /\ \A v \in Worker \ {w} : task'[v] = task[v]
        BY <3>5, TaskEffects DEF Record, TaskAt, Working, TaskTo
      <4>2. CASE task[w].run # r
        BY <2>3, <4>1, <4>2
      <4>3. CASE task[w].run = r
        <5>1. task[w].record.status = "succeeded" /\ task[w].record.key = rows[r].key
          BY <1>2, <4>1, <4>3 DEF Current, Owned, Agrees
        <5> QED BY <4>1, <4>3, <5>1
      <4> QED BY <4>2, <4>3
    <3>6. CASE EntryFails(w) \/ EntryRecord(w)
      BY <3>6 DEF EntryFails, EntryRecord
    <3> QED BY <2>4, <3>1, <3>2, <3>3, <3>4, <3>5, <3>6 DEF TaskStep
  <2>5. ASSUME NEW w \in Worker, WorkerCrash(w) \/ \E s \in Run : Take(w, s)
        PROVE  rows'[r].key = rows[r].key /\ Effective(r)'
    <3>1. rows' = rows
      BY <2>5 DEF WorkerCrash, Take, storeVars
    <3>2. CASE WorkerCrash(w)
      BY <2>3, <3>1, <3>2, ProcessEffects DEF WorkerCrash, TaskTo
    <3>3. ASSUME NEW s \in Run, Take(w, s)
          PROVE  task'[w].pc \notin {"exec", "record"} /\ \A v \in Worker \ {w} : task'[v] = task[v]
      BY <3>3, TaskEffects DEF TaskTo
    <3> QED BY <2>3, <2>5, <3>1, <3>2, <3>3
  <2>6. CASE Restart
    BY <2>6 DEF Restart
  <2>7. CASE UNCHANGED <<rows, task>>
    BY <1>2, <2>1, <2>7
  <2> QED BY <2>2, <2>4, <2>5, <2>6, <2>7
         DEF Next, vars, storeVars, Submit, RetryFailed, RetryStale, ApiCrash
<1> QED BY <1>1, <1>2

\* Every step leaves an effect with a row that tells of it.
LEMMA EffectsStep ==
  ASSUME TypeOK, HeldStatus, WritesAreCurrent, NothingUnseen => OneToken, Current, [Next]_vars,
         "background" \notin fault, EffectsTold
  PROVE  EffectsTold'
<1>1. CASE effects' = effects
  BY <1>1, EffectiveStays DEF EffectsTold
<1>2. ASSUME NEW w \in Worker, Operate(w), effects' # effects PROVE EffectsTold'
  <2>0. PICK r \in Run : r = task[w].run
    BY <1>2 DEF Operate, TaskAt, TypeOK, TaskTypeOK
  <2> DEFINE k == task[w].record.key
  <2>1. /\ Working(w) /\ task[w].pc = "exec" /\ rows' = rows
        /\ \A s \in Run : rows[s].started \in Nat
        /\ effects \in [Key -> Nat]
    BY <1>2 DEF Operate, TaskAt, Working, storeVars, TypeOK, TaskTypeOK, StoreTypeOK, Row
  <2>2. PICK record \in Row : /\ record.key = k /\ record.status = "succeeded"
                              /\ effects' = [effects EXCEPT ![k] = @ + 1]
                              /\ TaskTo(w, "record", r, record)
    BY <1>2, <2>0, TaskEffects
  <2>3. rows[r].status = "running" /\ rows[r].key = k /\ Last(r)
    BY <2>0, <2>1 DEF Current, Owned, Agrees, UnfailedIsLast
  \* The key had no effect yet: an effective row of it would be this one.
  <2>4. ASSUME k \in Key PROVE effects[k] = 0
    <3> SUFFICES ASSUME NEW s \in Run, rows[s].key = k, Effective(s) PROVE FALSE
      BY <2>4 DEF EffectsTold
    <3>1. rows[s].status \in {"succeeded", "running"} /\ Last(s)
      BY DEF Effective, Current, UnfailedIsLast
    <3>2. s = r
      BY <2>1, <2>3, <3>1 DEF Last, Absent
    <3> QED BY <2>0, <2>1, <2>3, <3>2 DEF Effective
  <2>5. Effective(r)'
    <3>1. \A v \in Worker : Working(v)' /\ task'[v].run = r => v = w
      BY <2>0, <2>1, <2>2 DEF Working, TaskTo, Current, Owned
    <3> QED BY <2>1, <2>2, <2>3, <3>1 DEF Effective, TaskTo
  <2>6. \A j \in Key : effects'[j] = IF j = k THEN effects[j] + 1 ELSE effects[j]
    BY <2>1, <2>2
  <2>7. ASSUME NEW j \in Key, effects'[j] # 0
        PROVE  effects'[j] = 1 /\ \E s \in Run : rows'[s].key = j /\ Effective(s)'
    <3>1. CASE j = k
      <4>1. effects'[j] = 1
        BY <2>4, <2>6, <3>1
      <4> QED BY <2>1, <2>3, <2>5, <3>1, <4>1
    <3>2. CASE j # k
      <4>1. effects'[j] = effects[j]
        BY <2>6, <3>2
      <4>2. PICK s \in Run : rows[s].key = j /\ Effective(s)
        BY <2>7, <4>1 DEF EffectsTold
      <4>3. effects[j] = 1
        BY <2>7, <4>1 DEF EffectsTold
      <4> QED BY <4>1, <4>2, <4>3, EffectiveStays
    <3> QED BY <3>1, <3>2
  <2> QED BY <2>7 DEF EffectsTold
<1> QED BY <1>1, <1>2
       DEF Next, vars, Submit, RetryFailed, RetryStale, ApiStep, ReserveRetry, ReserveInsert,
           Enqueue, EnqueueRefused, MarkQueued, MarkQueueFailed, RequeueClaim, RequeueReplace,
           ApiCrash, Take, TaskStep, TaskLatest, ClaimSelect, ClaimUpdate, AppendRun,
           Record, EntryFails, EntryRecord, WorkerCrash, Restart

Reliable == fault \subseteq {"outage", "crash"}

\* With refusals and crashes only, messages are seen and reads current.
LEMMA ReliableIsCurrent ==
  Reliable => WritesAreCurrent /\ NothingUnseen /\ "background" \notin fault
BY DEF Reliable, WritesAreCurrent, NothingUnseen

\* Over all attempts, requests, messages and crashes the import of a key takes
\* effect at most once, while Redis may refuse and processes die but nothing
\* stalls or is delivered late.
THEOREM EffectIsSingle == Spec => []OneEffectPerKey
<1> DEFINE Kept == Reliable => EffectsTold
<1>1. Init => Kept
  BY DEF Init, EffectsTold
<1>2. /\ TypeOK /\ HeldStatus /\ (NothingUnseen => OneToken) /\ (WritesAreCurrent => Current)
      /\ Kept /\ [Next]_vars
      => Kept'
  <2>1. Reliable' = Reliable \/ fault' # fault
    BY DEF Reliable
  <2> QED BY <2>1, EffectsStep, FaultFixed, ReliableIsCurrent
<1>3. TypeOK /\ Kept => OneEffectPerKey
  <2> SUFFICES ASSUME TypeOK, EffectsTold, NEW k \in Key PROVE effects[k] <= 1
    BY DEF OneEffectPerKey, Reliable
  <2>1. effects[k] \in Nat
    BY DEF TypeOK
  <2> QED BY <2>1 DEF EffectsTold
<1> QED BY <1>1, <1>2, <1>3, TypeCorrect, HeldAlways, TokenAlways, CurrentAlways, PTL DEF Spec

----------------------------------------------------------------------------
(* New attempts follow retryable failures.                                 *)

\* Nothing the lifecycle reads of the rows of key k changes.
KeyKept(k) ==
  \A s \in Run : OfKey(s, k) \/ (rows'[s].status # "absent" /\ rows'[s].key = k) =>
    /\ rows'[s].status = rows[s].status /\ rows'[s].key = rows[s].key
    /\ rows'[s].started = rows[s].started /\ rows'[s].error = rows[s].error

\* While a handler stands between the read and the insert of a reservation,
\* no other process changes a row of its key.
LEMMA WindowIsQuiet ==
  ASSUME TypeOK, HeldStatus, WritesAreCurrent, NothingUnseen => OneToken, Current, [Next]_vars,
         "background" \notin fault, NEW q \in Request, InApi(q), ~ReserveInsert(q),
         api[q].pc \in {"reserve", "insert"}
  PROVE  KeyKept(api[q].record.key)
<1> DEFINE k == api[q].record.key
<1>1. CASE rows' = rows
  BY <1>1 DEF KeyKept, OfKey, Absent
\* A write to one row of another key.
<1>2. ASSUME NEW r \in Run, \A s \in Run \ {r} : rows'[s] = rows[s],
             ~OfKey(r, k), rows'[r].key # k
      PROVE  KeyKept(k)
  BY <1>2 DEF KeyKept, OfKey, Absent
<1>3. \A p \in Request : InApi(p) /\ p # q => api[p].record.key # k
  BY DEF Current, OneWindow
<1>4. \A w \in Worker : InTask(w) => task[w].record.key # k
  BY DEF Current, OneWindow
<1>5. \A j : Undisturbed(j) => j # k
  BY DEF Undisturbed, InApi, WritesAreCurrent
<1>6. ASSUME NEW p \in Request, ApiStep(p), rows' # rows PROVE KeyKept(k)
  <2> DEFINE r == api[p].run
  <2>1. CASE ReserveInsert(p)
    <3>1. api[p].record.key # k
      BY <1>3, <2>1 DEF ReserveInsert, ApiAt, InApi, ApiWindow
    <3>2. PICK i \in Run : RowAdded(i, api[p].record)
      BY <1>6, <2>1, ApiEffects
    <3> QED BY <1>2, <3>1, <3>2 DEF RowAdded, OfKey
  <2>2. CASE MarkQueued(p)
    <3>1. RowsKept
      BY <2>2, ApiEffects
    <3> QED BY <3>1 DEF RowsKept, KeyKept
  <2>3. CASE MarkQueueFailed(p)
    <3>1. api[p].record.key # k /\ rows[r].key = api[p].record.key
      BY <1>5, <2>3, FailingIsToken DEF MarkQueueFailed, ApiAt, Agrees
    <3>2. /\ r \in Run /\ rows'[r].key = api[p].record.key
          /\ \A s \in Run \ {r} : rows'[s] = rows[s]
      BY <2>3, ApiEffects
    <3> QED BY <1>2, <3>1, <3>2 DEF OfKey
  <2>4. CASE RequeueClaim(p)
    <3>1. api[p].record.key # k /\ rows[r].key = api[p].record.key
      BY <1>3, <2>4 DEF RequeueClaim, ApiAt, InApi, ApiWindow, Current, ReadsAreCurrent, ApiKnows, OfKey
    <3>2. r \in Run /\ rows'[r].key = rows[r].key /\ \A s \in Run \ {r} : rows'[s] = rows[s]
      BY <1>6, <2>4, ApiEffects DEF RowTo
    <3> QED BY <1>2, <3>1, <3>2 DEF OfKey
  <2>5. CASE RequeueReplace(p)
    <3>1. api[p].record.key # k /\ rows[r].key = api[p].record.key
      BY <1>3, <2>5 DEF RequeueReplace, ApiAt, InApi, ApiWindow, Current, ReadsAreCurrent, ApiKnows, OfKey
    <3>2. /\ r \in Run /\ rows'[r] = api[p].record
          /\ \A s \in Run \ {r} : rows'[s] = rows[s]
      BY <1>6, <2>5, ApiEffects
    <3> QED BY <1>2, <3>1, <3>2 DEF OfKey
  <2> QED BY <1>6, <2>1, <2>2, <2>3, <2>4, <2>5
         DEF ApiStep, ReserveRetry, Enqueue, EnqueueRefused, storeVars
<1>7. ASSUME NEW w \in Worker, TaskStep(w), rows' # rows PROVE KeyKept(k)
  <2> DEFINE r == task[w].run
  <2>1. CASE ClaimUpdate(w)
    <3>1. task[w].record.key # k /\ rows[r].key = task[w].record.key
      BY <1>4, <2>1 DEF ClaimUpdate, TaskAt, InTask, TaskWindow, Current, ReadsAreCurrent, TaskKnows, OfKey
    <3>2. r \in Run /\ rows'[r].key = rows[r].key /\ \A s \in Run \ {r} : rows'[s] = rows[s]
      BY <1>7, <2>1, TaskEffects DEF RowTo
    <3> QED BY <1>2, <3>1, <3>2 DEF OfKey
  <2>2. CASE AppendRun(w)
    <3>1. task[w].record.key # k
      BY <1>4, <2>2 DEF AppendRun, TaskAt, InTask, TaskWindow
    <3>2. PICK i \in Run : RowAdded(i, task[w].record)
      BY <1>7, <2>2, TaskEffects
    <3> QED BY <1>2, <3>1, <3>2 DEF RowAdded, OfKey
  <2>3. CASE Record(w)
    <3>1. task[w].record.key # k /\ rows[r].key = task[w].record.key
      BY <1>5, <2>3 DEF Record, TaskAt, Current, Owned, Working, Agrees
    <3>2. /\ r \in Run /\ rows'[r] = task[w].record
          /\ \A s \in Run \ {r} : rows'[s] = rows[s]
      BY <2>3, TaskEffects
    <3> QED BY <1>2, <3>1, <3>2 DEF OfKey
  <2>4. CASE EntryFails(w) \/ EntryRecord(w)
    BY <2>4 DEF EntryFails, EntryRecord
  <2> QED BY <1>7, <2>1, <2>2, <2>3, <2>4
         DEF TaskStep, TaskLatest, ClaimSelect, Operate, storeVars
<1>8. CASE Restart
  BY <1>8 DEF Restart
<1> QED BY <1>1, <1>6, <1>7, <1>8
       DEF Next, vars, storeVars, Submit, RetryFailed, RetryStale, ApiCrash, Take, WorkerCrash

\* A latest row of key k failed in a retryable way.
RetryableLatest(k) ==
  \E s \in LatestOf(k) : rows[s].status = "failed" /\ rows[s].error = "dependency"

\* A handler reserves a key without rows, or one whose latest row failed in a
\* retryable way.
ReservesRetryable ==
  \A q \in Request : \A k \in Key \cup {NoKey} :
    api[q].pc \in {"reserve", "insert"} /\ api[q].record.key = k =>
      RowsOf(k) = {} \/ RetryableLatest(k)

\* A key none of whose rows changed still ends in a retryable failure.
LEMMA KeptIsRetryable ==
  ASSUME NEW k, KeyKept(k), RowsOf(k) = {} \/ RetryableLatest(k)
  PROVE  RowsOf(k)' = {} \/ RetryableLatest(k)'
<1>1. RowsOf(k)' = RowsOf(k)
  BY DEF KeyKept, OfKey, RowsOf, Absent
<1>2. \A s \in RowsOf(k) : /\ rows'[s].started = rows[s].started
                           /\ rows'[s].status = rows[s].status /\ rows'[s].error = rows[s].error
  BY DEF KeyKept, OfKey, RowsOf
<1>3. LatestOf(k)' = LatestOf(k) /\ LatestOf(k) \subseteq RowsOf(k)
  BY <1>1, <1>2 DEF LatestOf
<1> QED BY <1>1, <1>2, <1>3 DEF RetryableLatest

\* Every step keeps a handler that is about to retry on a retryable row.
LEMMA ReservesStep ==
  ASSUME TypeOK, HeldStatus, WritesAreCurrent, NothingUnseen => OneToken, Current, [Next]_vars,
         "background" \notin fault, ReservesRetryable
  PROVE  ReservesRetryable'
<1> SUFFICES ASSUME NEW q \in Request, NEW k \in Key \cup {NoKey},
                    api'[q].pc \in {"reserve", "insert"}, api'[q].record.key = k
             PROVE  RowsOf(k)' = {} \/ RetryableLatest(k)'
  BY DEF ReservesRetryable
<1>1. CASE /\ api[q].pc \in {"reserve", "insert"} /\ ~ReserveInsert(q)
           /\ api'[q].record.key = api[q].record.key
  <2>1. KeyKept(k)
    BY <1>1, WindowIsQuiet DEF InApi, ApiWindow
  <2> QED BY <1>1, <2>1, KeptIsRetryable DEF ReservesRetryable
<1>2. ASSUME NEW j \in Key, Submit(q, j) PROVE RowsOf(k)' = {}
  <2>1. RowsOf(j) = {} /\ rows' = rows
    BY <1>2 DEF Submit, Reservable, storeVars
  <2>2. j = k
    BY <1>2, ApiEffects DEF ApiTo
  <2> QED BY <2>1, <2>2 DEF RowsOf, Absent
<1>3. ASSUME NEW r \in Run, RetryFailed(q, r) PROVE RetryableLatest(k)'
  <2>1. r \in LatestOf(rows[r].key) /\ rows[r].status = "failed" /\ rows[r].error = "dependency"
        /\ rows' = rows
    BY <1>3 DEF RetryFailed, Retryable, storeVars
  <2>2. rows[r].key = k
    BY <1>3, ProcessEffects DEF RetryFailed, ApiTo
  <2> QED BY <2>1, <2>2 DEF RetryableLatest, LatestOf, RowsOf, Absent
<1>4. ASSUME NEW r \in Run, RetryStale(q, r) PROVE FALSE
  BY <1>4, ProcessEffects DEF RetryStale, ApiTo
<1>5. ASSUME ApiStep(q)
      PROVE  /\ api[q].pc \in {"reserve", "insert"} /\ ~ReserveInsert(q)
             /\ api'[q].record.key = api[q].record.key
  <2>1. CASE ReserveRetry(q)
    <3>1. api[q].pc = "reserve" /\ ~ReserveInsert(q)
      BY <2>1 DEF ReserveRetry, ReserveInsert, ApiAt
    <3> QED BY <2>1, <3>1, ApiEffects DEF ApiTo
  <2>2. CASE ReserveInsert(q)
    BY <2>2, ApiEffects DEF ApiTo
  <2>3. CASE Enqueue(q) \/ EnqueueRefused(q)
    BY <2>3, ProcessEffects DEF Enqueue, EnqueueRefused, ApiTo
  <2>4. CASE MarkQueued(q) \/ MarkQueueFailed(q)
    BY <2>4, ApiEffects DEF ApiTo
  <2>5. CASE RequeueClaim(q) \/ RequeueReplace(q)
    BY <2>5, ApiEffects DEF ApiTo
  <2> QED BY <1>5, <2>1, <2>2, <2>3, <2>4, <2>5 DEF ApiStep
<1>6. ASSUME ApiCrash(q) PROVE FALSE
  BY <1>6, ProcessEffects DEF ApiCrash, ApiTo
\* Every other step is of another process.
<1>7. CASE api'[q] = api[q]
  <2>1. ~ReserveInsert(q)
    <3> SUFFICES ASSUME ReserveInsert(q) PROVE FALSE
      OBVIOUS
    <3> QED BY <1>7, ApiEffects DEF ApiTo
  <2> QED BY <1>1, <1>7, <2>1
<1>8. ASSUME NEW p \in Request, p # q,
             \/ \E j \in Key : Submit(p, j)
             \/ \E r \in Run : RetryFailed(p, r) \/ RetryStale(p, r)
             \/ ApiStep(p) \/ ApiCrash(p)
      PROVE  api'[q] = api[q]
  <2>1. ASSUME ApiStep(p) PROVE api'[q] = api[q]
    <3>1. CASE ReserveRetry(p) \/ ReserveInsert(p) \/ MarkQueued(p)
      BY <1>8, <3>1, ApiEffects DEF ApiTo
    <3>2. CASE MarkQueueFailed(p) \/ RequeueClaim(p) \/ RequeueReplace(p)
      BY <1>8, <3>2, ApiEffects DEF ApiTo
    <3>3. CASE Enqueue(p) \/ EnqueueRefused(p)
      BY <1>8, <3>3, ProcessEffects DEF Enqueue, EnqueueRefused, ApiTo
    <3> QED BY <2>1, <3>1, <3>2, <3>3 DEF ApiStep
  <2>2. ASSUME \/ \E j \in Key : Submit(p, j)
               \/ \E r \in Run : RetryFailed(p, r) \/ RetryStale(p, r)
               \/ ApiCrash(p)
        PROVE  api'[q] = api[q]
    BY <1>8, <2>2, ProcessEffects DEF Submit, RetryFailed, RetryStale, ApiCrash, ApiTo
  <2> QED BY <1>8, <2>1, <2>2
<1>9. ASSUME NEW w \in Worker, TaskStep(w) \/ WorkerCrash(w) \/ \E r \in Run : Take(w, r)
      PROVE  api'[q] = api[q]
  BY <1>9 DEF TaskStep, TaskLatest, ClaimSelect, ClaimUpdate, AppendRun, Operate, Record,
              EntryFails, EntryRecord, WorkerCrash, Take
<1>10. ~Restart
  BY DEF Restart
<1> QED BY <1>1, <1>2, <1>3, <1>4, <1>5, <1>6, <1>7, <1>8, <1>9, <1>10 DEF Next, vars

\* A row that appears beside others of its key follows a retryable failure.
LEMMA NewRowFollows ==
  ASSUME TypeOK, HeldStatus, NothingUnseen, OneToken, ReservesRetryable, [Next]_vars,
         "background" \notin fault, NEW r \in Run, Absent(r), rows'[r].status # "absent",
         RowsOf(rows'[r].key) # {}
  PROVE  RetryableLatest(rows'[r].key)
<1>1. ASSUME NEW q \in Request, ReserveInsert(q) PROVE RetryableLatest(rows'[r].key)
  <2>1. PICK i \in Run : RowAdded(i, api[q].record)
    BY <1>1, ApiEffects DEF Absent
  <2>2. i = r /\ rows'[r].key = api[q].record.key
    BY <2>1 DEF RowAdded, Absent
  <2>3. api[q].pc = "insert" /\ api[q].record.key \in Key \cup {NoKey}
    BY <1>1 DEF ReserveInsert, ApiAt, TypeOK, ApiTypeOK, Row
  <2> QED BY <2>2, <2>3 DEF ReservesRetryable
<1>2. ASSUME NEW q \in Request, ApiStep(q), ~ReserveInsert(q) PROVE FALSE
  <2>1. CASE MarkQueued(q)
    BY <2>1, ApiEffects DEF RowsKept, Absent
  <2>2. CASE MarkQueueFailed(q)
    <3>1. rows[api[q].run].status = "queued"
      BY <2>2 DEF MarkQueueFailed, ApiAt, OneToken, SendersHold, Sending, Agrees
    <3> QED BY <2>2, <3>1, ApiEffects DEF Absent
  <2>3. CASE RequeueClaim(q)
    BY <2>3, ApiEffects DEF RowTo, Absent
  <2>4. CASE RequeueReplace(q)
    <3>1. rows[api[q].run].status = "queued"
      BY <2>4 DEF RequeueReplace, ApiAt, OneToken, SendersHold, Sending, Agrees
    <3> QED BY <2>4, <3>1, ApiEffects DEF Absent
  <2> QED BY <1>2, <2>1, <2>2, <2>3, <2>4
         DEF ApiStep, ReserveRetry, Enqueue, EnqueueRefused, storeVars, Absent
<1>3. ASSUME NEW w \in Worker, TaskStep(w) PROVE FALSE
  <2>1. CASE ClaimUpdate(w)
    BY <2>1, TaskEffects DEF RowTo, Absent
  <2>2. CASE AppendRun(w)
    BY <2>2 DEF AppendRun, TaskAt, OneToken, NoAppend
  <2>3. CASE Record(w)
    <3>1. rows[task[w].run].status = "running"
      BY <2>3 DEF Record, TaskAt, OneToken, Owned, Working, Agrees
    <3> QED BY <2>3, <3>1, TaskEffects DEF Absent
  <2>4. CASE EntryFails(w) \/ EntryRecord(w)
    BY <2>4 DEF EntryFails, EntryRecord
  <2> QED BY <1>3, <2>1, <2>2, <2>3, <2>4
         DEF TaskStep, TaskLatest, ClaimSelect, Operate, storeVars, Absent
<1>4. ~Restart /\ rows' # rows
  BY DEF Restart, Absent
<1> QED BY <1>1, <1>2, <1>3, <1>4
       DEF Next, vars, storeVars, Submit, RetryFailed, RetryStale, ApiCrash, Take, WorkerCrash

\* A second attempt row of a key appears only on top of a latest row that
\* failed in a retryable way.
THEOREM AttemptsFollowFailures == Spec => AttemptFollowsRetryable
<1> DEFINE Kept == Reliable => ReservesRetryable
<1>1. Init => Kept
  BY DEF Init, Idle, ReservesRetryable
<1>2. /\ TypeOK /\ HeldStatus /\ (NothingUnseen => OneToken) /\ (WritesAreCurrent => Current)
      /\ Kept /\ [Next]_vars
      => Kept'
  <2>1. Reliable' = Reliable \/ fault' # fault
    BY DEF Reliable
  <2> QED BY <2>1, ReservesStep, FaultFixed, ReliableIsCurrent
<1>3. /\ TypeOK /\ HeldStatus /\ (NothingUnseen => OneToken) /\ Kept /\ [Next]_vars
      => [fault \subseteq {"outage", "crash"} =>
            \A r \in Run :
              Absent(r) /\ rows'[r].status # "absent" /\ RowsOf(rows'[r].key) # {}
                => \E s \in LatestOf(rows'[r].key) :
                     rows[s].status = "failed" /\ rows[s].error = "dependency"]_vars
  BY NewRowFollows, ReliableIsCurrent DEF Reliable, RetryableLatest
<1> QED BY <1>1, <1>2, <1>3, TypeCorrect, HeldAlways, TokenAlways, CurrentAlways, PTL
       DEF Spec, AttemptFollowsRetryable
============================================================================
