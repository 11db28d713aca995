---------------------------- MODULE BacktestRuns ----------------------------
(***************************************************************************)
(* The life of a durable backtest run (infrastructure/repositories/        *)
(* research.py): create_run binds it to the inputs of the moment,          *)
(* execute_run verifies that binding, claims the run, replays it outside   *)
(* any transaction and stores the outcome.                                 *)
(*                                                                         *)
(* A version stands for everything the snapshot hashes tell apart: batches,*)
(* status and industry history, security master, trading calendar, cost    *)
(* and rule configuration, strategy implementation.  Transactions are READ *)
(* COMMITTED and take no row lock; an ORM update writes only the columns   *)
(* whose value differs from the one loaded.  The environment is fault,     *)
(* fixed from the start:                                                   *)
(*   "overlap"  two requests execute one run at the same time              *)
(*   "import"   an import changes the inputs while a request is running    *)
(*   "crash"    the process dies while it is executing a run, or the       *)
(*              database fails one of its transactions                     *)
(***************************************************************************)
EXTENDS Naturals

CONSTANTS
  Run,       \* run numbers
  Request,   \* handler threads of POST /backtests/{run_id}/execute
  Version,   \* contents the input tables can have
  NoVersion, \* a run that is not bound, or holds no result
  Environments \* the environments considered, each a set of faults

ASSUME RunAssumption == Run # {}
ASSUME VersionAssumption == NoVersion \notin Version
ASSUME FaultAssumption == Environments \subseteq SUBSET {"overlap", "import", "crash"}

VARIABLES
  inputs,  \* the input tables: their content, and whether it may be used
  runs,    \* backtest_run
  stages,  \* run_stage: status per stage code, "none" without a row
  job,     \* per request: where execute_run stands and what it has read
  fault    \* what the environment may do in this behaviour

runsVars == <<inputs, runs, stages, job, fault>>

Status == {"absent", "QUEUED", "RUNNING", "SUCCEEDED", "FAILED", "UNAVAILABLE"}
Stage == {"data_quality", "replay", "metrics"}
StageStatus == {"none", "RUNNING", "SUCCEEDED", "FAILED", "UNAVAILABLE"}
Pc == {"idle", "verify", "load", "claim", "refuse", "compute", "succeed", "fail"}

\* bound: config_snapshot; result: the version the stored portfolio
\* snapshots, series and metrics were computed from.
RunRow == [status : Status, bound : Version \cup {NoVersion}, usable : BOOLEAN,
           result : Version \cup {NoVersion}]

Job == [pc : Pc, run : Run, loaded : Status, rows : SUBSET Stage,
        data : Version \cup {NoVersion}]

Idle == [pc |-> "idle", run |-> CHOOSE r \in Run : TRUE, loaded |-> "absent",
         rows |-> {}, data |-> NoVersion]

RunsInit ==
  /\ inputs \in [version : Version, ready : BOOLEAN]
  /\ runs = [r \in Run |-> [status |-> "absent", bound |-> NoVersion,
                            usable |-> FALSE, result |-> NoVersion]]
  /\ stages = [r \in Run |-> [s \in Stage |-> "none"]]
  /\ job = [q \in Request |-> Idle]
  /\ fault \in Environments

InFlight(q) == job[q].pc # "idle"
Goto(q, pc) == job' = [job EXCEPT ![q] = [@ EXCEPT !.pc = pc]]
\* The request is answered; its thread may take another one.
End(q) == job' = [job EXCEPT ![q] = Idle]
RowsOf(r) == {s \in Stage : stages[r][s] # "none"}

----------------------------------------------------------------------------
\* Imports, quality decisions and configuration changes (import_provider_batch
\* rewrites the calendar and the security master, set_batch_quality and
\* submit_strategy the statuses).
ChangeInputs ==
  /\ "import" \in fault \/ \A q \in Request : ~InFlight(q)
  /\ inputs' \in [version : Version, ready : BOOLEAN]
  /\ UNCHANGED <<runs, stages, job, fault>>

\* validate_backtest and create_run: refused unless the inputs may be used,
\* bound to what they hold.
CreateRun(r) ==
  /\ runs[r].status = "absent"
  /\ inputs.ready
  /\ runs' = [runs EXCEPT ![r] = [@ EXCEPT !.status = "QUEUED", !.bound = inputs.version]]
  /\ UNCHANGED <<inputs, stages, job, fault>>

----------------------------------------------------------------------------
(* execute_run                                                             *)

\* A SUCCEEDED run is returned as it is and a RUNNING one is a conflict.
ExecutableAlways(r) == runs[r].status # "absent"
Executable(r) == runs[r].status \in {"QUEUED", "FAILED", "UNAVAILABLE"}

SelectRun(q, r) ==
  /\ job[q].pc = "idle"
  /\ "overlap" \in fault \/ \A p \in Request : InFlight(p) => job[p].run # r
  /\ Executable(r)
  /\ job' = [job EXCEPT ![q] =
       [@ EXCEPT !.pc = "verify", !.run = r, !.loaded = runs[r].status, !.rows = RowsOf(r)]]
  /\ UNCHANGED <<inputs, runs, stages, fault>>

\* Prerequisites, then the hashes of the current inputs against the
\* snapshot's.
BoundAlways(r) == TRUE
StillBound(r) == inputs.version = runs[r].bound

Verify(q) ==
  /\ job[q].pc = "verify"
  /\ Goto(q, IF inputs.ready /\ StillBound(job[q].run) THEN "load" ELSE "refuse")
  /\ UNCHANGED <<inputs, runs, stages, fault>>

\* The bars, the calendar, status and industry rows the replay will use.
\* They may show an invalid cutoff, no bars, or days without a benchmark.
Load(q) ==
  /\ job[q].pc = "load"
  /\ \E pc \in {"claim", "refuse"} :
       job' = [job EXCEPT ![q] = [@ EXCEPT !.pc = pc, !.data = inputs.version]]
  /\ UNCHANGED <<inputs, runs, stages, fault>>

\* _set_stage inserts a row it does not find.  A row that another request
\* inserted since this transaction began is found, or the insert fails.
StageMayClash(q, codes) == (RowsOf(job[q].run) \ job[q].rows) \cap codes # {}
Rollback(q, codes) ==
  /\ StageMayClash(q, codes)
  /\ End(q)
  /\ UNCHANGED <<inputs, runs, stages, fault>>

SetStages(r, new) ==
  stages' = [stages EXCEPT ![r] = [s \in Stage |-> IF s \in DOMAIN new THEN new[s] ELSE @[s]]]

\* The status column is written only if it differs from the loaded one;
\* result_usable was loaded FALSE and stays as it is.
Written(q, status) ==
  IF job[q].loaded = status THEN runs[job[q].run].status ELSE status

Refuse(q) ==
  LET r == job[q].run IN
  /\ job[q].pc = "refuse"
  /\ \/ /\ runs' = [runs EXCEPT ![r] = [@ EXCEPT !.status = Written(q, "UNAVAILABLE")]]
        /\ SetStages(r, [data_quality |-> "UNAVAILABLE"])
        /\ End(q)
        /\ UNCHANGED <<inputs, fault>>
     \/ Rollback(q, {"data_quality"})

\* The snapshot lacks its parameters or its batches: StateConflictError before
\* anything is written.
Incomplete(q) ==
  /\ job[q].pc = "claim"
  /\ End(q)
  /\ UNCHANGED <<inputs, runs, stages, fault>>

Claim(q) ==
  LET r == job[q].run IN
  /\ job[q].pc = "claim"
  /\ \/ /\ runs' = [runs EXCEPT ![r] = [@ EXCEPT !.status = Written(q, "RUNNING")]]
        /\ SetStages(r, [data_quality |-> "SUCCEEDED", replay |-> "RUNNING"])
        /\ Goto(q, "compute")
        /\ UNCHANGED <<inputs, fault>>
     \/ Rollback(q, {"data_quality", "replay"})

\* StatefulBacktestRunner.run: a result or an exception.
Compute(q) ==
  /\ job[q].pc = "compute"
  /\ \E pc \in {"succeed", "fail"} : Goto(q, pc)
  /\ UNCHANGED <<inputs, runs, stages, fault>>

\* UNAVAILABLE after a BenchmarkUnavailableError, FAILED after any other.
StoreFailureOnly(q, outcome) == stages' = stages
StoreFailure(q, outcome) == SetStages(job[q].run, [replay |-> outcome])

Fail(q) ==
  /\ job[q].pc = "fail"
  /\ \E outcome \in {"UNAVAILABLE", "FAILED"} :
       /\ runs' = [runs EXCEPT ![job[q].run] = [@ EXCEPT !.status = outcome, !.usable = FALSE]]
       /\ StoreFailure(q, outcome)
  /\ End(q)
  /\ UNCHANGED <<inputs, fault>>

\* One transaction for status, stages, snapshots, series and metrics.  The
\* portfolio snapshots are unique per run and day: a second result is an
\* IntegrityError that nothing catches.
ResultStored(r) == runs[r].result # NoVersion

Succeed(q) ==
  LET r == job[q].run IN
  /\ job[q].pc = "succeed"
  /\ \/ /\ ~ResultStored(r)
        /\ \E available \in BOOLEAN :
             runs' = [runs EXCEPT ![r] =
               [@ EXCEPT !.status = "SUCCEEDED", !.usable = available, !.result = job[q].data]]
        /\ SetStages(r, [replay |-> "SUCCEEDED", metrics |-> "SUCCEEDED"])
     \/ ResultStored(r) /\ UNCHANGED <<runs, stages>>
  /\ End(q)
  /\ UNCHANGED <<inputs, fault>>

\* The process dies, or a transaction fails for a reason of the database: it
\* is rolled back and nothing catches the error.  After Claim either leaves the
\* run RUNNING.
Crash(q) ==
  /\ "crash" \in fault
  /\ InFlight(q)
  /\ End(q)
  /\ UNCHANGED <<inputs, runs, stages, fault>>

ExecuteStep(q) ==
  \/ Verify(q) \/ Load(q) \/ Refuse(q) \/ Incomplete(q) \/ Claim(q)
  \/ Compute(q) \/ Fail(q) \/ Succeed(q)

RunsNext ==
  \/ ChangeInputs
  \/ \E r \in Run : CreateRun(r)
  \/ \E q \in Request :
       \/ \E r \in Run : SelectRun(q, r)
       \/ ExecuteStep(q)
       \/ Crash(q)

RunsSpec == RunsInit /\ [][RunsNext]_runsVars

\* A request that runs execute_run gets through it, unless Crash ends it.
FairSpec == RunsSpec /\ \A q \in Request : WF_runsVars(ExecuteStep(q))

----------------------------------------------------------------------------
(* Properties.                                                             *)

RunsTypeOK ==
  /\ inputs \in [version : Version, ready : BOOLEAN]
  /\ runs \in [Run -> RunRow]
  /\ stages \in [Run -> [Stage -> StageStatus]]
  /\ job \in [Request -> Job]
  /\ fault \in Environments

\* A stored result was computed from exactly the inputs the run was bound
\* to when it was created (research.py:1847 to 1886), however many requests
\* executed it and whatever was imported between the two, unless an import
\* commits while execute_run is reading.
ResultIsOfBoundInputs ==
  "import" \notin fault =>
    \A r \in Run : ResultStored(r) => runs[r].result = runs[r].bound

\* A run is SUCCEEDED exactly when its result is stored (research.py:2171 to
\* 2221), through failures, refusals, reruns, imports and crashes, unless two
\* requests execute it at the same time.
SucceededIffStored ==
  "overlap" \notin fault =>
    \A r \in Run : runs[r].status = "SUCCEEDED" <=> ResultStored(r)

\* The stage rows tell the same story as the run: a reader of the progress
\* page never sees a stage of an earlier execution contradict the status,
\* unless two requests execute the run at the same time.  A crash or a failed
\* transaction changes neither: status and stages are written together.
StagesAgree ==
  "overlap" \notin fault => \A r \in Run :
    LET s == stages[r] IN
    /\ runs[r].status = "QUEUED" => RowsOf(r) = {}
    /\ runs[r].status = "RUNNING" =>
         s.data_quality = "SUCCEEDED" /\ s.replay = "RUNNING" /\ s.metrics = "none"
    /\ runs[r].status = "SUCCEEDED" => \A c \in Stage : s[c] = "SUCCEEDED"
    /\ runs[r].status = "FAILED" => s.data_quality = "SUCCEEDED" /\ s.replay = "FAILED"
    /\ runs[r].status = "UNAVAILABLE" =>
         s.data_quality = "UNAVAILABLE" \/ s.replay = "UNAVAILABLE"

\* A run does not stay RUNNING: whatever the replay raises (research.py:2148)
\* is recorded.  This is so for one request at a time, and only while the
\* process lives and the database accepts the transaction after the replay:
\* an error there leaves the run RUNNING, as a crash does.
RunningEnds ==
  \A r \in Run :
    fault = {} /\ runs[r].status = "RUNNING" ~> runs[r].status # "RUNNING"
=============================================================================
