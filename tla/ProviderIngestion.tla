------------------------- MODULE ProviderIngestion -------------------------
(***************************************************************************)
(* What a provider job does: import_business_date of the Tushare and iFinD *)
(* ingestion services, with the HTTP clients, the raw archives, the        *)
(* artifact store and the AKShare comparison they use, for one provider    *)
(* and one business date.  The two scopes of a date are two jobs.          *)
(*                                                                         *)
(* The provider's answers are abstracted to what the services tell apart   *)
(* per stock: a dataset has its row, lacks it ("absent"), has it without a *)
(* required value ("blank") or with a value that is no number              *)
(* ("malformed").  The index rows are taken to be whole.  A standardized   *)
(* artifact is named by the hash of its rows.                              *)
(*                                                                         *)
(* The job_run row of a scope follows JobRuns: one execution at a time, a  *)
(* "dependency" failure may be retried, "other" and "succeeded" are final. *)
(* The environment:                                                        *)
(*   "outage"      a request fails: time-outs, 429, 5xx, rejected token    *)
(*   "reject"      the provider answers with an error or unusable rows     *)
(*   "malformed"   a value may be no number                                *)
(*   "crash"       the executing process dies                              *)
(*   "postgresql"  the database enforces column widths                     *)
(*   "background"  jobs run in the one thread of the API process, and its  *)
(*                 startup fails the rows it left running; otherwise RQ    *)
(*                 workers run them                                        *)
(***************************************************************************)
EXTENDS Naturals

CONSTANTS
  Stock,         \* stock codes
  PilotStock,    \* the configured pilot pool
  Providers,     \* the providers considered: "tushare", "ifind"
  Environments,
  MaxCrashes     \* bound on crashes

ASSUME PoolAssumption == PilotStock \subseteq Stock
ASSUME ProviderAssumption == Providers \subseteq {"tushare", "ifind"}
ASSUME BoundAssumption == MaxCrashes \in Nat

Scope == {"pilot", "full"}

VARIABLES
  provider,
  supply,     \* what the provider answers now: [calendar, stocks]
  raw,        \* raw archive: stage of the calendar response, per answer
  dirs,       \* standardized versions whose directory exists, and who made it
  complete,   \* ... whose file and manifest are written
  batches,    \* published batches
  job,        \* per scope: status of its job_run row
  exec,       \* per scope: where its execution stands and what it holds
  crashes, env

vars == <<provider, supply, raw, dirs, complete, batches, job, exec, crashes, env>>
world == <<provider, supply, env>>

----------------------------------------------------------------------------
(* The provider (external).                                                *)

Whole == [bar |-> "ok", factor |-> "ok", limit |-> "ok", industry |-> "ok",
          master |-> "ok", status |-> "ok", suspended |-> FALSE]

Answer == [bar : {"ok", "absent", "blank", "malformed", "novolume"},
           factor : {"ok", "absent", "blank", "malformed"},
           limit : {"ok", "absent", "blank", "malformed"},
           industry : {"ok", "absent"}, master : {"ok", "absent", "blank"},
           status : {"ok", "absent"}, suspended : BOOLEAN]

\* One dataset of one stock is not what it should be, the list of suspended
\* stocks not counted.
Flawed ==
  {e \in Answer : \E f \in {"bar", "factor", "limit", "industry", "master", "status"} :
     /\ \A g \in DOMAIN Whole \ {f, "suspended"} : e[g] = Whole[g]
     /\ e.suspended => f = "bar"}

Malformed(e) == "malformed" \in {e.bar, e.factor, e.limit}

AllWhole == [calendar |-> "open", stocks |-> [c \in Stock |-> Whole]]

Supplies ==
  {[AllWhole EXCEPT !.calendar = "closed"]} \cup
  {[AllWhole EXCEPT !.stocks[c] = e] :
     c \in Stock, e \in {x \in Flawed : Malformed(x) => "malformed" \in env}}

----------------------------------------------------------------------------
(* From the answers to rows and errors.                                    *)

Of(c) == supply.stocks[c]

\* Pilot codes, or every code of the security master that is listed; an
\* unknown listing date counts as listed.
Pool(scope) ==
  IF scope = "pilot" THEN PilotStock ELSE {c \in Stock : Of(c).master # "absent"}

\* A suspended stock without a bar owes Tushare's import no daily row.
HasBar(c) == Of(c).bar # "absent"
DailyCodes(codes) ==
  IF provider = "tushare" THEN {c \in codes : Of(c).suspended => HasBar(c)} ELSE codes

\* _missing, _missing_requirements: a dataset without a row for a code.
MissingRows(codes) ==
  \/ \E c \in codes : "absent" \in {Of(c).master, Of(c).industry}
  \/ \E c \in DailyCodes(codes) : "absent" \in {Of(c).bar, Of(c).factor, Of(c).limit}
  \/ provider = "ifind" /\ \E c \in codes : Of(c).status = "absent"

\* _invalid_required_fields: a row without a required value.
BlankFields(codes) ==
  \/ \E c \in codes : Of(c).master = "blank"
  \/ \E c \in DailyCodes(codes) : "blank" \in {Of(c).bar, Of(c).factor, Of(c).limit}

RowsSuffice(codes) == MissingRows(codes)
Missing(codes) == MissingRows(codes) \/ BlankFields(codes)

\* Tushare gives limits as prices, which iFinD's flags are not.
LimitKnown(c) ==
  Of(c).limit = "ok" \/ (provider = "ifind" /\ Of(c).limit = "malformed")

\* _standardize: a row needs four prices and a factor that are numbers.
Row(c) == [code |-> c, limit |-> LimitKnown(c), master |-> Of(c).master,
           volume |-> Of(c).bar = "ok", suspended |-> Of(c).suspended]
Standardized(codes) ==
  {Row(c) : c \in {d \in DailyCodes(codes) :
                     Of(d).bar \in {"ok", "novolume"} /\ Of(d).factor = "ok"}}

\* validate_daily_bars of the repository: volume and amount are required.
GateBlocks(rows) == \E r \in rows : ~r.volume

Version == SUBSET [code : Stock, limit : BOOLEAN, master : {"ok", "absent", "blank"},
                   volume : BOOLEAN, suspended : BOOLEAN]
Pull == [rows : Version, errors : BOOLEAN, owed : SUBSET Stock]
NoPull == [rows |-> {}, errors |-> FALSE, owed |-> {}]

----------------------------------------------------------------------------
Pc == {"idle", "calendar", "archive", "pull", "mkdir", "write", "validate", "publish", "record"}

Idle == [pc |-> "idle", closed |-> FALSE, pull |-> NoPull, warned |-> FALSE]

JobStatus == {"new", "running", "succeeded", "dependency", "other"}

Init ==
  /\ env \in Environments
  /\ provider \in Providers
  /\ supply \in Supplies
  /\ raw = [d \in {"open", "closed"} |-> "none"]
  /\ dirs = {} /\ complete = {} /\ batches = {}
  /\ job = [s \in Scope |-> "new"]
  /\ exec = [s \in Scope |-> Idle]
  /\ crashes = 0

At(s, pc) == exec[s].pc = pc
Goto(s, pc) == exec' = [exec EXCEPT ![s].pc = pc]
\* IdempotentTask records the outcome; the class of a failure decides about
\* a retry.
Finish(s, status) ==
  /\ job' = [job EXCEPT ![s] = status]
  /\ exec' = [exec EXCEPT ![s] = Idle]

\* One thread in the API process, any number of RQ workers.
ThreadFree == "background" \in env => \A t \in Scope : At(t, "idle")

Start(s) ==
  /\ job[s] \in {"new", "dependency"}
  /\ At(s, "idle") /\ ThreadFree
  /\ job' = [job EXCEPT ![s] = "running"]
  /\ Goto(s, "calendar")
  /\ UNCHANGED <<world, raw, dirs, complete, batches, crashes>>

\* Time-outs, 429, 5xx (Tushare's client tries these three times) and every
\* authentication failure are DependencyErrors, which _fetch lets through.
RequestUnavailable(s) ==
  /\ "outage" \in env
  /\ exec[s].pc \in {"calendar", "pull"}
  /\ Finish(s, "dependency")
  /\ UNCHANGED <<world, raw, dirs, complete, batches, crashes>>

\* Any other exception, an answer without usable rows among them, becomes an
\* ingestion error.
RequestRejected(s) ==
  /\ "reject" \in env
  /\ exec[s].pc \in {"calendar", "pull"}
  /\ Finish(s, "other")
  /\ UNCHANGED <<world, raw, dirs, complete, batches, crashes>>

\* The calendar response is archived under its hash before it is looked at:
\* mkdir, file, manifest.  An existing directory is read back, which fails
\* until its manifest is there.
FetchCalendar(s) ==
  LET d == supply.calendar IN
  /\ At(s, "calendar")
  /\ \/ /\ raw[d] = "none"
        /\ raw' = [raw EXCEPT ![d] = "dir"]
        /\ exec' = [exec EXCEPT ![s].pc = "archive", ![s].closed = (d = "closed")]
        /\ UNCHANGED job
     \/ /\ raw[d] = "done"
        /\ exec' = [exec EXCEPT ![s].pc = "pull", ![s].closed = (d = "closed")]
        /\ UNCHANGED <<raw, job>>
     \/ /\ raw[d] = "dir"
        /\ Finish(s, "other")
        /\ UNCHANGED raw
  /\ UNCHANGED <<world, dirs, complete, batches, crashes>>

ArchiveCalendar(s) ==
  /\ At(s, "archive")
  /\ raw' = [raw EXCEPT ![IF exec[s].closed THEN "closed" ELSE "open"] = "done"]
  /\ Goto(s, "pull")
  /\ UNCHANGED <<world, dirs, complete, batches, job, crashes>>

\* The other datasets, the errors and the standardized rows.
Fetch(s) ==
  LET codes == Pool(s) IN
  /\ At(s, "pull")
  /\ exec' = [exec EXCEPT ![s].pc = "mkdir",
       ![s].pull = [rows |-> Standardized(codes),
                    errors |-> (exec[s].closed \/ codes = {} \/ Missing(codes)),
                    owed |-> DailyCodes(codes)]]
  /\ UNCHANGED <<world, raw, dirs, complete, batches, job, crashes>>

\* ParquetStore.write_records: mkdir(exist_ok=False), file, manifest.  The
\* services do not catch FileExistsError.
ExistingAccepted(s) == FALSE
VersionExists(s) == \E t \in Scope : <<exec[s].pull.rows, t>> \in dirs

MakeDirectory(s) ==
  /\ At(s, "mkdir")
  /\ IF VersionExists(s)
     THEN Finish(s, "other") /\ UNCHANGED dirs
     ELSE Goto(s, "write") /\ UNCHANGED job /\ dirs' = dirs \cup {<<exec[s].pull.rows, s>>}
  /\ UNCHANGED <<world, raw, complete, batches, crashes>>

WriteLater(s) ==
  /\ At(s, "write")
  /\ Goto(s, "validate")
  /\ UNCHANGED <<world, raw, dirs, complete, batches, job, crashes>>
WriteArtifact(s) ==
  /\ At(s, "write")
  /\ complete' = complete \cup {exec[s].pull.rows}
  /\ Goto(s, "validate")
  /\ UNCHANGED <<world, raw, dirs, batches, job, crashes>>

ValidateOrFail(s) ==
  /\ At(s, "validate")
  /\ \/ Goto(s, "publish") /\ UNCHANGED job
     \/ "outage" \in env /\ Finish(s, "dependency")
  /\ UNCHANGED <<world, raw, dirs, complete, batches, crashes>>
\* _validate_with_akshare: differences, gaps and every exception are
\* warnings; iFinD has no second source.
Validate(s) ==
  /\ At(s, "validate")
  /\ \E w \in IF provider = "tushare" THEN BOOLEAN ELSE {FALSE} :
       exec' = [exec EXCEPT ![s].pc = "publish", ![s].warned = w]
  /\ UNCHANGED <<world, raw, dirs, complete, batches, job, crashes>>

\* import_provider_batch, see DataBatches.  An import with errors hands no
\* rows over and is kept as an UNAVAILABLE batch; an existing version is
\* returned as it is.
Verdict(e) ==
  IF e.pull.errors \/ GateBlocks(e.pull.rows) THEN "UNAVAILABLE"
  ELSE IF e.warned THEN "WARNING_AVAILABLE" ELSE "AVAILABLE"

Exists(e) == \E b \in batches : b.version = e.pull.rows

\* The transaction fails: another publication that overlaps took a row it
\* inserts, or the status is too long for its column.
PublishFails(s) ==
  /\ At(s, "publish") /\ ~Exists(exec[s])
  /\ \/ \E t \in Scope \ {s} : At(t, "record")
     \/ "postgresql" \in env /\ Verdict(exec[s]) = "WARNING_AVAILABLE"
  /\ Finish(s, "other")
  /\ UNCHANGED <<world, raw, dirs, complete, batches, crashes>>

Publish(s) ==
  LET e == exec[s] IN
  /\ At(s, "publish")
  /\ \/ Exists(e) /\ UNCHANGED batches
     \/ /\ ~Exists(e)
        /\ ~("postgresql" \in env /\ Verdict(e) = "WARNING_AVAILABLE")
        /\ batches' = batches \cup
             {[version |-> e.pull.rows, status |-> Verdict(e), owed |-> e.pull.owed]}
  /\ Goto(s, "record")
  /\ UNCHANGED <<world, raw, dirs, complete, job, crashes>>

Record(s) ==
  /\ At(s, "record")
  /\ Finish(s, "succeeded")
  /\ UNCHANGED <<world, raw, dirs, complete, batches, crashes>>

----------------------------------------------------------------------------
\* An RQ worker dies: its row stays running.
WorkerCrash(s) ==
  /\ "crash" \in env /\ "background" \notin env /\ crashes < MaxCrashes
  /\ ~At(s, "idle")
  /\ Finish(s, job[s])
  /\ crashes' = crashes + 1
  /\ UNCHANGED <<world, raw, dirs, complete, batches>>

KeptRunning(status) == status
\* _fail_abandoned_provider_jobs, for every row that is running at startup.
Abandoned(status) == IF status = "running" THEN "dependency" ELSE status

Restart ==
  /\ "crash" \in env /\ "background" \in env /\ crashes < MaxCrashes
  /\ job' = [s \in Scope |-> Abandoned(job[s])]
  /\ exec' = [s \in Scope |-> Idle]
  /\ crashes' = crashes + 1
  /\ UNCHANGED <<world, raw, dirs, complete, batches>>

\* The provider completes what it answers (external).
Repair ==
  /\ supply # AllWhole
  /\ supply' = AllWhole
  /\ UNCHANGED <<provider, raw, dirs, complete, batches, job, exec, crashes, env>>

Step(s) ==
  \/ RequestUnavailable(s) \/ RequestRejected(s)
  \/ FetchCalendar(s) \/ ArchiveCalendar(s) \/ Fetch(s)
  \/ MakeDirectory(s) \/ WriteArtifact(s) \/ Validate(s) \/ Publish(s)
  \/ PublishFails(s) \/ Record(s)

Next ==
  \/ \E s \in Scope : Start(s) \/ Step(s) \/ WorkerCrash(s)
  \/ Restart
  \/ Repair

Spec == Init /\ [][Next]_vars

\* Workers and the background thread keep running what they started.
Fairness == \A s \in Scope : WF_vars(Step(s))
FairSpec == Spec /\ Fairness

----------------------------------------------------------------------------
IngestionTypeOK ==
  /\ provider \in Providers
  /\ supply \in [calendar : {"open", "closed"}, stocks : [Stock -> Answer]]
  /\ raw \in [{"open", "closed"} -> {"none", "dir", "done"}]
  /\ dirs \subseteq Version \X Scope
  /\ complete \subseteq Version
  /\ batches \subseteq [version : Version, owed : SUBSET Stock,
                         status : {"UNAVAILABLE", "AVAILABLE", "WARNING_AVAILABLE"}]
  /\ job \in [Scope -> JobStatus]
  /\ exec \in [Scope -> [pc : Pc, closed : BOOLEAN, pull : Pull, warned : BOOLEAN]]
  /\ crashes \in 0..MaxCrashes
  /\ env \in Environments

\* tushare_ingestion.py:193, a batch names its standardized file and manifest:
\* both are there, wherever processes died and whichever scope wrote them.
BatchHasArtifact == \A b \in batches : b.version \in complete

\* parquet_store.py:51, "immutable artifacts": nobody writes into a version
\* another execution is writing or has written.
OneWriter ==
  \A s \in Scope : At(s, "write") =>
    /\ exec[s].pull.rows \notin complete
    /\ \A t \in Scope : At(t, "write") /\ exec[t].pull.rows = exec[s].pull.rows => t = s

\* operations.md:71, "Any incomplete Tushare requirement is UNAVAILABLE": a
\* usable batch has a row for every stock that owed one.  A value that is no
\* number is not counted as missing, but its row is left out (see README).
UsableIsComplete ==
  "malformed" \notin env =>
    \A b \in batches : b.status # "UNAVAILABLE" => {r.code : r \in b.version} = b.owed

\* operations.md:77, dependency failures may be retried: a job that may be
\* started again has not made its directory yet, which it could not get past.
RetryStartsClean ==
  "crash" \notin env =>
    \A s \in Scope : job[s] \in {"new", "dependency"} =>
      \A d \in dirs : d[2] # s

\* A job that runs ends: the background thread's also when its process dies.
\* A row an RQ worker left running is not recovered by anything.
RunningSettles ==
  \A s \in Scope :
    job[s] = "running" /\ ("crash" \notin env \/ "background" \in env)
      ~> job[s] # "running"
============================================================================
