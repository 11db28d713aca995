# Verification project for the A-share quantitative validation system

The repository is a FastAPI service with a PostgreSQL store, Redis/RQ workers and a
deterministic backtest engine. It imports market data from providers, replays strategies over
it, proposes daily order plans and records what a person executed by hand. This directory holds
TLA+ models of its stateful parts, TLC configurations that check them on small instances, and
TLAPS proofs of the most important results for every size.

`PROJECT.json` is the index: `map` gives, for every definition, the source lines it stands for;
`runs`, `mutants`, `theorems`, `findings` and `hazards` are described below. Paths such as
`research.py:1773` are under `src/app/`; the long one is
`infrastructure/repositories/research.py`.

## 1. The system

| Part | State | Operations | What is hard about it | What makes it correct |
|---|---|---|---|---|
| **Provider job runs** (`api/v1/admin.py`, `jobs/idempotency.py`, `jobs/tasks.py`, `jobs/queue.py`, `repositories/runtime.py`) | the `job_run` table, messages in RQ | dispatch, retry of a failure, recovery of a stale row, claim, execute, record | API handlers and workers are different processes that meet only in the table; a blind `replace`; lost, late and doubled messages; crashes | one active row per key, one effect per key, a success is final, nothing stays queued |
| **HTTP idempotency** (`main.py`, `core/contracts.py`, `runtime.py`) | reservation and response per key | acquire, handle, complete, replay, refuse | two API processes, expiry, a handler that dies | a write happens once, a replay is one's own response |
| **Backtest engine** (`domain/backtest/event_loop.py`, `domain/portfolio/ledger.py`, `domain/risk/*`, `domain/execution/*`) | cash, positions, orders, entries, high water mark, alarm | settle, fill, mark, observe, order exits and entries | orders decided in the evening meet another price, a price limit or a halted bar the next morning | never beyond cash or limits, exits are not forgotten, an alarm stops new positions |
| **Drawdown review** (`domain/risk/drawdown.py`) | alarm, confirmations | observe, confirm recovery | sequences of alarms, reviews and half confirmations | a review ends by two persons, an alarm does not heal by itself |
| **Durable backtest runs** (`research.py` `create_run`, `execute_run`) | run row, stage rows, results, input tables | create, execute, rerun, fail | long transactions without locks, imports in between, crashes | a result belongs to the hashes of its run; status, stages and result agree; an execution ends |
| **Plans and manual executions** (`research.py` `run_daily_flow`, `confirm_plan`, `create_execution`) | plans, executions, ledger, dated snapshots | publish, decide, execute, expire | read-check-write without locks, retries with keys, dates out of order | plan, ledger, cash and holdings reconcile |
| **Background job execution** (`jobs/provider_execution.py`, `main.py`) | one thread, the same `job_run` rows | submit, fail an entry point, fail abandoned rows at startup | a restart loses thread and queue; `replace` after a `get` | no row stays running without a thread |
| **Provider ingestion** (`application/*_ingestion.py`, `infrastructure/tushare`, `ifind`, `providers`, `akshare`, `storage`) | raw archive, standardized artifacts, published batches | fetch, archive, check completeness, standardize, write, compare, publish | a dozen requests that fail or answer in part; files that exist already on a retry; two scopes of one date; crashes between file and row | a published batch has its files, a usable one no gap, a retry gets past where it failed |
| **Data batches** (`research.py` `create_batch`, `import_daily_bars`, `import_provider_batch`; `domain/data/*`) | batches, bars, calendar, security master | register, import, publish, block | imports rewrite shared rows; late errors; unique constraints as the only lock | evidence is never replaced by invention, content is stored once, and only stored content is refused |
| **Strategy versions** (`research.py` `create_strategy`, `submit_strategy`; `domain/strategy/registry.py`) | versions and their states | create, submit, publish, reject | a counted version number, concurrent reviews | numbers without gap or repetition, runs stand on published versions |
| **Daily flow** (`research.py` `run_daily_flow`, `application/daily_flow_service.py`, `domain/strategy/strong_trend.py`, `features.py`) | runs, signal snapshots, plans | check, compute, store, replay | two transactions with the computation between them; repeated keys; data later than the cutoff | an answer is of its request, signals use no later data and follow the ranking, a day is planned once per version and data batch, and within the budget |

They interact through the database and the artifact directory. An import job (job runs) runs a
provider ingestion, which writes files and publishes a data batch; a backtest run
binds itself to the content of batches, calendar and security master and runs the backtest
engine; the daily flow reads a batch and a published strategy version and publishes plans; every write of the API passes the
idempotency middleware first. `components` in `PROJECT.json` lists these and the parts without
state of interest (sessions, audit trail, exports, scripts, pages, configuration) with the reason
they are left out.

## 2. Modules

| Module | Models | Notes |
|---|---|---|
| `JobRunStore` | `SqlAlchemyJobRunStore` and the partial unique index | one operator per statement that commits |
| `JobRuns` | the import API, `IdempotentTask`, RQ workers or the background thread over it | EXTENDS `JobRunStore`; one action per statement, `MCJobRuns` adds symmetry |
| `JobRunsProofs` | proofs | |
| `PortfolioLedger`, `DrawdownMonitor`, `Allocation` | `PortfolioLedger`, `DrawdownMonitor`, `allocate_quantity` | components, without a specification of their own |
| `BacktestLoop` | the day loop | composes the three; `MCBacktestLoop` defines the market |
| `DrawdownReview` | the monitor under its full interface | |
| `HttpIdempotency`, `HttpIdempotencyProofs` | the middleware and both stores | |
| `BacktestRuns` | `create_run`, `execute_run` | its specification is `RunsSpec` |
| `BacktestProofs` | proofs about the loop, the review and the runs | |
| `OrderAccount` | abstract: an account with plans, decided once, filled within the plan, paid from cash | |
| `ManualTrading`, `ManualTradingProofs` | plans and executions in detail | implements `OrderAccount` by a refinement mapping |
| `ProviderIngestion`, `ProviderIngestionProofs` | `import_business_date` of both providers, archives and artifacts, inside its job | the job as `JobRuns` shows it, the publication as `DataBatches` does |
| `DataBatches`, `DataBatchesProofs` | `create_batch`, `import_daily_bars`, `import_provider_batch` | `MCDataBatches` adds symmetry |
| `StrongTrend` | features, filters, scores, selection and plans | operators over a market, no state |
| `DailyFlow`, `DailyFlowProofs` | strategy versions and `run_daily_flow` | EXTENDS `StrongTrend`; `MCDailyFlow` defines markets and parameters |
| `SumTheorems` | what a sum over a finite set is | for the budgets and limits of `BacktestProofs` and `DailyFlowProofs` |

### How state and actions correspond to the code

*Job runs.* `rows` is the table. A row keeps key, status, phase, `started_at`, attempt and the
class of its error (none, one `retryable_error_summary` accepts, any other). `api[q]` and
`task[w]` say where a handler or a worker stands and which record it holds in memory: a record
read before is written after, which is where the races are. `pending` counts messages per run
id, since a recovery sends a second one. `Submit`, `ReserveInsert`, `Enqueue`, `MarkQueued` are
`_enqueue_provider`; `RetryFailed`, `ReserveRetry` and `RetryStale`, `RequeueClaim`,
`RequeueReplace` are `retry_job`; `TaskLatest`, `ClaimSelect`, `ClaimUpdate`, `AppendRun`,
`Operate`, `Record` are `IdempotentTask.__call__`. `run_number` and `attempt` advance together
and are one field.

In background mode (`"background"` in the environment) `Take` needs the one thread to be free,
`EntryFails` and `EntryRecord` are the get and the replace of `_fail_background_provider_job`,
and `Restart` loses handlers, messages and the thread together and then runs
`_fail_abandoned_provider_jobs`.

*Backtest loop.* `phase` is the position in the loop body. Decimals are integers, rates are
percent, so rounding up to a cent is not modelled. The market (bars, closes) is free; which
symbols the strategy selects and gives up is free within the limits the code enforces, which
covers both strategies. The same-side order of symbols, alphabetical in the code, is free.

*Idempotency.* An intent is what request hash, actor and path tell apart. The durable `acquire`
is two steps, the SELECT (`Acquire`) and the write (`Reserve`); the process-local one is one.

*Backtest runs.* A version stands for everything the input hashes cover. `verify`, `load`,
`claim` are the parts of the first transaction that read at different moments under READ
COMMITTED; `Incomplete` is its end on a snapshot without parameters or batches; the ORM writes a column only if it differs from the loaded value (`Written`).

*Manual trading.* A request reads plan, executions and latest snapshot in one step
(`ReadLedger`), flushes the execution row (`Flush`: the row lock and the unique key) and commits
the rest. `expected_version` is left out because a plan that is PENDING_CONFIRMATION still has
its first version; equity, market value and high water mark are derived columns and left out.

*Data batches.* Each call is a transaction: `Call` looks for the source and an earlier batch,
`ReadMaster` reads securities and the calendar row, `Commit` writes everything or rolls back.
The unique constraints are met when an INSERT is flushed, and since nothing is ever deleted a
conflict met there is still there at the commit, which is where the model has it. A document is
the set of securities it has bars for and what the checks tell apart: status rows without a bar,
listing evidence, dates, and the verdict of the quality gate. `BlockedEarly` are the returns
before, `BlockedLate` the errors found after the bars were written. `record_count` is left out
(section 6).

*Provider ingestion.* `supply` is what the provider would answer, per stock and dataset: a row,
none, one without a required value, one whose value is no number. `FetchCalendar` and
`ArchiveCalendar` are the first request with its raw archive entry (directory, then file and
manifest), `Fetch` the other requests and everything computed from them, `MakeDirectory` and
`WriteArtifact` the standardized artifact, `Validate` the AKShare comparison, `Publish` the
repository call and `Record` the end of the task. A version is named after its rows, as the
content hash does, so both scopes can meet in one directory.

*Strategy versions and daily flow.* `AskCreate` counts and `InsertVersion` inserts; `AskReview`
reads the state and `UpdateStatus` writes it; `AskDaily` is the first transaction of
`run_daily_flow` with the computation, `Recheck` the lookup of the second and `StoreRun` its
commit. `StrongTrend` computes on naturals: returns and ratios are fractions compared by cross
multiplication, a rank is counted in halves so that averaged ties stay whole. The daily flow's
bars carry no industry (the `MarketBar`s built at `research.py:1528` set none), so all candidates
share the unknown one and `max_per_industry` limits the whole selection. A review that decides
what the version already is writes no status (`Moves`).

## 3. Environments

What goes wrong outside the code is a variable that keeps its initial value (`fault`, `env`,
`store`): the configuration lists the environments of a run, and a property says in its own
text under which of them it is claimed. So one run covers them all, and a theorem needs no
extra assumption.

| Module | Elements | Properties that exclude some, and what happens there |
|---|---|---|
| `JobRuns` | `outage`, `ackloss`, `backlog`, `stall`, `crash` | `OneEffectPerKey`, `AttemptFollowsRetryable` are claimed under outages and crashes. With `ackloss` an enqueue Redis performed is recorded as failed and retryable (`admin.py:231`), so the message and the retry both import. With `backlog` a recovered row has two messages; when the first ends in a data error the task runner starts a new attempt on the failed row, whatever its error (`idempotency.py:370`). `SucceededIsFinal`, `ActiveIsLatest` exclude `stall` and a refused dispatch under a backlog: `_requeue_provider` and `_mark_queue_failed` write a whole record back (`admin.py:268`, `183`), over a success that came in between. `SingleExecution` excludes only `backlog` and `ackloss`; `OneActivePerKey` nothing |
| `JobRuns` | `background` | the one thread and the restart; `RunningIsExecuted` is about it alone. `OneEffectPerKey` excludes it: a process that dies between the effect and its record is recovered as a retryable failure, and the retry imports again (the import itself then replays its batch). Together with `stall` and `backlog` a recovery can come between the get and the replace of a failing entry point (`main.py:378`, `388`): the requeued row is overwritten as failed while its new message waits, and that message starts a new attempt |
| `HttpIdempotency` | `sql`, `memory` | with `sql`, two processes that find an expired record both take it over (`runtime.py:68`); with `memory`, an expired reservation's response stays in `_results` (`contracts.py:80`). Hence "until the first expiry" |
| `BacktestRuns` | `overlap`, `import`, `crash` | two requests that execute one run (`research.py:1773`) can overwrite SUCCEEDED; an import that commits while `execute_run` reads (`1887`) changes what is replayed. `crash` is also a database error in one of the transactions, which ends the call in the same way: after `Claim` it leaves the run RUNNING, so `RunningEnds` excludes it |
| `ManualTrading` | `overlap`, `days`, `backdated` | overlapping executions overfill a plan (`2528`), overspend (`2567`), and a late decision overwrites another (`2751`); a backdated execution is charged to its own date (`2548`); a new date loses the other positions (`2667`) |
| `DataBatches` | `overlap`, `owners`, `label`, `postgresql` | two overlapping files under chosen version names are both stored (`280`); a provider replay does not look at the owner (`432`); PostgreSQL enforces the width of the status |
| `ProviderIngestion` | `outage`, `reject`, `malformed`, `crash`, `postgresql`, `background` | a value that is no number leaves its row out without an error (`tushare_ingestion.py:312`); a process that dies past a mkdir leaves a directory its retry cannot get past (`parquet_store.py:80`); an RQ worker that dies leaves its row running |
| `DailyFlow` | `overlap`, `reviews`, `owners`, `expired`, `market` | two reviews at once can undo a publication (`919`); after the HTTP record of a key expired the key gets its old run (`1464`). `market` separates the question of what is computed from that of who overlaps. There is one data batch: `uq_signal_snapshot_input` (`all_models.py:226`) has `data_batch_id`, so `PlansNotDoubled` is a promise per batch, and the same day on another batch is planned again |

## 4. Runs

| Run | Result | Shows |
|---|---|---|
| `jobs` | pass | three requests, two workers, three rows of one key, up to two crashes, seven environments, three of them in background mode: the seven job properties |
| `jobs_live` | pass | a queued row is decided, although handlers die between insert and enqueue |
| `loop` | pass | four days, three symbols of two industries: limits, cash, exits, alarm |
| `drawdown_review` | pass | any sequence of observations and confirmations |
| `idempotency` | pass | three requests, two keys, two intents, both stores, two lifetimes |
| `backtest_runs` | pass | one run, three requests, two versions, three environments |
| `manual` | pass | two plans, two keys, two requests, three dates; refines `OrderAccount` |
| `manual_overspend` | violation | two executions spend the same cash |
| `data` | pass | three calls of any kind over two contents and two securities, three environments (overlap with named versions, overlap on PostgreSQL, two owners): evidence, duplicates, refusals |
| `data_warning` | violation | a complete import with a warning is refused by the width of the status column |
| `ingestion` | pass | both scopes of a date, both providers, every single flaw of an answer, outages, rejections, crashes: files, writers, completeness, retries, and that jobs end |
| `daily` | pass | three calls over a published version; then 720 markets: versions, publication, replay, causality, ranking, budget |

The two violation runs each refute one sentence of the repository's documents, quoted in `findings`.

Bounds. *Jobs*: rows of different keys share nothing but the clock, so one key is enough; three
rows are an attempt, its retry and a further one; three requests are the dispatcher, a retry and
a racing retry. Only `MaxCrashes` bounds behaviour; stamps and attempts are bounded by the rows
and requests. *Loop*: with `MaxHoldingDays = 2` and an unfilled exit, four days see entry,
overdue, unfilled and refilled; two symbols of one industry and `MaxPerIndustry = 1` make both
limits bind; the bars have each reason not to fill; prices 10 and 20 cross both drawdown
thresholds. *Review*: the equities lie on and around the thresholds and the recovery level of
several marks. *Idempotency*: `MaxClock` is two lifetimes, so a takeover can itself be
completed late. *Runs*: runs share only the inputs, so one is enough; three requests are two that overlap and a later rerun. *Trading*: two of everything that can race; `Opening = 3` affords one
large and one small debit; `MaxDate = 2` has a day after the execution date. *Data*: three calls are two that race and one
that came before or comes after; one security with bars and one with a status row only reach
every check, since a check looks at one row at a time. *Ingestion*: two stocks, one of them the
pilot pool, so that the scopes' rows can be equal or differ; one flaw at a time, because errors
are collected and any of them blocks; two crashes are a retry that is interrupted again.
*Daily*: windows of one and two bars and a date with a day before and after its window need four
days; three stocks are the most for which Decimal ranks are exact and enough for a tie behind a
winner; closes, amounts and the budget let two cheap stocks, or one dear and none, or one dear and
no cheap one be planned; each market has one bar, status, listing date, limit flag or index value
out of the ordinary.

CHECK_DEADLOCK is off where a behaviour may simply be over: when all requests of the instance
are used (jobs), all plans are filled, skipped or expired (manual), or both scopes have ended for
good (ingestion).

Mutants. For every property of a passing run `mutants` names a plausible slip in the modelled
code (the index dropped, an exclusive boundary, a forgotten reset, a check of the wrong amount),
defined beside the definition it would replace, under which TLC finds that property violated.

### Fairness

`jobs_live`: weak fairness for each handler's and each worker's next step (threads and worker
processes are scheduled, and RQ hands a waiting message to a free worker), and for the recovery
of a stale row, the administrator's action README.md describes. No fairness of submissions, retries
of failures, or crashes. `backtest_runs`: weak fairness for the next step of an `execute_run`
call, which contains no wait; none for starting a call, imports, crashes or errors of the database. `ingestion`: weak
fairness for the next step of an execution that has started (every request has a time-out, files
and transactions do not wait for each other); none for starting one, repairs of the provider, or
crashes. `RunningSettles` is claimed for RQ without crashes and for the background mode with them,
where each of the finitely many restarts settles the row itself.

## 5. Proofs

All results hold for every value of the constants that satisfies the named assumptions. Every
safety invariant and action property that a passing run checks is also the statement of a theorem.
Proof modules extend their specification and TLAPS.

* **Job runs**: in every environment `TypeCorrect` and `OneActive`. Type correctness and the property
  itself are inductive together: every write of an active row (insert, append, claim, requeue,
  replace) either meets the index or keeps the set of active rows of its key.
  `WritesKeepOneActive` shows this once for each store operator, the theorem then is a walk through
  the actions. `RunningHasThread`: in background mode a running row is the one the thread
  executes. It needs `HeldStatus`: no handler and no task that is about to write a whole record
  back holds one that says running.

  The conditional properties are implications from the environment, and so are their invariants.
  `ExecutionIsSingle` by `OneToken`: a handler that will send the message of a row, the waiting
  message and the worker that took it are three forms of one token, its row is queued, and a
  running row has one worker. `ActiveRowIsLatest` and `SucceededStays` by `Current`: on one key
  there is one read-then-write sequence at a time, what it read is still so, and a row that did
  not fail is the last of its key. `EffectIsSingle` by `EffectsTold`: a key whose import took effect
  has a row that tells of it, which has succeeded, or whose worker is about to record that, or
  which runs without a worker for good. `AttemptsFollowFailures` by `ReservesRetryable`: a handler
  that is about to insert an attempt stands on a retryable failure.
* **Backtest loop**: `PositionsLimited`, `EntriesTrackHoldings`, `StopEndsExposure`,
  `LoopNeverFails`. The properties are not inductive alone; `LoopInv` adds that an exit order is
  for the whole position and settled (`ExitsWhole`), an entry order only for a symbol not held
  (`EntriesNew`), quantities are whole lots (`WholeLots`), and an alarm leaves no entry order
  (`StopClearsEntries`). `LoopNeverFails` has one more hypothesis, `FeesCovered`: a sale pays
  for its own fees. Without it `apply_fill` can raise on a sale, for example of a lot worth less
  than the minimum commission from an account without cash. `OverdueExits` adds `ExitsOrdered`, the
  evening from which a position has its exit order. `OrdersLimited` adds `OrdersTold`: the cash still
  to be spent in the evening is what the orders before have left. It rests on `AllocationLimits` (the
  allocated quantity respects each limit by itself, after rounding down to a lot) and on what a sum
  gains when one order joins it.
* **Drawdown review**: `AlarmIsWorst`, `RecoveryNeedsTwo` from `ReviewInv`, which ties the
  accepted ids to the current review.
* **Idempotency**: `ExecutedOnce` and `ReplaysOwn`. Until the first expiry by `IdempotencyInv`
  (no record has expired; whoever is about to reserve saw none; owners of a key are one; a
  stored response belongs to a finished owner), beyond it for the process-local store by
  `MemoryInv` (an owner's expiry is at most its record's, and another's is a lifetime away).
* **Backtest runs**: `RunsTypeCorrect`; `ResultsReproduce` by `BoundInv` (what a request has
  loaded is what its run is bound to); `StatusIsOfResult` by `SerialInv` (a request is alone
  with its run, and the status it loaded is still the run's); `StagesTellStatus` by `StagesTold`,
  which says for each status what the stage rows are while it lasts.
* **Manual trading**: `KeyExecutedOnce` in every environment, by `KeyInv` (a request past its
  flush holds the key of its plan's lock); `CashAlwaysReconciles`, `FillsAreCovered`,
  `StatusTellsFills` by `TradingInv` (one request at a time, and what it has read is still so);
  `TradingImplementsAccount`, the refinement, from the same invariant. `HoldingsAreFills` by
  `DayInv`: there are the opening snapshot and that of the execution date, which has what is filled.
* **Data batches**: `ServedEvidenced` follows from `DataInv`: types, and that a call has asked for
  something the API admits and has a batch only when it is done (`CallsSound`). A file cannot turn evidence into invention because it writes a date only for a security it
  inserts, and the unique constraint refuses that insert if anyone was faster. `AnswersAreOwn`
  adds that answered calls name stored batches (`Answered`); `ContentStoredOnce` splits into
  calls that do not overlap (`Alone`: what was looked up is still so) and versions that are named
  after their content. `RefusedIsStored` adds to `Alone` that the source, securities and calendar
  row a lone call read are still what is there (`Fresh`), which leaves the version as its only
  conflict.
* **Provider ingestion**: `BatchesHaveArtifacts` and `OneWriterEach` from `Artifacts`: a version's
  directory has one maker, a writer is the maker, and whoever is past the write left it complete.
  `UsableBatchesComplete` from `PullsComplete`: a pull without errors has a row for each stock that
  owed one, which is what the completeness checks have to imply about the standardization.
  `RetriesStartClean` from the positions of an execution: only positions before the mkdir can
  fail retryably. `IngestionTypeCorrect` supports all four.
* **Daily flow**: `NumbersContiguous`, `RunsOfPublished`, `AnswersAreOfRequests` are parts of
  `FlowInv`. What makes it inductive: a counted number is at most the next free one
  (`CountsAreCurrent`; the unique constraint refuses the rest), nobody is about to edit a
  published version (`PublishedStays`), the inputs of a result have not changed since
  (`ResultsFollow`), and a remembered key names one request (`KeysNameRequests`).
  `SignalsCausal`: each operator of `StrongTrend`, from the visible days to the selection, gives
  the same on a market without what came later. `DominantSignals`: `RankedSorts` (every finite set
  of candidates can be put in the order of score and code, and the ranking is that order),
  `RanksFollow` (a better value has a better averaged rank) and `SignalsLead`. `BudgetUsed`: the
  loop over the signals keeps `Planning` (what is committed is the total of what is planned, within
  the budget, and what was rejected does not fit); `NoPlanTwice`: plans are of the pool, and pools
  of one version and date on the one batch are disjoint.

Assumptions on constants say what the code or its data guarantee: sets are finite where the code
iterates over them, fees, budget and limits are naturals, windows and lots positive, and every
close of a market is positive, since the quality gate (`domain/data/quality.py:111`) lets no other
into a batch the daily flow accepts. TLC evaluates all of them on the instances.

Sums, the fold over the signals and the sort are recursions over data. The library's induction
theorems take an operator and cannot be used, but its theorem on minimal elements (`WFMin`) takes
a set: `LeastNatural` and `LeastSubset` derive from it that a claim about the subsets of a finite
set cannot have a least counterexample. From these follow that the recursion under a fold has a
solution (`TableExists`) and what a sum is (`SumAdds`, `SumsAgree`, `SumGrows`), and in
`DailyFlowProofs` what the fold over the signals does at each of them (`PlanSteps`). The ranking is
defined by what a sorted sequence is, so that only its existence needs an induction.

Checked by TLC only: liveness (`QueuedIsDecided`, `RunningEnds`, `RunningSettles`), which the
prover does not reach.

Proved and not checked by a run: the type invariants, `EntriesMatchHoldings` of the loop,
`SpendingIsCovered` and `StatusMatchesFills` of manual trading (a run checks the refinement of
`OrderAccount`, which says as much), and `AnswerIsOwn` of the data batches.

## 6. Not modelled

The moving-average strategy's features and the exit rules of both strategies (the loop leaves
them open); the historical universe selector and calendar helpers, which scripts use; metric
arithmetic and the stateless runner; sessions and roles; audit; exports; paging, throttling and
token renewal of the provider clients; encoding, reading and verification of Parquet files;
backup; scripts and pages; the in-memory repositories and the fixture runner of
`application/daily_flow.py`. `set_batch_quality` (`research.py:843`) has no caller. Within the
modelled parts: decimals and their rounding, order of symbols within one side, trace and report
records, derived columns, index rows of a provider (taken to be whole), raw archive entries other
than the calendar's.

Behaviour met while modelling for which no property is claimed, because the code behaves otherwise
or promises nothing:

* a worker that dies in RQ mode leaves its row running and its key blocked, since `retry_job`
  refuses it; a process that dies between `acquire` and `complete` leaves its key in progress for
  the rest of the seven days. So does a handler that raises: its 500 response has no
  `body_iterator` (`main.py:289`, `296`), and the middleware fails before `complete`;
* the background mode's restart makes a job "explicitly retryable" (`main.py:339`), but a process
  that died between the mkdir and the manifest of a raw or standardized artifact left a directory
  on which the retry fails with an error that is not retryable (`providers/raw_archive.py:74`,
  `parquet_store.py:80`); a retry after the artifact was written fails in the same way, and so does
  the second scope of a date whose rows are equal;
* the industry count of the evening leaves out positions with an exit order
  (`event_loop.py:396`); when that exit stays unfilled and the replacement fills, the account holds
  one position of the industry more than `02-需求规格说明书.md:89` allows. The position count
  does not have this gap;
* `apply_fill` ends in a snapshot valued at cost (`ledger.py:84`), which can raise the ledger's high
  water mark above any close: the drawdown stored with a day can be past the stop line of
  `02-需求规格说明书.md:100` while the monitor, which follows closes, lets entries through;
* `execute_run` commits RUNNING before the replay and refuses a RUNNING run (`research.py:1773`), and
  nothing resets one: a run whose process died, or whose transaction after the
  replay (`2171`) met a database error, is neither resumed nor rerun, as
  `04-系统架构设计.md:104` says it is;
* the snapshot of a new date is stored with the position of the executed security alone
  (`research.py:2667`), against the daily reconciliation of `08-测试计划与测试用例.md:89`;
* `import_provider_batch` finds the earlier batch of a version without looking at the owner
  (`research.py:432`): a second owner is answered with the first one's batch, and has none. A file
  is looked for with its owner (`280`), but the unique version has none (`all_models.py:69`): a
  second owner's import of the same file ends in an IntegrityError nobody catches;
* a batch blocked for missing master data or for a late error is stored with `record_count` 0
  (`research.py:509`, `767`), but the count in its quality summary (`457`) stays, and
  `_batch_record` falls back to it (`3486`): an UNAVAILABLE batch that serves nothing is reported
  with all its records;
* a price or factor that is no number leaves its stock out of a Tushare batch that may still be
  AVAILABLE, against `docs/runbooks/operations.md:71`;
* from four candidates on Decimal division makes ranks inexact, so that a tie in exact arithmetic
  may not fall back to the order by code (`strong_trend.py:51`, `16-选股策略专业术语说明.md:134`).

## 7. Plan

1. Proofs: abstract specifications of the job table and of the idempotency middleware, refined as
   `OrderAccount` is; `LoopNeverFails` with a bound on the price in place of `FeesCovered`.
2. `DataBatches` in place of `ChangeInputs` of `BacktestRuns`; `DailyFlow` in front of `ManualTrading`.
3. The moving-average strategy and the exit rules as operators beside `StrongTrend`, in the loop.
