----------------------------- MODULE DailyFlow -----------------------------
(***************************************************************************)
(* Strategy versions and the daily flow that runs one of them:             *)
(* create_strategy, submit_strategy and run_daily_flow of                  *)
(* SqlAlchemyResearchRepository, for one data batch, on the tables         *)
(* strategy_version, backtest_run, signal_snapshot and order_plan.         *)
(*                                                                         *)
(* A call reads in one transaction and writes at the end of it, without    *)
(* locks; run_daily_flow computes its result between two transactions.  A  *)
(* strategy version and a run are named by the call that inserted them.    *)
(* The environment:                                                        *)
(*   "overlap"   calls may be open at the same time                        *)
(*   "reviews"   ... two reviews too                                       *)
(*   "owners"    several administrators                                    *)
(*   "expired"   the HTTP layer has forgotten a key, which comes back with *)
(*               whatever content                                          *)
(*   "market"    any market, and nobody edits strategies; otherwise the    *)
(*               market is the first one                                   *)
(***************************************************************************)
EXTENDS StrongTrend

CONSTANTS
  Call,
  Seed,           \* a version published before
  NoRun,          \* a call that returned no run
  Owner,
  Code,           \* names of strategies
  Key,            \* idempotency keys
  Parameters,     \* what a strategy may be created with
  FirstMarket, Markets,   \* the markets considered
  Dates, Cutoffs,         \* what runs are asked for
  BatchCutoff,
  Environments

ASSUME NameAssumption == Seed \notin Call /\ NoRun \notin Call /\ Call # {} /\ IsFiniteSet(Call)
ASSUME SomeAssumption == Owner # {} /\ Code # {} /\ Key # {}
ASSUME MarketAssumption == FirstMarket \in Market /\ Markets \subseteq Market
ASSUME DateAssumption == Dates \subseteq Day /\ Cutoffs \subseteq Nat
ASSUME DailyEnvironmentAssumption ==
  Environments \subseteq SUBSET {"overlap", "reviews", "owners", "expired", "market"}

Strategy == Call \cup {Seed}

VARIABLES
  market,     \* bars, statuses and master data of the batch
  batch,      \* its owner, and whether its status is usable
  strategy,   \* strategy_version
  run,        \* the backtest_run each call inserted, with its signals and plans
  call,
  env

vars == <<market, batch, strategy, run, call, env>>
inputs == <<market, batch, env>>

FirstOwner == CHOOSE o \in Owner : TRUE
FirstCode == CHOOSE c \in Code : TRUE
FirstKey == CHOOSE k \in Key : TRUE

----------------------------------------------------------------------------
(* StrategyDefinition.validate_parameters.                                 *)
Valid(p) ==
  IF p.type = "STRONG_TREND"
  THEN p.low <= p.high /\ p.lowRatio <= p.highRatio
  ELSE p.short < p.long

ValidParameters == {p \in Parameters : Valid(p)}
StrongParameters == {p \in ValidParameters : p.type = "STRONG_TREND"}

ASSUME ParametersAssumption ==
  /\ StrongParameters # {}
  /\ \A p \in StrongParameters : p.positions \in Nat /\ p.perIndustry \in Nat

NoStrategy == [status |-> "none", code |-> FirstCode, owner |-> FirstOwner, version |-> 0,
               parameters |-> CHOOSE p \in StrongParameters : TRUE]
NoDailyRun == [stored |-> FALSE, owner |-> FirstOwner, key |-> FirstKey, strategy |-> Seed,
               date |-> 0, cut |-> 0,
               result |-> [pool |-> {}, signals |-> <<>>, planned |-> {}, rejected |-> {}]]

Create == [kind : {"create"}, owner : Owner, code : Code, parameters : Parameters]
Review == [kind : {"review"}, strategy : Strategy, decision : {"SUBMIT", "PUBLISH", "REJECT"}]
Daily == [kind : {"daily"}, owner : Owner, key : Key, strategy : Strategy, date : Dates,
           cut : Cutoffs, config : BOOLEAN]

NothingAsked == [kind |-> "none"]

Init ==
  /\ env \in Environments
  /\ market \in IF "market" \in env THEN Markets ELSE {FirstMarket}
  /\ batch \in {[owner |-> FirstOwner, usable |-> TRUE], [owner |-> FirstOwner, usable |-> FALSE]}
  /\ strategy \in {[s \in Strategy |->
       IF s = Seed
       THEN [NoStrategy EXCEPT !.status = "PUBLISHED", !.version = 1, !.parameters = p]
       ELSE NoStrategy] : p \in StrongParameters}
  /\ run = [c \in Call |-> NoDailyRun]
  /\ call = [c \in Call |->
       [pc |-> "idle", req |-> NothingAsked, number |-> 0, result |-> NoDailyRun.result,
        answer |-> NoRun]]

----------------------------------------------------------------------------
Open(c) == call[c].pc \in {"insert", "update", "computed", "store"}
MayOpen == "overlap" \in env \/ \A d \in Call : ~Open(d)
MayEdit == MayOpen /\ "market" \notin env

Owners == IF "owners" \in env THEN Owner ELSE {FirstOwner}

Refuse(c) == call' = [call EXCEPT ![c].pc = "done"]

\* create_strategy: the number of versions of the code, whoever made them.
Versions(code) == {s \in Strategy : strategy[s].status # "none" /\ strategy[s].code = code}

AskCreate(c) ==
  /\ call[c].pc = "idle" /\ MayEdit
  /\ \E r \in {q \in Create : q.owner \in Owners} :
       IF Valid(r.parameters)
       THEN call' = [call EXCEPT ![c].pc = "insert", ![c].req = r,
                                 ![c].number = Cardinality(Versions(r.code)) + 1]
       ELSE Refuse(c)
  /\ UNCHANGED <<inputs, strategy, run>>

\* uq_strategy_code_version; the IntegrityError rolls the creation back.
NumberUnchecked(r, n) == FALSE
NumberTaken(r, n) == \E s \in Versions(r.code) : strategy[s].version = n

InsertVersion(c) ==
  LET r == call[c].req IN
  /\ call[c].pc = "insert"
  /\ call' = [call EXCEPT ![c].pc = "done"]
  /\ strategy' = IF NumberTaken(r, call[c].number) THEN strategy
                 ELSE [strategy EXCEPT ![c] =
                   [status |-> "DRAFT", code |-> r.code, owner |-> r.owner,
                    version |-> call[c].number, parameters |-> r.parameters]]
  /\ UNCHANGED <<inputs, run>>

\* submit_strategy with allow_reviewer: anybody's version, unless published.
EditableAlways(s) == strategy[s].status # "none"
Editable(s) == strategy[s].status \in {"DRAFT", "PENDING_REVIEW"}

Decided(decision) ==
  CASE decision = "SUBMIT" -> "PENDING_REVIEW"
    [] decision = "PUBLISH" -> "PUBLISHED"
    [] decision = "REJECT" -> "DRAFT"

\* The ORM writes the status only if it differs from the one loaded.
Moves(r) == Editable(r.strategy) /\ strategy[r.strategy].status # Decided(r.decision)

ReviewOpen == \E d \in Call : call[d].pc = "update"

AskReview(c) ==
  /\ call[c].pc = "idle" /\ MayEdit
  /\ ReviewOpen => "reviews" \in env
  /\ \E r \in Review :
       IF Moves(r)
       THEN call' = [call EXCEPT ![c].pc = "update", ![c].req = r]
       ELSE Refuse(c)
  /\ UNCHANGED <<inputs, strategy, run>>

UpdateStatus(c) ==
  LET r == call[c].req IN
  /\ call[c].pc = "update"
  /\ strategy' = [strategy EXCEPT ![r.strategy].status = Decided(r.decision)]
  /\ call' = [call EXCEPT ![c].pc = "done"]
  /\ UNCHANGED <<inputs, run>>

----------------------------------------------------------------------------
(* run_daily_flow.  run_no is made of the owner and the key.               *)

ExistingOnDate(r) ==
  {d \in Call : run[d].stored /\ run[d].owner = r.owner /\ run[d].date = r.date}
Existing(r) ==
  {d \in Call : run[d].stored /\ run[d].owner = r.owner /\ run[d].key = r.key}

Prerequisites(r) ==
  LET s == strategy[r.strategy] IN
  /\ batch.owner = r.owner /\ batch.usable
  /\ s.owner = r.owner /\ s.status = "PUBLISHED"
  /\ s.parameters.type = "STRONG_TREND"
  /\ r.config
  /\ r.cut <= BatchCutoff

\* A visible benchmark bar of the date, and 21 of them.
SnapshotAvailable(r) ==
  /\ Visible(market, Benchmark, r.date, r.date, r.cut)
  /\ Cardinality(VisibleDays(market, Benchmark, r.date, r.cut)) > Long

\* HttpIdempotency: while a key is remembered, its request runs once at a
\* time and comes back unchanged.
KeyAdmitted(r) ==
  "expired" \in env \/
    \A d \in Call : call[d].req.kind = "daily" /\ call[d].req.owner = r.owner /\ call[d].req.key = r.key
      => call[d].req = r /\ ~Open(d)

AskDaily(c) ==
  /\ call[c].pc = "idle" /\ MayOpen
  /\ \E r \in {q \in Daily : q.owner \in Owners} :
       /\ KeyAdmitted(r)
       /\ \/ /\ Existing(r) # {}
             /\ \E d \in Existing(r) :
                  call' = [call EXCEPT ![c].pc = "done", ![c].req = r, ![c].answer = d]
          \/ /\ Existing(r) = {}
             /\ IF /\ Prerequisites(r)
                   /\ SnapshotAvailable(r)
                   /\ ~SurvivorBias(market, r.date)
                THEN call' = [call EXCEPT ![c].pc = "computed", ![c].req = r,
                       ![c].result = Result(market, strategy[r.strategy].parameters, r.date, r.cut)]
                ELSE Refuse(c)
  /\ UNCHANGED <<inputs, strategy, run>>

\* The second transaction looks again.
Recheck(c) ==
  LET r == call[c].req IN
  /\ call[c].pc = "computed"
  /\ \/ /\ Existing(r) = {}
        /\ call' = [call EXCEPT ![c].pc = "store"]
     \/ \E d \in Existing(r) : call' = [call EXCEPT ![c].pc = "done", ![c].answer = d]
  /\ UNCHANGED <<inputs, strategy, run>>

\* uq_signal_snapshot_input: a security has one snapshot per version, batch
\* and date; every security of the pool gets one.
SnapshotUnchecked(r, pool) == FALSE
SnapshotTaken(r, pool) ==
  \E d \in Call : /\ run[d].stored
                  /\ run[d].strategy = r.strategy /\ run[d].date = r.date
                  /\ run[d].result.pool \cap pool # {}

\* The run with its snapshots, plans, ledger and report; or an IntegrityError
\* that nobody turns into an answer.
StoreRun(c) ==
  LET r == call[c].req IN
  /\ call[c].pc = "store"
  /\ IF Existing(r) # {} \/ SnapshotTaken(r, call[c].result.pool)
     THEN call' = [call EXCEPT ![c].pc = "done"] /\ UNCHANGED run
     ELSE /\ run' = [run EXCEPT ![c] =
               [stored |-> TRUE, owner |-> r.owner, key |-> r.key, strategy |-> r.strategy,
                date |-> r.date, cut |-> r.cut, result |-> call[c].result]]
          /\ call' = [call EXCEPT ![c].pc = "done", ![c].answer = c]
  /\ UNCHANGED <<inputs, strategy>>

Finished == (\A c \in Call : call[c].pc = "done") /\ UNCHANGED vars

Next ==
  \/ \E c \in Call :
       \/ AskCreate(c) \/ InsertVersion(c)
       \/ AskReview(c) \/ UpdateStatus(c)
       \/ AskDaily(c) \/ Recheck(c) \/ StoreRun(c)
  \/ Finished

Spec == Init /\ [][Next]_vars

----------------------------------------------------------------------------
Stored == {c \in Call : run[c].stored}
ParametersOf(c) == strategy[run[c].strategy].parameters

\* v1, v2, ...: the versions of a name are numbered without a gap and without
\* a repetition, although the next number is only counted, and by several
\* administrators at once.
VersionsContiguous ==
  \A code \in Code :
    LET all == Versions(code) IN
    {strategy[s].version : s \in all} = 1 .. Cardinality(all)

\* research.py:921, "published strategy versions cannot be edited": a stored
\* run stands on a version that still is published, although the status was
\* read in an earlier transaction.  Two reviews at once can undo a
\* publication: neither has seen the other's.
RunOfPublished ==
  "reviews" \notin env =>
    \A c \in Stored : strategy[run[c].strategy].status = "PUBLISHED"

\* 06-API接口设计.md:87, the daily flow is idempotent: every answer is the
\* run of its own request, and all answers to a key are the same run.  A key
\* that comes back after the HTTP layer forgot it gets the run it had.
AnswerIsOfRequest ==
  \A c \in Call :
    LET d == call[c].answer
        r == call[c].req
    IN
    d # NoRun =>
      /\ run[d].stored /\ run[d].owner = r.owner /\ run[d].key = r.key
      /\ "expired" \notin env =>
           run[d].strategy = r.strategy /\ run[d].date = r.date /\ run[d].cut = r.cut

\* Repeating a day under a new key does not plan its orders twice: no stock
\* is in the plans of two runs of one version and date on one data batch.
\* On another batch it may be: uq_signal_snapshot_input has data_batch_id.
PlansNotDoubled ==
  \A c, d \in Stored :
    /\ c # d
    /\ run[c].strategy = run[d].strategy /\ run[c].date = run[d].date
    => run[c].result.planned \cap run[d].result.planned = {}

\* The market without what came later.
Known(m, t, cut) ==
  [m EXCEPT !.bars = [s \in Security |-> [d \in Day |->
     [m.bars[s][d] EXCEPT
        !.there = @ /\ d <= t /\ m.bars[s][d].at <= cut,
        !.status = IF m.bars[s][d].known <= cut THEN @ ELSE "none"]]]]

\* 02-需求规格说明书.md:90, signals read only data up to the day: bars
\* and status rows that came after the cutoff may as well not exist.
SignalsAreCausal ==
  \A c \in Stored :
    LET r == run[c] IN
    r.result.signals = SelectCandidates(Known(market, r.date, r.cut), ParametersOf(c), r.date, r.cut)

AtLeast(a, b) == ~Greater(b, a)
Dominates(f, a, b) ==
  /\ AtLeast(f[a].week, f[b].week) /\ AtLeast(f[a].month, f[b].month)
  /\ AtLeast(f[a].ratio, f[b].ratio)
  /\ \/ Greater(f[a].week, f[b].week) \/ Greater(f[a].month, f[b].month)
     \/ Greater(f[a].ratio, f[b].ratio)

\* 15-选股策略详细说明书.md:316, the score is made of ranks with ties averaged:
\* of two candidates, one that is at least as good in every measure and
\* better in one is never behind.
SignalsFollowDominance ==
  \A c \in Stored :
    LET r == run[c]
        able == Eligible(market, ParametersOf(c), r.date, r.cut)
        f == [s \in able |-> Measures(market, s, r.date, r.cut)]
        position == [s \in able |->
          IF \E i \in DOMAIN r.result.signals : r.result.signals[i] = s
          THEN CHOOSE i \in DOMAIN r.result.signals : r.result.signals[i] = s
          ELSE Len(r.result.signals) + 1]
    IN \A a, b \in able :
         Dominates(f, a, b) => position[a] < position[b] \/ position[b] > Len(r.result.signals)

Total(m, stocks, t) == SumFunction([s \in stocks |-> Estimate(Bar(m, s, t).close)])

\* The plans of a run cost no more than the day may invest, and no signal was
\* rejected that would still fit next to them.
BudgetIsUsed ==
  \A c \in Stored :
    LET r == run[c]
        spent == Total(market, r.result.planned, r.date)
    IN /\ spent <= Budget
       /\ \A s \in r.result.rejected : spent + Estimate(Bar(market, s, r.date).close) > Budget
============================================================================
