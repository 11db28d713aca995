-------------------------- MODULE DailyFlowProofs --------------------------
(***************************************************************************)
(* What holds of strategy versions and the daily flow for any number of    *)
(* calls, administrators and stocks, every market and every environment.   *)
(*                                                                         *)
(* FlowInv joins the properties of the runs with what makes them           *)
(* inductive: what a call holds while it is open, that a counted version   *)
(* number is never past the next one, that what a result was computed from *)
(* does not change, and that a stored run is the one its call asked for.   *)
(*                                                                         *)
(* What a run stores is computed, so the rest is about that computation:   *)
(* the ranking lists every candidate once and follows the score, the score *)
(* follows the measures, and planning signal after signal (Planning)       *)
(* neither passes the budget nor leaves out what would still fit.          *)
(***************************************************************************)
EXTENDS DailyFlow, SumTheorems

Asked == {NothingAsked} \cup Create \cup Review \cup Daily

Results ==
  {NoDailyRun.result} \cup
  {Result(m, p, t, cut) : m \in Market, p \in Parameters, t \in Dates, cut \in Cutoffs}

StrategyRow ==
  [status : {"none", "DRAFT", "PENDING_REVIEW", "PUBLISHED"}, code : Code, owner : Owner,
   version : Nat, parameters : ValidParameters]
RunRow ==
  [stored : BOOLEAN, owner : Owner, key : Key, strategy : Strategy, date : Nat, cut : Nat,
   result : Results]
CallRow ==
  [pc : {"idle", "insert", "update", "computed", "store", "done"}, req : Asked, number : Nat,
   result : Results, answer : Call \cup {NoRun}]

FlowTypeOK ==
  /\ env \in Environments
  /\ market \in Market
  /\ strategy \in [Strategy -> StrategyRow]
  /\ run \in [Call -> RunRow]
  /\ call \in [Call -> CallRow]

\* What a call holds while it is open, by the kind of its request.
RequestsFit ==
  \A c \in Call :
    LET r == call[c].req IN
    /\ call[c].pc = "idle" => r = NothingAsked
    /\ call[c].pc = "insert" => r \in Create /\ Valid(r.parameters)
    /\ call[c].pc = "update" => r \in Review /\ strategy[r.strategy].status # "none"
    /\ call[c].pc \in {"computed", "store"} => r \in Daily

\* A call has made no version before it inserts one.
Unborn == \A c \in Call : call[c].pc \in {"idle", "insert"} => strategy[c].status = "none"

\* The versions of a code in a strategy table.
VersionsIn(table, code) == {s \in Strategy : table[s].status # "none" /\ table[s].code = code}

Contiguous(table) ==
  \A code \in Code :
    {table[s].version : s \in VersionsIn(table, code)} = 1 .. Cardinality(VersionsIn(table, code))

\* A counted number may be taken by now, but it is never past the next one.
CountsAreCurrent ==
  \A c \in Call :
    call[c].pc = "insert" =>
      call[c].number \in 1 .. (Cardinality(VersionsIn(strategy, call[c].req.code)) + 1)

\* A result that is computed, stored or not, is the one of its inputs, and
\* these have not changed since.
ResultsFollow ==
  \A c \in Call :
    LET r == call[c].req
        a == run[c]
    IN
    /\ call[c].pc \in {"computed", "store"} =>
         /\ strategy[r.strategy].status # "none"
         /\ strategy[r.strategy].parameters.type = "STRONG_TREND"
         /\ call[c].result = Result(market, strategy[r.strategy].parameters, r.date, r.cut)
    /\ a.stored =>
         /\ strategy[a.strategy].status # "none"
         /\ strategy[a.strategy].parameters.type = "STRONG_TREND"
         /\ a.date \in Dates /\ a.cut \in Cutoffs
         /\ a.result = Result(market, strategy[a.strategy].parameters, a.date, a.cut)

\* With one review at a time, nobody is about to edit a published version.
PublishedStays ==
  "reviews" \notin env =>
    /\ \A c \in Call : call[c].pc = "update" => Editable(call[c].req.strategy)
    /\ \A c, d \in Call : call[c].pc = "update" /\ call[d].pc = "update" => c = d
    /\ \A c \in Call :
         call[c].pc \in {"computed", "store"} => strategy[call[c].req.strategy].status = "PUBLISHED"

\* A stored run is the one its call asked for.
RunsAreAsked ==
  \A c \in Stored :
    LET r == call[c].req IN
    /\ call[c].pc = "done" /\ r \in Daily
    /\ run[c].owner = r.owner /\ run[c].key = r.key
    /\ run[c].strategy = r.strategy /\ run[c].date = r.date /\ run[c].cut = r.cut

\* A remembered key names one request.
KeysNameRequests ==
  "expired" \notin env =>
    \A c, d \in Call :
      LET r == call[c].req
          q == call[d].req
      IN r \in Daily /\ q \in Daily /\ r.owner = q.owner /\ r.key = q.key => r = q

\* Only a daily request is answered with a run.
DailyIsAnswered ==
  \A c \in Call : call[c].answer # NoRun => call[c].pc = "done" /\ call[c].req \in Daily

\* Two runs of a version and a date have no stock in common.
PoolsApart ==
  \A c, d \in Stored :
    /\ c # d
    /\ run[c].strategy = run[d].strategy /\ run[c].date = run[d].date
    => run[c].result.pool \cap run[d].result.pool = {}

FlowInv ==
  /\ FlowTypeOK
  /\ RequestsFit
  /\ Unborn
  /\ CountsAreCurrent
  /\ Contiguous(strategy)
  /\ ResultsFollow
  /\ PublishedStays
  /\ RunOfPublished
  /\ RunsAreAsked
  /\ KeysNameRequests
  /\ DailyIsAnswered
  /\ AnswerIsOfRequest
  /\ PoolsApart

----------------------------------------------------------------------------
(* The rows, and what the actions do to them.                              *)

\* The defaults have their types.
LEMMA Defaults ==
  /\ FirstOwner \in Owner /\ FirstCode \in Code /\ FirstKey \in Key
  /\ NoStrategy \in StrategyRow
  /\ NoDailyRun \in RunRow
  /\ NoDailyRun.result \in Results
<1>1. FirstOwner \in Owner /\ FirstCode \in Code /\ FirstKey \in Key
  BY SomeAssumption DEF FirstOwner, FirstCode, FirstKey
<1>2. (CHOOSE p \in StrongParameters : TRUE) \in ValidParameters
  BY ParametersAssumption DEF StrongParameters
<1>3. NoStrategy \in StrategyRow
  BY <1>1, <1>2 DEF NoStrategy, StrategyRow
<1>4. NoDailyRun.result \in Results
  BY DEF Results
<1>5. NoDailyRun \in RunRow
  BY <1>1, <1>4 DEF NoDailyRun, RunRow, Strategy
<1> QED
  BY <1>1, <1>3, <1>4, <1>5

\* Only call c is concerned.
OnlyCall(c) ==
  /\ c \in Call
  /\ call' \in [Call -> CallRow]
  /\ \A d \in Call : d # c => call'[d] = call[d]
  /\ UNCHANGED inputs

\* A refused call is done and keeps the rest.
LEMMA RefuseDoes ==
  ASSUME FlowTypeOK, NEW c \in Call, Refuse(c), UNCHANGED inputs
  PROVE  /\ OnlyCall(c)
         /\ call'[c] = [call[c] EXCEPT !.pc = "done"]
BY DEF FlowTypeOK, Refuse, OnlyCall, CallRow

\* There are finitely many versions.
LEMMA VersionsFinite ==
  ASSUME NEW code
  PROVE  IsFiniteSet(Versions(code)) /\ Cardinality(Versions(code)) \in Nat
<1>1. IsFiniteSet(Strategy)
  BY NameAssumption, FS_AddElement DEF Strategy
<1>2. Versions(code) \in SUBSET Strategy
  BY DEF Versions
<1> QED
  BY <1>1, <1>2, FS_Subset, FS_CardinalityType

\* create_strategy counts the versions of its code.
LEMMA AskCreateDoes ==
  ASSUME FlowTypeOK, NEW c \in Call, AskCreate(c)
  PROVE  /\ OnlyCall(c) /\ UNCHANGED <<strategy, run>>
         /\ call[c].pc = "idle"
         /\ call'[c].answer = call[c].answer
         /\ \/ call'[c].pc = "done" /\ call'[c].req = call[c].req
            \/ /\ call'[c].pc = "insert"
               /\ call'[c].req \in Create /\ Valid(call'[c].req.parameters)
               /\ call'[c].number = Cardinality(Versions(call'[c].req.code)) + 1
<1>1. call \in [Call -> CallRow] /\ call[c].pc = "idle" /\ UNCHANGED <<inputs, strategy, run>>
  BY DEF FlowTypeOK, AskCreate
<1>2. PICK r \in Create :
        IF Valid(r.parameters)
        THEN call' = [call EXCEPT ![c].pc = "insert", ![c].req = r,
                                  ![c].number = Cardinality(Versions(r.code)) + 1]
        ELSE Refuse(c)
  BY DEF AskCreate
<1>3. CASE Valid(r.parameters)
  <2>1. call' = [call EXCEPT ![c].pc = "insert", ![c].req = r,
                             ![c].number = Cardinality(Versions(r.code)) + 1]
    BY <1>2, <1>3
  <2>2. r \in Asked /\ Cardinality(Versions(r.code)) + 1 \in Nat
    BY VersionsFinite DEF Asked
  <2>3. /\ call'[c] = [call[c] EXCEPT !.pc = "insert", !.req = r,
                                      !.number = Cardinality(Versions(r.code)) + 1]
        /\ \A d \in Call : d # c => call'[d] = call[d]
        /\ DOMAIN call' = Call /\ call' = [d \in Call |-> call'[d]]
    BY <1>1, <2>1
  <2>4. /\ call'[c].pc = "insert" /\ call'[c].req = r /\ call'[c].answer = call[c].answer
        /\ call'[c].number = Cardinality(Versions(r.code)) + 1
        /\ call'[c] \in CallRow
    BY <1>1, <2>2, <2>3 DEF CallRow
  <2>5. call' \in [Call -> CallRow]
    BY <1>1, <2>3, <2>4
  <2> QED
    BY <1>1, <1>3, <2>3, <2>4, <2>5 DEF OnlyCall
<1>4. CASE ~Valid(r.parameters)
  <2>1. OnlyCall(c) /\ call'[c] = [call[c] EXCEPT !.pc = "done"]
    BY <1>1, <1>2, <1>4, RefuseDoes
  <2>2. call'[c].pc = "done" /\ call'[c].req = call[c].req /\ call'[c].answer = call[c].answer
    BY <1>1, <2>1 DEF CallRow
  <2> QED
    BY <1>1, <2>1, <2>2
<1> QED
  BY <1>3, <1>4

\* The insertion adds a version, unless the number is taken.
LEMMA InsertVersionDoes ==
  ASSUME FlowTypeOK, RequestsFit, NEW c \in Call, InsertVersion(c)
  PROVE  /\ OnlyCall(c) /\ UNCHANGED run
         /\ call[c].pc = "insert" /\ call'[c] = [call[c] EXCEPT !.pc = "done"]
         /\ strategy' \in [Strategy -> StrategyRow]
         /\ \A s \in Strategy : s # c => strategy'[s] = strategy[s]
         /\ \/ NumberTaken(call[c].req, call[c].number) /\ strategy' = strategy
            \/ /\ ~NumberTaken(call[c].req, call[c].number)
               /\ strategy'[c].status = "DRAFT" /\ strategy'[c].code = call[c].req.code
               /\ strategy'[c].version = call[c].number
<1>1. call[c].pc = "insert" /\ Refuse(c) /\ UNCHANGED <<inputs, run>>
  BY DEF InsertVersion, Refuse
<1>2. OnlyCall(c) /\ call'[c] = [call[c] EXCEPT !.pc = "done"]
  BY <1>1, RefuseDoes
<1>3. strategy \in [Strategy -> StrategyRow] /\ c \in Strategy
  BY DEF FlowTypeOK, Strategy
<1>4. /\ call[c].req.code \in Code /\ call[c].req.owner \in Owner
      /\ call[c].req.parameters \in ValidParameters /\ call[c].number \in Nat
  BY <1>1 DEF RequestsFit, FlowTypeOK, CallRow, Create, ValidParameters
<1>5. CASE NumberTaken(call[c].req, call[c].number)
  BY <1>1, <1>2, <1>3, <1>5 DEF InsertVersion
<1>6. CASE ~NumberTaken(call[c].req, call[c].number)
  <2>1. strategy' = [strategy EXCEPT ![c] =
          [status |-> "DRAFT", code |-> call[c].req.code, owner |-> call[c].req.owner,
           version |-> call[c].number, parameters |-> call[c].req.parameters]]
    BY <1>6 DEF InsertVersion
  <2>2. [status |-> "DRAFT", code |-> call[c].req.code, owner |-> call[c].req.owner,
         version |-> call[c].number, parameters |-> call[c].req.parameters] \in StrategyRow
    BY <1>4 DEF StrategyRow
  <2> QED
    BY <1>1, <1>2, <1>3, <1>6, <2>1, <2>2
<1> QED
  BY <1>5, <1>6

\* submit_strategy reads a version.
LEMMA AskReviewDoes ==
  ASSUME FlowTypeOK, NEW c \in Call, AskReview(c)
  PROVE  /\ OnlyCall(c) /\ UNCHANGED <<strategy, run>>
         /\ call[c].pc = "idle"
         /\ call'[c].answer = call[c].answer
         /\ "reviews" \in env \/ \A d \in Call : call[d].pc # "update"
         /\ \/ call'[c].pc = "done" /\ call'[c].req = call[c].req
            \/ /\ call'[c].pc = "update"
               /\ call'[c].req \in Review /\ Editable(call'[c].req.strategy)
<1>1. /\ call \in [Call -> CallRow] /\ call[c].pc = "idle" /\ UNCHANGED <<inputs, strategy, run>>
      /\ "reviews" \in env \/ \A d \in Call : call[d].pc # "update"
  BY DEF FlowTypeOK, AskReview, ReviewOpen
<1>2. PICK r \in Review :
        IF Moves(r)
        THEN call' = [call EXCEPT ![c].pc = "update", ![c].req = r]
        ELSE Refuse(c)
  BY DEF AskReview
<1>3. CASE Moves(r)
  <2>1. call' = [call EXCEPT ![c].pc = "update", ![c].req = r]
    BY <1>2, <1>3
  <2>2. r \in Asked
    BY DEF Asked
  <2>3. /\ call'[c] = [call[c] EXCEPT !.pc = "update", !.req = r]
        /\ \A d \in Call : d # c => call'[d] = call[d]
        /\ call' = [d \in Call |-> call'[d]]
    BY <1>1, <2>1
  <2>4. /\ call'[c].pc = "update" /\ call'[c].req = r /\ call'[c].answer = call[c].answer
        /\ call'[c] \in CallRow
    BY <1>1, <2>2, <2>3 DEF CallRow
  <2>5. call' \in [Call -> CallRow]
    BY <1>1, <2>3, <2>4
  <2> QED
    BY <1>1, <1>3, <2>3, <2>4, <2>5 DEF OnlyCall, Moves
<1>4. CASE ~Moves(r)
  <2>1. OnlyCall(c) /\ call'[c] = [call[c] EXCEPT !.pc = "done"]
    BY <1>1, <1>2, <1>4, RefuseDoes
  <2>2. call'[c].pc = "done" /\ call'[c].req = call[c].req /\ call'[c].answer = call[c].answer
    BY <1>1, <2>1 DEF CallRow
  <2> QED
    BY <1>1, <2>1, <2>2
<1> QED
  BY <1>3, <1>4

\* The decision is written to the version, whatever its status is by now.
LEMMA UpdateStatusDoes ==
  ASSUME FlowTypeOK, RequestsFit, NEW c \in Call, UpdateStatus(c)
  PROVE  /\ OnlyCall(c) /\ UNCHANGED run
         /\ call[c].pc = "update" /\ call'[c] = [call[c] EXCEPT !.pc = "done"]
         /\ call[c].req \in Review
         /\ strategy' \in [Strategy -> StrategyRow]
         /\ \A s \in Strategy :
              /\ s # call[c].req.strategy => strategy'[s] = strategy[s]
              /\ strategy'[s].status = "none" <=> strategy[s].status = "none"
              /\ strategy'[s].code = strategy[s].code
              /\ strategy'[s].version = strategy[s].version
              /\ strategy'[s].parameters = strategy[s].parameters
<1>1. call[c].pc = "update" /\ Refuse(c) /\ UNCHANGED <<inputs, run>>
  BY DEF UpdateStatus, Refuse
<1>2. OnlyCall(c) /\ call'[c] = [call[c] EXCEPT !.pc = "done"]
  BY <1>1, RefuseDoes
<1>3. strategy \in [Strategy -> StrategyRow]
  BY DEF FlowTypeOK
<1>4. PICK r \in Review : r = call[c].req /\ strategy[r.strategy].status # "none"
  BY <1>1 DEF RequestsFit
<1>5. r.strategy \in Strategy /\ r.decision \in {"SUBMIT", "PUBLISH", "REJECT"}
  BY DEF Review
<1>6. Decided(r.decision) \in {"DRAFT", "PENDING_REVIEW", "PUBLISHED"}
  BY <1>5 DEF Decided
<1>7. strategy' = [strategy EXCEPT ![r.strategy].status = Decided(r.decision)]
  BY <1>4 DEF UpdateStatus
<1>8. /\ strategy'[r.strategy] = [strategy[r.strategy] EXCEPT !.status = Decided(r.decision)]
      /\ \A s \in Strategy : s # r.strategy => strategy'[s] = strategy[s]
      /\ strategy' = [s \in Strategy |-> strategy'[s]]
  BY <1>3, <1>5, <1>7
<1>9. /\ strategy'[r.strategy] \in StrategyRow
      /\ strategy'[r.strategy].status # "none"
      /\ strategy'[r.strategy].code = strategy[r.strategy].code
      /\ strategy'[r.strategy].version = strategy[r.strategy].version
      /\ strategy'[r.strategy].parameters = strategy[r.strategy].parameters
  BY <1>3, <1>5, <1>6, <1>8 DEF StrategyRow
<1>10. strategy' \in [Strategy -> StrategyRow]
  BY <1>3, <1>8, <1>9
<1> QED
  BY <1>1, <1>2, <1>4, <1>8, <1>9, <1>10

\* run_daily_flow answers with the run of the key, or computes a result.
LEMMA AskDailyDoes ==
  ASSUME FlowTypeOK, NEW c \in Call, AskDaily(c)
  PROVE  /\ OnlyCall(c) /\ UNCHANGED <<strategy, run>>
         /\ call[c].pc = "idle"
         /\ \/ /\ call'[c].pc = "done" /\ call'[c].req = call[c].req
               /\ call'[c].answer = call[c].answer
            \/ /\ call'[c].req \in Daily /\ KeyAdmitted(call'[c].req)
               /\ call'[c].pc = "done" /\ call'[c].answer \in Existing(call'[c].req)
            \/ /\ call'[c].req \in Daily /\ KeyAdmitted(call'[c].req)
               /\ call'[c].pc = "computed" /\ call'[c].answer = call[c].answer
               /\ Prerequisites(call'[c].req)
               /\ call'[c].result = Result(market, strategy[call'[c].req.strategy].parameters,
                                           call'[c].req.date, call'[c].req.cut)
<1>1. call \in [Call -> CallRow] /\ call[c].pc = "idle" /\ UNCHANGED <<inputs, strategy, run>>
  BY DEF FlowTypeOK, AskDaily
<1>2. PICK r \in Daily :
        /\ KeyAdmitted(r)
        /\ \/ \E d \in Existing(r) :
                call' = [call EXCEPT ![c].pc = "done", ![c].req = r, ![c].answer = d]
           \/ /\ Prerequisites(r)
              /\ call' = [call EXCEPT ![c].pc = "computed", ![c].req = r,
                   ![c].result = Result(market, strategy[r.strategy].parameters, r.date, r.cut)]
           \/ Refuse(c)
  BY DEF AskDaily
<1>3. r \in Asked
  BY DEF Asked
<1>4. ASSUME NEW d \in Existing(r),
             call' = [call EXCEPT ![c].pc = "done", ![c].req = r, ![c].answer = d]
      PROVE  /\ OnlyCall(c)
             /\ call'[c].req = r /\ call'[c].pc = "done" /\ call'[c].answer \in Existing(r)
  <2>1. d \in Call
    BY DEF Existing
  <2>2. /\ call'[c] = [call[c] EXCEPT !.pc = "done", !.req = r, !.answer = d]
        /\ \A e \in Call : e # c => call'[e] = call[e]
        /\ call' = [e \in Call |-> call'[e]]
    BY <1>1, <1>4
  <2>3. /\ call'[c].pc = "done" /\ call'[c].req = r /\ call'[c].answer = d
        /\ call'[c] \in CallRow
    BY <1>1, <1>3, <2>1, <2>2 DEF CallRow
  <2>4. call' \in [Call -> CallRow]
    BY <1>1, <2>2, <2>3
  <2> QED
    BY <1>1, <2>2, <2>3, <2>4 DEF OnlyCall
<1>5. ASSUME Prerequisites(r),
             call' = [call EXCEPT ![c].pc = "computed", ![c].req = r,
               ![c].result = Result(market, strategy[r.strategy].parameters, r.date, r.cut)]
      PROVE  /\ OnlyCall(c)
             /\ call'[c].req = r /\ call'[c].pc = "computed" /\ call'[c].answer = call[c].answer
             /\ call'[c].result = Result(market, strategy[r.strategy].parameters, r.date, r.cut)
  <2> DEFINE result == Result(market, strategy[r.strategy].parameters, r.date, r.cut)
  <2>1. /\ market \in Market /\ strategy[r.strategy].parameters \in Parameters
        /\ r.date \in Dates /\ r.cut \in Cutoffs
    BY DEF FlowTypeOK, StrategyRow, ValidParameters, Daily
  <2>2. result \in Results
    BY <2>1 DEF Results
  <2> HIDE DEF result
  <2>3. /\ call'[c] = [call[c] EXCEPT !.pc = "computed", !.req = r, !.result = result]
        /\ \A e \in Call : e # c => call'[e] = call[e]
        /\ call' = [e \in Call |-> call'[e]]
    BY <1>1, <1>5 DEF result
  <2>4. /\ call'[c].pc = "computed" /\ call'[c].req = r /\ call'[c].answer = call[c].answer
        /\ call'[c].result = result
        /\ call'[c] \in CallRow
    BY <1>1, <1>3, <2>2, <2>3 DEF CallRow
  <2>5. call' \in [Call -> CallRow]
    BY <1>1, <2>3, <2>4
  <2> QED
    BY <1>1, <2>3, <2>4, <2>5 DEF OnlyCall, result
<1>6. ASSUME Refuse(c)
      PROVE  /\ OnlyCall(c) /\ call'[c].pc = "done"
             /\ call'[c].req = call[c].req /\ call'[c].answer = call[c].answer
  <2>1. OnlyCall(c) /\ call'[c] = [call[c] EXCEPT !.pc = "done"]
    BY <1>1, <1>6, RefuseDoes
  <2> QED
    BY <1>1, <2>1 DEF CallRow
<1> QED
  BY <1>1, <1>2, <1>4, <1>5, <1>6

\* The second transaction looks for a run of the key.
LEMMA RecheckDoes ==
  ASSUME FlowTypeOK, NEW c \in Call, Recheck(c)
  PROVE  /\ OnlyCall(c) /\ UNCHANGED <<strategy, run>>
         /\ call[c].pc = "computed"
         /\ call'[c].req = call[c].req /\ call'[c].result = call[c].result
         /\ \/ call'[c].pc = "store" /\ call'[c].answer = call[c].answer
            \/ call'[c].pc = "done" /\ call'[c].answer \in Existing(call[c].req)
<1>1. call \in [Call -> CallRow] /\ call[c].pc = "computed" /\ UNCHANGED <<inputs, strategy, run>>
  BY DEF FlowTypeOK, Recheck
<1>2. CASE call' = [call EXCEPT ![c].pc = "store"]
  <2>1. /\ call'[c] = [call[c] EXCEPT !.pc = "store"]
        /\ \A e \in Call : e # c => call'[e] = call[e]
        /\ call' = [e \in Call |-> call'[e]]
    BY <1>1, <1>2
  <2>2. /\ call'[c].pc = "store" /\ call'[c].req = call[c].req
        /\ call'[c].answer = call[c].answer /\ call'[c].result = call[c].result
        /\ call'[c] \in CallRow
    BY <1>1, <2>1 DEF CallRow
  <2>3. call' \in [Call -> CallRow]
    BY <1>1, <2>1, <2>2
  <2> QED
    BY <1>1, <2>1, <2>2, <2>3 DEF OnlyCall
<1>3. ASSUME NEW d \in Existing(call[c].req),
             call' = [call EXCEPT ![c].pc = "done", ![c].answer = d]
      PROVE  /\ OnlyCall(c) /\ call'[c].pc = "done" /\ call'[c].answer = d
             /\ call'[c].req = call[c].req /\ call'[c].result = call[c].result
  <2>1. d \in Call
    BY DEF Existing
  <2>2. /\ call'[c] = [call[c] EXCEPT !.pc = "done", !.answer = d]
        /\ \A e \in Call : e # c => call'[e] = call[e]
        /\ call' = [e \in Call |-> call'[e]]
    BY <1>1, <1>3
  <2>3. /\ call'[c].pc = "done" /\ call'[c].req = call[c].req
        /\ call'[c].answer = d /\ call'[c].result = call[c].result
        /\ call'[c] \in CallRow
    BY <1>1, <2>1, <2>2 DEF CallRow
  <2>4. call' \in [Call -> CallRow]
    BY <1>1, <2>2, <2>3
  <2> QED
    BY <1>1, <2>2, <2>3, <2>4 DEF OnlyCall
<1> QED
  BY <1>1, <1>2, <1>3 DEF Recheck

\* The run is stored with the computed result, if no index objects.
LEMMA StoreRunDoes ==
  ASSUME FlowTypeOK, RequestsFit, NEW c \in Call, StoreRun(c)
  PROVE  /\ OnlyCall(c) /\ UNCHANGED strategy
         /\ call[c].pc = "store" /\ call'[c].pc = "done" /\ call'[c].req = call[c].req
         /\ run' \in [Call -> RunRow]
         /\ \A d \in Call : d # c => run'[d] = run[d]
         /\ \/ run' = run /\ call'[c].answer = call[c].answer
            \/ /\ Existing(call[c].req) = {} /\ ~SnapshotTaken(call[c].req, call[c].result.pool)
               /\ call'[c].answer = c
               /\ run'[c] = [stored |-> TRUE, owner |-> call[c].req.owner,
                             key |-> call[c].req.key, strategy |-> call[c].req.strategy,
                             date |-> call[c].req.date, cut |-> call[c].req.cut,
                             result |-> call[c].result]
<1>1. /\ call \in [Call -> CallRow] /\ run \in [Call -> RunRow]
      /\ call[c].pc = "store" /\ UNCHANGED <<inputs, strategy>>
  BY DEF FlowTypeOK, StoreRun
<1>2. CASE Refuse(c) /\ UNCHANGED run
  <2>1. OnlyCall(c) /\ call'[c] = [call[c] EXCEPT !.pc = "done"]
    BY <1>1, <1>2, RefuseDoes
  <2> QED
    BY <1>1, <1>2, <2>1 DEF CallRow
<1>3. CASE ~(Existing(call[c].req) # {} \/ SnapshotTaken(call[c].req, call[c].result.pool))
  <2> DEFINE row == [stored |-> TRUE, owner |-> call[c].req.owner,
                     key |-> call[c].req.key, strategy |-> call[c].req.strategy,
                     date |-> call[c].req.date, cut |-> call[c].req.cut,
                     result |-> call[c].result]
  <2>1. run' = [run EXCEPT ![c] = row] /\ call' = [call EXCEPT ![c].pc = "done", ![c].answer = c]
    BY <1>3 DEF StoreRun
  <2>2. call[c].req \in Daily
    BY <1>1 DEF RequestsFit
  <2>3. /\ call[c].req.owner \in Owner /\ call[c].req.key \in Key
        /\ call[c].req.strategy \in Strategy
        /\ call[c].req.date \in Dates /\ call[c].req.cut \in Cutoffs
    BY <2>2 DEF Daily
  <2>4. /\ call[c].req.date \in Nat /\ call[c].req.cut \in Nat /\ call[c].result \in Results
    BY <1>1, <2>3, DateAssumption, DayAssumption DEF CallRow
  <2>5. row \in RunRow
    BY <2>3, <2>4 DEF RunRow
  <2> HIDE DEF row
  <2>6. run' \in [Call -> RunRow] /\ run'[c] = row /\ \A d \in Call : d # c => run'[d] = run[d]
    BY <1>1, <2>1, <2>5
  <2>7. /\ call'[c] = [call[c] EXCEPT !.pc = "done", !.answer = c]
        /\ \A e \in Call : e # c => call'[e] = call[e]
        /\ call' = [e \in Call |-> call'[e]]
    BY <1>1, <2>1
  <2>8. /\ call'[c].pc = "done" /\ call'[c].req = call[c].req /\ call'[c].answer = c
        /\ call'[c] \in CallRow
    BY <1>1, <2>7 DEF CallRow
  <2>9. call' \in [Call -> CallRow]
    BY <1>1, <2>7, <2>8
  <2> QED
    BY <1>1, <1>3, <2>6, <2>7, <2>8, <2>9 DEF OnlyCall, row
<1> QED
  BY <1>2, <1>3 DEF StoreRun, Refuse

----------------------------------------------------------------------------
(* The invariant.                                                          *)

CallStep(c) ==
  \/ AskCreate(c) \/ InsertVersion(c)
  \/ AskReview(c) \/ UpdateStatus(c)
  \/ AskDaily(c) \/ Recheck(c) \/ StoreRun(c)

\* What a version was made with stays.
VersionsStay ==
  \A s \in Strategy :
    strategy[s].status # "none" =>
      /\ strategy'[s].status # "none"
      /\ strategy'[s].code = strategy[s].code
      /\ strategy'[s].version = strategy[s].version
      /\ strategy'[s].parameters = strategy[s].parameters

\* Steps keep the types and what a version was made with.
LEMMA StepShape ==
  ASSUME FlowTypeOK, RequestsFit, Unborn, NEW c \in Call, CallStep(c)
  PROVE  /\ FlowTypeOK'
         /\ VersionsStay
         /\ OnlyCall(c)
<1>1. CASE AskCreate(c)
  BY <1>1, AskCreateDoes DEF OnlyCall, FlowTypeOK, VersionsStay, inputs
<1>2. CASE InsertVersion(c)
  <2>1. /\ OnlyCall(c) /\ UNCHANGED run /\ call[c].pc = "insert"
        /\ strategy' \in [Strategy -> StrategyRow]
        /\ \A s \in Strategy : s # c => strategy'[s] = strategy[s]
    BY <1>2, InsertVersionDoes
  <2>2. strategy[c].status = "none"
    BY <2>1 DEF Unborn
  <2> QED
    BY <2>1, <2>2 DEF OnlyCall, FlowTypeOK, VersionsStay, inputs
<1>3. CASE AskReview(c)
  BY <1>3, AskReviewDoes DEF OnlyCall, FlowTypeOK, VersionsStay, inputs
<1>4. CASE UpdateStatus(c)
  BY <1>4, UpdateStatusDoes DEF OnlyCall, FlowTypeOK, VersionsStay, inputs
<1>5. CASE AskDaily(c)
  BY <1>5, AskDailyDoes DEF OnlyCall, FlowTypeOK, VersionsStay, inputs
<1>6. CASE Recheck(c)
  BY <1>6, RecheckDoes DEF OnlyCall, FlowTypeOK, VersionsStay, inputs
<1>7. CASE StoreRun(c)
  BY <1>7, StoreRunDoes DEF OnlyCall, FlowTypeOK, VersionsStay, inputs
<1> QED
  BY <1>1, <1>2, <1>3, <1>4, <1>5, <1>6, <1>7 DEF CallStep

\* Open calls keep fitting requests.
LEMMA RequestsFitKept ==
  ASSUME FlowTypeOK, RequestsFit, Unborn, NEW c \in Call, CallStep(c)
  PROVE  RequestsFit'
<1>1. VersionsStay /\ OnlyCall(c) /\ call[c] \in CallRow /\ \A r \in Review : r.strategy \in Strategy
  BY StepShape DEF FlowTypeOK, Review
<1>2. ASSUME NEW d \in Call, d # c
      PROVE  LET r == call'[d].req IN
             /\ call'[d].pc = "idle" => r = NothingAsked
             /\ call'[d].pc = "insert" => r \in Create /\ Valid(r.parameters)
             /\ call'[d].pc = "update" => r \in Review /\ strategy'[r.strategy].status # "none"
             /\ call'[d].pc \in {"computed", "store"} => r \in Daily
  BY <1>1, <1>2 DEF RequestsFit, OnlyCall, VersionsStay
<1>3. LET r == call'[c].req IN
      /\ call'[c].pc = "idle" => r = NothingAsked
      /\ call'[c].pc = "insert" => r \in Create /\ Valid(r.parameters)
      /\ call'[c].pc = "update" => r \in Review /\ strategy'[r.strategy].status # "none"
      /\ call'[c].pc \in {"computed", "store"} => r \in Daily
  <2>1. CASE AskCreate(c)
    BY <2>1, AskCreateDoes
  <2>2. CASE InsertVersion(c) \/ UpdateStatus(c)
    <3>1. call'[c] = [call[c] EXCEPT !.pc = "done"]
      BY <2>2, InsertVersionDoes, UpdateStatusDoes
    <3>2. call'[c].pc = "done"
      BY <1>1, <3>1 DEF CallRow
    <3> QED
      BY <3>2
  <2>3. CASE AskReview(c)
    <3>1. /\ UNCHANGED strategy
          /\ \/ call'[c].pc = "done"
             \/ call'[c].pc = "update" /\ call'[c].req \in Review /\ Editable(call'[c].req.strategy)
      BY <2>3, AskReviewDoes
    <3> QED
      BY <3>1 DEF Editable
  <2>4. CASE AskDaily(c)
    BY <2>4, AskDailyDoes
  <2>5. CASE Recheck(c)
    <3>1. /\ call[c].pc = "computed" /\ call'[c].req = call[c].req
          /\ call'[c].pc = "store" \/ call'[c].pc = "done"
      BY <2>5, RecheckDoes
    <3> QED
      BY <3>1 DEF RequestsFit
  <2>6. CASE StoreRun(c)
    BY <2>6, StoreRunDoes
  <2> QED
    BY <2>1, <2>2, <2>3, <2>4, <2>5, <2>6 DEF CallStep
<1> QED
  BY <1>2, <1>3 DEF RequestsFit

\* A call that has not inserted has no version.
LEMMA UnbornKept ==
  ASSUME FlowTypeOK, RequestsFit, Unborn, NEW c \in Call, CallStep(c)
  PROVE  Unborn'
<1>1. OnlyCall(c) /\ call[c] \in CallRow /\ strategy \in [Strategy -> StrategyRow] /\ Call \subseteq Strategy
  BY StepShape DEF FlowTypeOK, Strategy
<1>2. CASE UNCHANGED strategy
  <2>1. call'[c].pc \in {"idle", "insert"} => call[c].pc = "idle"
    <3>1. CASE AskCreate(c)
      BY <3>1, AskCreateDoes
    <3>2. CASE InsertVersion(c) \/ UpdateStatus(c)
      <4>1. call'[c] = [call[c] EXCEPT !.pc = "done"]
        BY <3>2, InsertVersionDoes, UpdateStatusDoes
      <4> QED
        BY <1>1, <4>1 DEF CallRow
    <3>3. CASE AskReview(c)
      BY <3>3, AskReviewDoes
    <3>4. CASE AskDaily(c)
      BY <3>4, AskDailyDoes
    <3>5. CASE Recheck(c)
      BY <3>5, RecheckDoes
    <3>6. CASE StoreRun(c)
      BY <3>6, StoreRunDoes
    <3> QED
      BY <3>1, <3>2, <3>3, <3>4, <3>5, <3>6 DEF CallStep
  <2> QED
    BY <1>1, <1>2, <2>1 DEF Unborn, OnlyCall
<1>3. CASE InsertVersion(c)
  <2>1. /\ call'[c] = [call[c] EXCEPT !.pc = "done"]
        /\ \A s \in Strategy : s # c => strategy'[s] = strategy[s]
    BY <1>3, InsertVersionDoes
  <2>2. call'[c].pc = "done"
    BY <1>1, <2>1 DEF CallRow
  <2> QED
    BY <1>1, <2>1, <2>2 DEF Unborn, OnlyCall
<1>4. CASE UpdateStatus(c)
  <2>1. /\ call'[c] = [call[c] EXCEPT !.pc = "done"]
        /\ \A s \in Strategy : strategy'[s].status = "none" <=> strategy[s].status = "none"
    BY <1>4, UpdateStatusDoes
  <2>2. call'[c].pc = "done"
    BY <1>1, <2>1 DEF CallRow
  <2> QED
    BY <1>1, <2>1, <2>2 DEF Unborn, OnlyCall
<1> QED
  BY <1>2, <1>3, <1>4, AskCreateDoes, AskReviewDoes, AskDailyDoes, RecheckDoes, StoreRunDoes DEF CallStep

\* The property, and the lookups of the actions, in terms of the table.
LEMMA TableOfVersions ==
  /\ VersionsContiguous <=> Contiguous(strategy)
  /\ \A code : Versions(code) = VersionsIn(strategy, code)
BY DEF VersionsContiguous, Contiguous, Versions, VersionsIn

\* There are finitely many versions in any table.
LEMMA VersionsInFinite ==
  ASSUME NEW table, NEW code
  PROVE  IsFiniteSet(VersionsIn(table, code)) /\ Cardinality(VersionsIn(table, code)) \in Nat
<1>1. IsFiniteSet(Strategy)
  BY NameAssumption, FS_AddElement DEF Strategy
<1>2. VersionsIn(table, code) \in SUBSET Strategy
  BY DEF VersionsIn
<1> QED
  BY <1>1, <1>2, FS_Subset, FS_CardinalityType

\* A version with a number that is free and not past the next one has the
\* next one.
LEMMA NextNumber ==
  ASSUME NEW table, NEW changed, Contiguous(table), NEW c \in Strategy,
         table[c].status = "none", changed[c].status # "none", changed[c].code \in Code,
         \A s \in Strategy : s # c => changed[s] = table[s],
         changed[c].version \in 1 .. (Cardinality(VersionsIn(table, changed[c].code)) + 1),
         \A s \in VersionsIn(table, changed[c].code) : table[s].version # changed[c].version
  PROVE  /\ Contiguous(changed)
         /\ \A code : Cardinality(VersionsIn(table, code)) <= Cardinality(VersionsIn(changed, code))
<1> DEFINE mine == changed[c].code
           n == Cardinality(VersionsIn(table, mine))
<1>1. n \in Nat /\ IsFiniteSet(VersionsIn(table, mine))
  BY VersionsInFinite
<1>2. {table[s].version : s \in VersionsIn(table, mine)} = 1 .. n
  BY DEF Contiguous
<1>3. changed[c].version \notin 1 .. n
  BY <1>2
<1>4. changed[c].version = n + 1
  BY <1>1, <1>3
<1>5. /\ c \notin VersionsIn(table, mine)
      /\ VersionsIn(changed, mine) = VersionsIn(table, mine) \cup {c}
  BY DEF VersionsIn
<1>6. Cardinality(VersionsIn(changed, mine)) = n + 1
  BY <1>1, <1>5, FS_AddElement
<1>7. {changed[s].version : s \in VersionsIn(changed, mine)}
        = {table[s].version : s \in VersionsIn(table, mine)} \cup {changed[c].version}
  <2>1. \A s \in VersionsIn(table, mine) : changed[s] = table[s]
    BY <1>5 DEF VersionsIn
  <2> HIDE DEF mine
  <2> QED
    BY <1>5, <2>1
<1>8. {changed[s].version : s \in VersionsIn(changed, mine)} = 1 .. (n + 1)
  <2> HIDE DEF mine, n
  <2>1. {changed[s].version : s \in VersionsIn(changed, mine)} = (1 .. n) \cup {n + 1}
    BY <1>2, <1>4, <1>7
  <2> QED
    BY <1>1, <2>1
<1>9. ASSUME NEW code, code # mine
      PROVE  /\ VersionsIn(changed, code) = VersionsIn(table, code)
             /\ {changed[s].version : s \in VersionsIn(changed, code)}
                  = {table[s].version : s \in VersionsIn(table, code)}
  BY <1>9 DEF VersionsIn
<1>10. ASSUME NEW code \in Code
       PROVE  {changed[s].version : s \in VersionsIn(changed, code)}
                = 1 .. Cardinality(VersionsIn(changed, code))
  <2>1. CASE code = mine
    BY <2>1, <1>6, <1>8
  <2>2. CASE code # mine
    BY <2>2, <1>9 DEF Contiguous
  <2> QED
    BY <2>1, <2>2
<1>11. ASSUME NEW code
       PROVE  Cardinality(VersionsIn(table, code)) <= Cardinality(VersionsIn(changed, code))
  <2>1. CASE code = mine
    BY <2>1, <1>1, <1>6
  <2>2. CASE code # mine
    BY <2>2, <1>9, VersionsInFinite
  <2> QED
    BY <2>1, <2>2
<1> QED
  BY <1>10, <1>11 DEF Contiguous

\* A table in which versions only change their status has the same numbers.
LEMMA SameNumbers ==
  ASSUME NEW table, NEW changed,
         \A s \in Strategy : /\ changed[s].status = "none" <=> table[s].status = "none"
                             /\ changed[s].code = table[s].code
                             /\ changed[s].version = table[s].version
  PROVE  /\ Contiguous(table) => Contiguous(changed)
         /\ \A code : VersionsIn(table, code) = VersionsIn(changed, code)
<1>1. \A code : VersionsIn(table, code) = VersionsIn(changed, code)
  BY DEF VersionsIn
<1>2. ASSUME NEW code
      PROVE  {table[s].version : s \in VersionsIn(table, code)}
               = {changed[s].version : s \in VersionsIn(changed, code)}
  <2>1. \A s \in VersionsIn(table, code) : changed[s].version = table[s].version
    BY DEF VersionsIn
  <2> QED
    BY <1>1, <2>1
<1> QED
  BY <1>1, <1>2 DEF Contiguous

\* Numbers stay contiguous, and counted ones current.
LEMMA NumbersKept ==
  ASSUME FlowTypeOK, RequestsFit, Unborn, CountsAreCurrent, Contiguous(strategy),
         NEW c \in Call, CallStep(c)
  PROVE  CountsAreCurrent' /\ Contiguous(strategy)'
<1>1. /\ OnlyCall(c) /\ call[c] \in CallRow /\ c \in Strategy
      /\ strategy \in [Strategy -> StrategyRow]
  BY StepShape DEF FlowTypeOK, Strategy
<1>2. /\ \A code : Cardinality(VersionsIn(strategy, code)) \in Nat
      /\ \A code : Cardinality(VersionsIn(strategy', code)) \in Nat
  BY VersionsInFinite
<1>3. call'[c].pc = "insert" =>
        /\ UNCHANGED strategy
        /\ call'[c].number = Cardinality(VersionsIn(strategy, call'[c].req.code)) + 1
  <2>1. CASE AskCreate(c)
    BY <2>1, AskCreateDoes, TableOfVersions
  <2>2. CASE InsertVersion(c) \/ UpdateStatus(c)
    <3>1. call'[c] = [call[c] EXCEPT !.pc = "done"]
      BY <2>2, InsertVersionDoes, UpdateStatusDoes
    <3> QED
      BY <1>1, <3>1 DEF CallRow
  <2>3. CASE AskReview(c)
    BY <2>3, AskReviewDoes
  <2>4. CASE AskDaily(c)
    BY <2>4, AskDailyDoes
  <2>5. CASE Recheck(c)
    BY <2>5, RecheckDoes
  <2>6. CASE StoreRun(c)
    BY <2>6, StoreRunDoes
  <2> QED
    BY <2>1, <2>2, <2>3, <2>4, <2>5, <2>6 DEF CallStep
<1>4. ASSUME Contiguous(strategy'),
             \A code : Cardinality(VersionsIn(strategy, code)) <= Cardinality(VersionsIn(strategy', code))
      PROVE  CountsAreCurrent' /\ Contiguous(strategy)'
  <2>1. ASSUME NEW d \in Call, call'[d].pc = "insert"
        PROVE  call'[d].number \in 1 .. (Cardinality(VersionsIn(strategy', call'[d].req.code)) + 1)
    <3>1. CASE d = c
      BY <2>1, <3>1, <1>2, <1>3
    <3>2. CASE d # c
      <4>1. call'[d] = call[d]
        BY <3>2, <1>1 DEF OnlyCall
      <4>2. call[d].number \in 1 .. (Cardinality(VersionsIn(strategy, call[d].req.code)) + 1)
        BY <4>1, <2>1 DEF CountsAreCurrent
      <4>3. Cardinality(VersionsIn(strategy, call[d].req.code))
              <= Cardinality(VersionsIn(strategy', call[d].req.code))
        BY <1>4
      <4> QED
        BY <1>2, <4>1, <4>2, <4>3
    <3> QED
      BY <3>1, <3>2
  <2> QED
    BY <1>4, <2>1 DEF CountsAreCurrent
<1>5. CASE /\ \A s \in Strategy : /\ strategy'[s].status = "none" <=> strategy[s].status = "none"
                                  /\ strategy'[s].code = strategy[s].code
                                  /\ strategy'[s].version = strategy[s].version
  <2>1. Contiguous(strategy') /\ \A code : VersionsIn(strategy, code) = VersionsIn(strategy', code)
    BY <1>5, SameNumbers
  <2>2. \A code : Cardinality(VersionsIn(strategy, code)) <= Cardinality(VersionsIn(strategy', code))
    BY <1>2, <2>1
  <2> QED
    BY <1>4, <2>1, <2>2
<1>6. CASE /\ InsertVersion(c) /\ ~NumberTaken(call[c].req, call[c].number)
  <2>1. /\ call[c].pc = "insert" /\ strategy' \in [Strategy -> StrategyRow]
        /\ \A s \in Strategy : s # c => strategy'[s] = strategy[s]
    BY <1>6, InsertVersionDoes
  <2>2. \/ strategy' = strategy /\ NumberTaken(call[c].req, call[c].number)
        \/ /\ strategy'[c].status = "DRAFT" /\ strategy'[c].code = call[c].req.code
           /\ strategy'[c].version = call[c].number
    BY <1>6, InsertVersionDoes
  <2>3. strategy[c].status = "none" /\ strategy'[c].code \in Code
    BY <1>1, <2>1 DEF Unborn, StrategyRow
  <2>4. /\ strategy'[c].version \in 1 .. (Cardinality(VersionsIn(strategy, strategy'[c].code)) + 1)
        /\ \A s \in VersionsIn(strategy, strategy'[c].code) : strategy[s].version # strategy'[c].version
    BY <1>6, <2>1, <2>2, TableOfVersions DEF CountsAreCurrent, NumberTaken
  <2>5. strategy'[c].status # "none"
    BY <1>6, <2>2
  <2>6. /\ Contiguous(strategy')
        /\ \A code : Cardinality(VersionsIn(strategy, code)) <= Cardinality(VersionsIn(strategy', code))
    BY <1>1, <2>1, <2>3, <2>4, <2>5, NextNumber
  <2> QED
    BY <1>4, <2>6
<1>7. CASE InsertVersion(c) /\ NumberTaken(call[c].req, call[c].number)
  BY <1>5, <1>7 DEF InsertVersion
<1>8. CASE UpdateStatus(c)
  BY <1>5, <1>8, UpdateStatusDoes
<1>9. CASE UNCHANGED strategy
  BY <1>5, <1>9
<1> QED
  BY <1>6, <1>7, <1>8, <1>9, AskCreateDoes, AskReviewDoes, AskDailyDoes, RecheckDoes, StoreRunDoes
  DEF CallStep

\* What a result was computed from stays.
LEMMA ResultsFollowKept ==
  ASSUME FlowTypeOK, RequestsFit, Unborn, ResultsFollow, NEW c \in Call, CallStep(c)
  PROVE  ResultsFollow'
<1>1. /\ OnlyCall(c) /\ VersionsStay /\ market' = market /\ strategy \in [Strategy -> StrategyRow]
      /\ run \in [Call -> RunRow] /\ call \in [Call -> CallRow]
  BY StepShape DEF FlowTypeOK, OnlyCall, inputs
<1> DEFINE Follows(r, result, table) ==
             /\ table[r.strategy].status # "none"
             /\ table[r.strategy].parameters.type = "STRONG_TREND"
             /\ result = Result(market, table[r.strategy].parameters, r.date, r.cut)
<1>2. ASSUME NEW r, r.strategy \in Strategy, NEW result, Follows(r, result, strategy)
      PROVE  Follows(r, result, strategy')
  BY <1>1, <1>2 DEF VersionsStay
<1>3. \A d \in Call : call[d].pc \in {"computed", "store"}
                        => call[d].req \in Daily /\ Follows(call[d].req, call[d].result, strategy)
  BY DEF ResultsFollow, RequestsFit
<1>4. \A d \in Call : run[d].stored => /\ Follows(run[d], run[d].result, strategy)
                                       /\ run[d].date \in Dates /\ run[d].cut \in Cutoffs
  BY DEF ResultsFollow
<1>5. \A r \in Daily : r.strategy \in Strategy /\ r.date \in Dates /\ r.cut \in Cutoffs
  BY DEF Daily
<1>6. \A d \in Call : run[d].strategy \in Strategy
  BY <1>1 DEF RunRow
<1>7. ASSUME NEW d \in Call, call'[d].pc \in {"computed", "store"}
      PROVE  Follows(call'[d].req, call'[d].result, strategy')
  <2> HIDE DEF Follows
  <2>1. CASE d # c
    BY <1>1, <1>2, <1>3, <1>5, <1>7, <2>1 DEF OnlyCall
  <2>2. CASE d = c /\ AskDaily(c)
    <3>1. /\ call'[c].req \in Daily /\ Prerequisites(call'[c].req) /\ UNCHANGED strategy
          /\ call'[c].result = Result(market, strategy[call'[c].req.strategy].parameters,
                                      call'[c].req.date, call'[c].req.cut)
      BY <1>7, <2>2, AskDailyDoes
    <3> QED
      BY <2>2, <3>1 DEF Follows, Prerequisites
  <2>3. CASE d = c /\ Recheck(c)
    <3>1. /\ call[c].pc = "computed" /\ UNCHANGED strategy
          /\ call'[c].req = call[c].req /\ call'[c].result = call[c].result
      BY <2>3, RecheckDoes
    <3> QED
      BY <1>3, <2>3, <3>1
  <2>4. CASE d = c /\ (InsertVersion(c) \/ UpdateStatus(c))
    <3>1. call'[c] = [call[c] EXCEPT !.pc = "done"]
      BY <2>4, InsertVersionDoes, UpdateStatusDoes
    <3> QED
      BY <1>1, <1>7, <2>4, <3>1 DEF CallRow
  <2>5. CASE d = c /\ AskCreate(c)
    BY <1>7, <2>5, AskCreateDoes
  <2>6. CASE d = c /\ AskReview(c)
    BY <1>7, <2>6, AskReviewDoes
  <2>7. CASE d = c /\ StoreRun(c)
    BY <1>7, <2>7, StoreRunDoes
  <2> QED
    BY <2>1, <2>2, <2>3, <2>4, <2>5, <2>6, <2>7 DEF CallStep
<1>8. ASSUME NEW d \in Call, run'[d].stored
      PROVE  Follows(run'[d], run'[d].result, strategy') /\ run'[d].date \in Dates /\ run'[d].cut \in Cutoffs
  <2> HIDE DEF Follows
  <2>1. CASE run'[d] = run[d]
    BY <1>2, <1>4, <1>6, <1>8, <2>1
  <2>2. CASE d = c /\ StoreRun(c) /\ run' # run
    <3>1. /\ call[c].pc = "store" /\ UNCHANGED strategy
          /\ run'[c] = [stored |-> TRUE, owner |-> call[c].req.owner,
                        key |-> call[c].req.key, strategy |-> call[c].req.strategy,
                        date |-> call[c].req.date, cut |-> call[c].req.cut,
                        result |-> call[c].result]
      BY <2>2, StoreRunDoes
    <3>2. Follows(call[c].req, call[c].result, strategy) /\ call[c].req \in Daily
      BY <1>3, <3>1
    <3> QED
      BY <1>5, <2>2, <3>1, <3>2 DEF Follows
  <2>3. run' = run \/ (StoreRun(c) /\ run' # run)
    BY AskCreateDoes, InsertVersionDoes, AskReviewDoes, UpdateStatusDoes, AskDailyDoes, RecheckDoes
    DEF CallStep
  <2>4. CASE d # c /\ StoreRun(c)
    BY <2>1, <2>4, StoreRunDoes
  <2> QED
    BY <2>1, <2>2, <2>3, <2>4
<1> QED
  BY <1>1, <1>7, <1>8 DEF ResultsFollow

\* Without a second review, a version that is published stays so.
LEMMA PublishedKept ==
  ASSUME FlowTypeOK, RequestsFit, Unborn, ResultsFollow, PublishedStays, RunOfPublished,
         RunsAreAsked, NEW c \in Call, CallStep(c)
  PROVE  PublishedStays' /\ RunOfPublished'
<1> SUFFICES ASSUME "reviews" \notin env PROVE PublishedStays' /\ RunOfPublished'
  BY StepShape DEF PublishedStays, RunOfPublished, OnlyCall, inputs
<1>1. /\ OnlyCall(c) /\ VersionsStay /\ env' = env /\ strategy \in [Strategy -> StrategyRow]
      /\ run \in [Call -> RunRow] /\ call \in [Call -> CallRow]
  BY StepShape DEF FlowTypeOK, OnlyCall, inputs
<1>2. /\ \A d \in Call : call[d].pc = "update" => Editable(call[d].req.strategy)
      /\ \A d, e \in Call : call[d].pc = "update" /\ call[e].pc = "update" => d = e
      /\ \A d \in Call :
           call[d].pc \in {"computed", "store"} => strategy[call[d].req.strategy].status = "PUBLISHED"
      /\ \A d \in Call : run[d].stored => strategy[run[d].strategy].status = "PUBLISHED"
  BY DEF PublishedStays, RunOfPublished, Stored
<1>3. /\ \A r \in Daily \cup Review : r.strategy \in Strategy
      /\ \A d \in Call : run[d].strategy \in Strategy
      /\ \A d \in Call : call[d].pc = "update" => call[d].req \in Review
      /\ \A d \in Call : call[d].pc \in {"computed", "store"} => call[d].req \in Daily
  BY <1>1 DEF RequestsFit, RunRow, Daily, Review
<1>4. \A s \in Strategy : strategy[s].status = "PUBLISHED" => strategy'[s] = strategy[s]
  <2>1. CASE InsertVersion(c)
    BY <2>1, InsertVersionDoes DEF Unborn
  <2>2. CASE UpdateStatus(c)
    <3>1. /\ call[c].pc = "update"
          /\ \A s \in Strategy : s # call[c].req.strategy => strategy'[s] = strategy[s]
      BY <2>2, UpdateStatusDoes
    <3>2. strategy[call[c].req.strategy].status # "PUBLISHED"
      BY <1>2, <3>1 DEF Editable
    <3> QED
      BY <3>1, <3>2
  <2> QED
    BY <2>1, <2>2, AskCreateDoes, AskReviewDoes, AskDailyDoes, RecheckDoes, StoreRunDoes DEF CallStep
<1>5. ASSUME NEW d \in Call, call'[d].pc = "update"
      PROVE  /\ strategy'[call'[d].req.strategy].status \in {"DRAFT", "PENDING_REVIEW"}
             /\ \A e \in Call : call'[e].pc = "update" => d = e
  <2>1. CASE AskReview(c)
    <3>1. /\ UNCHANGED strategy /\ \A e \in Call : call[e].pc # "update"
          /\ call'[c].pc = "update" => Editable(call'[c].req.strategy)
      BY <2>1, AskReviewDoes
    <3>2. \A e \in Call : call'[e].pc = "update" => e = c
      BY <1>1, <3>1 DEF OnlyCall
    <3> QED
      BY <1>5, <3>1, <3>2 DEF Editable
  <2>2. CASE call'[c].pc # "update"
    <3>1. d # c /\ call'[d] = call[d] /\ \A e \in Call : call'[e].pc = "update" => e # c /\ call[e].pc = "update"
      BY <1>1, <1>5, <2>2 DEF OnlyCall
    <3>2. \A e \in Call : call'[e].pc = "update" => d = e
      BY <1>2, <1>5, <3>1
    <3>3. strategy[call[d].req.strategy].status \in {"DRAFT", "PENDING_REVIEW"} /\ call[d].req.strategy \in Strategy
      BY <1>2, <1>3, <1>5, <3>1 DEF Editable
    <3>4. strategy'[call[d].req.strategy] = strategy[call[d].req.strategy]
      <4>1. ~UpdateStatus(c)
        <5> SUFFICES ASSUME UpdateStatus(c) PROVE FALSE
          OBVIOUS
        <5>1. call[c].pc = "update"
          BY UpdateStatusDoes
        <5> QED
          BY <1>2, <1>5, <3>1, <5>1
      <4>2. CASE InsertVersion(c)
        <5>1. call[c].pc = "insert" /\ \A s \in Strategy : s # c => strategy'[s] = strategy[s]
          BY <4>2, InsertVersionDoes
        <5>2. strategy[c].status = "none"
          BY <5>1 DEF Unborn
        <5> QED
          BY <3>3, <5>1, <5>2
      <4> QED
        BY <4>1, <4>2, AskCreateDoes, AskReviewDoes, AskDailyDoes, RecheckDoes, StoreRunDoes DEF CallStep
    <3> QED
      BY <3>1, <3>2, <3>3, <3>4
  <2>3. CASE InsertVersion(c) \/ UpdateStatus(c)
    <3>1. call'[c] = [call[c] EXCEPT !.pc = "done"]
      BY <2>3, InsertVersionDoes, UpdateStatusDoes
    <3>2. call'[c].pc = "done"
      BY <1>1, <3>1 DEF CallRow
    <3> QED
      BY <2>2, <3>2
  <2> QED
    BY <2>1, <2>2, <2>3, AskCreateDoes, AskDailyDoes, RecheckDoes, StoreRunDoes DEF CallStep
<1>6. ASSUME NEW d \in Call, call'[d].pc \in {"computed", "store"}
      PROVE  strategy'[call'[d].req.strategy].status = "PUBLISHED"
  <2>1. CASE call[d].pc \in {"computed", "store"} /\ call'[d].req = call[d].req
    BY <1>2, <1>3, <1>4, <2>1
  <2>2. CASE d = c /\ AskDaily(c)
    <3>1. Prerequisites(call'[c].req) /\ UNCHANGED strategy
      BY <1>6, <2>2, AskDailyDoes
    <3> QED
      BY <2>2, <3>1 DEF Prerequisites
  <2>3. CASE d # c
    BY <1>1, <1>6, <2>1, <2>3 DEF OnlyCall
  <2>4. CASE d = c /\ (InsertVersion(c) \/ UpdateStatus(c))
    <3>1. call'[c] = [call[c] EXCEPT !.pc = "done"]
      BY <2>4, InsertVersionDoes, UpdateStatusDoes
    <3> QED
      BY <1>1, <1>6, <2>4, <3>1 DEF CallRow
  <2>5. CASE d = c /\ (AskCreate(c) \/ AskReview(c))
    BY <1>6, <2>5, AskCreateDoes, AskReviewDoes
  <2>6. CASE d = c /\ (Recheck(c) \/ StoreRun(c))
    BY <1>6, <2>1, <2>6, RecheckDoes, StoreRunDoes
  <2> QED
    BY <2>2, <2>3, <2>4, <2>5, <2>6 DEF CallStep
<1>7. ASSUME NEW d \in Call, run'[d].stored
      PROVE  strategy'[run'[d].strategy].status = "PUBLISHED"
  <2>1. CASE run'[d] = run[d]
    BY <1>2, <1>3, <1>4, <1>7, <2>1
  <2>2. CASE d = c /\ StoreRun(c) /\ run' # run
    <3>1. /\ call[c].pc = "store" /\ UNCHANGED strategy
          /\ run'[c] = [stored |-> TRUE, owner |-> call[c].req.owner,
                        key |-> call[c].req.key, strategy |-> call[c].req.strategy,
                        date |-> call[c].req.date, cut |-> call[c].req.cut,
                        result |-> call[c].result]
      BY <2>2, StoreRunDoes
    <3> QED
      BY <1>2, <2>2, <3>1
  <2>3. run' = run \/ (StoreRun(c) /\ run' # run)
    BY AskCreateDoes, InsertVersionDoes, AskReviewDoes, UpdateStatusDoes, AskDailyDoes, RecheckDoes
    DEF CallStep
  <2>4. CASE d # c /\ StoreRun(c)
    BY <2>1, <2>4, StoreRunDoes
  <2> QED
    BY <2>1, <2>2, <2>3, <2>4
<1> QED
  BY <1>1, <1>5, <1>6, <1>7 DEF PublishedStays, RunOfPublished, Stored, Editable

\* Which runs exist: one is added at most, by the call that stores it.
LEMMA RunsGrow ==
  ASSUME FlowTypeOK, RequestsFit, NEW c \in Call, CallStep(c)
  PROVE  \/ run' = run
         \/ /\ StoreRun(c) /\ \A d \in Call : d # c => run'[d] = run[d]
            /\ call[c].pc = "store" /\ call[c].req \in Daily
            /\ call'[c].pc = "done" /\ call'[c].req = call[c].req
            /\ Existing(call[c].req) = {} /\ ~SnapshotTaken(call[c].req, call[c].result.pool)
            /\ call'[c].answer = c
            /\ run'[c] = [stored |-> TRUE, owner |-> call[c].req.owner,
                          key |-> call[c].req.key, strategy |-> call[c].req.strategy,
                          date |-> call[c].req.date, cut |-> call[c].req.cut,
                          result |-> call[c].result]
<1>1. CASE StoreRun(c)
  <2>1. call[c].pc = "store"
    BY <1>1, StoreRunDoes
  <2>2. call[c].req \in Daily
    BY <2>1 DEF RequestsFit
  <2> QED
    BY <1>1, <2>2, StoreRunDoes
<1> QED
  BY <1>1, AskCreateDoes, InsertVersionDoes, AskReviewDoes, UpdateStatusDoes, AskDailyDoes, RecheckDoes
  DEF CallStep

\* What a step does to the request and the answer of its call: a request is
\* given once, to an idle call, and an answer is the run of the key.
LEMMA AnswersGrow ==
  ASSUME FlowTypeOK, RequestsFit, NEW c \in Call, CallStep(c)
  PROVE  /\ call[c].pc # "done"
         /\ call[c].pc = "idle" \/ call'[c].req = call[c].req
         /\ call'[c].req \in Daily =>
              call'[c].req = call[c].req \/ KeyAdmitted(call'[c].req)
         /\ \/ call'[c].answer = call[c].answer
            \/ /\ call'[c].pc = "done" /\ call'[c].req \in Daily
               /\ \/ run' = run /\ call'[c].answer \in Existing(call'[c].req)
                  \/ /\ call'[c].answer = c /\ run'[c].stored
                     /\ run'[c].owner = call'[c].req.owner /\ run'[c].key = call'[c].req.key
<1>1. call[c] \in CallRow
  BY DEF FlowTypeOK
<1>2. CASE AskCreate(c)
  <2>1. \A r \in Create : r \notin Daily
    BY DEF Create, Daily
  <2> QED
    BY <1>2, <2>1, AskCreateDoes
<1>3. CASE InsertVersion(c) \/ UpdateStatus(c)
  <2>1. call'[c] = [call[c] EXCEPT !.pc = "done"] /\ call[c].pc # "done"
    BY <1>3, InsertVersionDoes, UpdateStatusDoes
  <2>2. call'[c].req = call[c].req /\ call'[c].answer = call[c].answer
    BY <1>1, <2>1 DEF CallRow
  <2> QED
    BY <2>1, <2>2
<1>4. CASE AskReview(c)
  <2>1. \A r \in Review : r \notin Daily
    BY DEF Review, Daily
  <2> QED
    BY <1>4, <2>1, AskReviewDoes
<1>5. CASE AskDaily(c)
  BY <1>5, AskDailyDoes
<1>6. CASE Recheck(c)
  <2>1. call[c].pc = "computed"
    BY <1>6, RecheckDoes
  <2>2. call[c].req \in Daily
    BY <2>1 DEF RequestsFit
  <2> QED
    BY <1>6, <2>2, RecheckDoes
<1>7. CASE StoreRun(c)
  <2>1. call[c].pc = "store"
    BY <1>7, StoreRunDoes
  <2>2. call[c].req \in Daily
    BY <2>1 DEF RequestsFit
  <2>3. call'[c].pc = "done" /\ call'[c].req = call[c].req
    BY <1>7, StoreRunDoes
  <2>4. \/ call'[c].answer = call[c].answer
        \/ /\ call'[c].answer = c
           /\ run'[c] = [stored |-> TRUE, owner |-> call[c].req.owner,
                         key |-> call[c].req.key, strategy |-> call[c].req.strategy,
                         date |-> call[c].req.date, cut |-> call[c].req.cut,
                         result |-> call[c].result]
    BY <1>7, StoreRunDoes
  <2> QED
    BY <2>1, <2>2, <2>3, <2>4
<1> QED
  BY <1>2, <1>3, <1>4, <1>5, <1>6, <1>7 DEF CallStep

\* Stored runs stay the ones that were asked for, and keys keep their requests.
LEMMA AskedKept ==
  ASSUME FlowTypeOK, RequestsFit, Unborn, RunsAreAsked, KeysNameRequests, NEW c \in Call, CallStep(c)
  PROVE  RunsAreAsked' /\ KeysNameRequests'
<1>1. OnlyCall(c) /\ env' = env /\ run \in [Call -> RunRow]
  BY StepShape DEF OnlyCall, inputs, FlowTypeOK
<1>2. ASSUME NEW d \in Call, run'[d].stored
      PROVE  LET r == call'[d].req IN
             /\ call'[d].pc = "done" /\ r \in Daily
             /\ run'[d].owner = r.owner /\ run'[d].key = r.key
             /\ run'[d].strategy = r.strategy /\ run'[d].date = r.date /\ run'[d].cut = r.cut
  <2>1. CASE run'[d] = run[d]
    <3>1. call[d].pc = "done"
      BY <1>2, <2>1 DEF RunsAreAsked, Stored
    <3>2. d # c /\ call'[d] = call[d]
      BY <1>1, <3>1, AnswersGrow DEF OnlyCall
    <3> QED
      BY <1>2, <2>1, <3>2 DEF RunsAreAsked, Stored
  <2>2. CASE run'[d] # run[d]
    <3>1. /\ d = c /\ call'[c].pc = "done" /\ call'[c].req = call[c].req /\ call[c].req \in Daily
          /\ run'[c] = [stored |-> TRUE, owner |-> call[c].req.owner,
                        key |-> call[c].req.key, strategy |-> call[c].req.strategy,
                        date |-> call[c].req.date, cut |-> call[c].req.cut,
                        result |-> call[c].result]
      BY <2>2, RunsGrow
    <3> QED
      BY <3>1
  <2> QED
    BY <2>1, <2>2
<1>3. ASSUME "expired" \notin env, NEW d \in Call, NEW e \in Call,
             call'[d].req \in Daily, call'[e].req \in Daily,
             call'[d].req.owner = call'[e].req.owner, call'[d].req.key = call'[e].req.key
      PROVE  call'[d].req = call'[e].req
  <2>1. ASSUME NEW a \in Call, NEW b \in Call, call[a].req \in Daily, call[b].req \in Daily,
               call[a].req.owner = call[b].req.owner, call[a].req.key = call[b].req.key
        PROVE  call[a].req = call[b].req
    BY <1>3, <2>1 DEF KeysNameRequests
  <2>2. ASSUME NEW r \in Daily, KeyAdmitted(r), NEW a \in Call, call[a].req \in Daily,
               call[a].req.owner = r.owner, call[a].req.key = r.key
        PROVE  call[a].req = r
    <3>1. call[a].req.kind = "daily"
      BY <2>2 DEF Daily
    <3> QED
      BY <1>3, <2>2, <3>1 DEF KeyAdmitted
  <2>3. \A a \in Call : a # c => call'[a].req = call[a].req
    BY <1>1 DEF OnlyCall
  <2>4. call'[c].req \in Daily => call'[c].req = call[c].req \/ KeyAdmitted(call'[c].req)
    BY AnswersGrow
  <2> QED
    BY <1>3, <2>1, <2>2, <2>3, <2>4
<1> QED
  BY <1>1, <1>2, <1>3 DEF RunsAreAsked, KeysNameRequests, Stored

\* Answers stay the runs of their requests.
LEMMA AnswersKept ==
  ASSUME FlowTypeOK, RequestsFit, Unborn, RunsAreAsked, KeysNameRequests, DailyIsAnswered,
         AnswerIsOfRequest, NEW c \in Call, CallStep(c)
  PROVE  DailyIsAnswered' /\ AnswerIsOfRequest'
<1>1. /\ OnlyCall(c) /\ env' = env /\ run \in [Call -> RunRow]
      /\ call \in [Call -> CallRow] /\ call' \in [Call -> CallRow]
  BY StepShape DEF OnlyCall, inputs, FlowTypeOK
<1>2. RunsAreAsked' /\ KeysNameRequests'
  BY AskedKept
<1>3. call[c].answer = NoRun
  BY AnswersGrow DEF DailyIsAnswered
<1>4. \A d \in Call : run[d].stored => run'[d] = run[d]
  <2>1. CASE run' # run
    <3>1. call[c].pc = "store" /\ \A d \in Call : d # c => run'[d] = run[d]
      BY <2>1, RunsGrow
    <3>2. ~run[c].stored
      BY <3>1 DEF RunsAreAsked, Stored
    <3> QED
      BY <3>1, <3>2
  <2> QED
    BY <2>1
<1>5. ASSUME NEW d \in Call, call'[d].answer # NoRun
      PROVE  /\ call'[d].pc = "done" /\ call'[d].req \in Daily
             /\ call'[d].answer \in Call /\ run'[call'[d].answer].stored
             /\ run'[call'[d].answer].owner = call'[d].req.owner
             /\ run'[call'[d].answer].key = call'[d].req.key
  <2>1. call'[d].answer \in Call
    BY <1>1, <1>5 DEF CallRow
  <2>2. CASE d # c
    <3>1. call'[d] = call[d]
      BY <1>1, <2>2 DEF OnlyCall
    <3>2. /\ call[d].pc = "done" /\ call[d].req \in Daily
          /\ run[call[d].answer].stored /\ run[call[d].answer].owner = call[d].req.owner
          /\ run[call[d].answer].key = call[d].req.key
      BY <1>5, <3>1 DEF DailyIsAnswered, AnswerIsOfRequest
    <3> QED
      BY <1>4, <2>1, <3>1, <3>2
  <2>3. CASE d = c
    <3>1. /\ call'[c].pc = "done" /\ call'[c].req \in Daily
          /\ \/ run' = run /\ call'[c].answer \in Existing(call'[c].req)
             \/ /\ call'[c].answer = c /\ run'[c].stored
                /\ run'[c].owner = call'[c].req.owner /\ run'[c].key = call'[c].req.key
      BY <1>3, <1>5, <2>3, AnswersGrow
    <3> QED
      BY <2>1, <2>3, <3>1 DEF Existing
  <2> QED
    BY <2>2, <2>3
<1>6. ASSUME NEW d \in Call, call'[d].answer # NoRun, "expired" \notin env
      PROVE  LET a == call'[d].answer
                 r == call'[d].req
             IN run'[a].strategy = r.strategy /\ run'[a].date = r.date /\ run'[a].cut = r.cut
  <2>1. PICK a \in Call : a = call'[d].answer
    BY <1>5, <1>6
  <2>2. /\ run'[a].stored /\ run'[a].owner = call'[d].req.owner
        /\ run'[a].key = call'[d].req.key /\ call'[d].req \in Daily
    BY <1>5, <1>6, <2>1
  <2>3. /\ call'[a].req \in Daily /\ run'[a].owner = call'[a].req.owner
        /\ run'[a].key = call'[a].req.key
        /\ run'[a].strategy = call'[a].req.strategy /\ run'[a].date = call'[a].req.date
        /\ run'[a].cut = call'[a].req.cut
    BY <1>2, <2>2 DEF RunsAreAsked, Stored
  <2>4. call'[a].req = call'[d].req
    BY <1>1, <1>2, <1>6, <2>2, <2>3 DEF KeysNameRequests
  <2> QED
    BY <2>1, <2>3, <2>4
<1> QED
  BY <1>1, <1>5, <1>6 DEF DailyIsAnswered, AnswerIsOfRequest

\* The index keeps the pools apart.
LEMMA PoolsKept ==
  ASSUME FlowTypeOK, RequestsFit, PoolsApart, NEW c \in Call, CallStep(c)
  PROVE  PoolsApart'
<1>1. CASE run' = run
  BY <1>1 DEF PoolsApart, Stored
<1>2. CASE run' # run
  <2>1. /\ \A d \in Call : d # c => run'[d] = run[d]
        /\ ~SnapshotTaken(call[c].req, call[c].result.pool)
        /\ run'[c] = [stored |-> TRUE, owner |-> call[c].req.owner,
                      key |-> call[c].req.key, strategy |-> call[c].req.strategy,
                      date |-> call[c].req.date, cut |-> call[c].req.cut,
                      result |-> call[c].result]
    BY <1>2, RunsGrow
  <2>2. ASSUME NEW d \in Call, d # c, run'[d].stored,
               run'[c].strategy = run'[d].strategy, run'[c].date = run'[d].date
        PROVE  run'[c].result.pool \cap run'[d].result.pool = {}
    BY <2>1, <2>2 DEF SnapshotTaken
  <2>3. ASSUME NEW d \in Call, NEW e \in Call, d # c, e # c, d # e, run'[d].stored, run'[e].stored,
               run'[d].strategy = run'[e].strategy, run'[d].date = run'[e].date
        PROVE  run'[d].result.pool \cap run'[e].result.pool = {}
    BY <2>1, <2>3 DEF PoolsApart, Stored
  <2>4. ASSUME NEW d \in Stored', NEW e \in Stored', d # e,
               run'[d].strategy = run'[e].strategy, run'[d].date = run'[e].date
        PROVE  run'[d].result.pool \cap run'[e].result.pool = {}
    BY <2>2, <2>3, <2>4 DEF Stored
  <2> QED
    BY <2>4 DEF PoolsApart
<1> QED
  BY <1>1, <1>2

\* The invariant holds in the initial states.
LEMMA FlowInitially ==
  ASSUME Init
  PROVE  FlowInv
<1>1. PICK p \in StrongParameters :
        strategy = [s \in Strategy |->
          IF s = Seed
          THEN [NoStrategy EXCEPT !.status = "PUBLISHED", !.version = 1, !.parameters = p]
          ELSE NoStrategy]
  BY DEF Init
<1>2. [NoStrategy EXCEPT !.status = "PUBLISHED", !.version = 1, !.parameters = p] \in StrategyRow
  BY Defaults DEF StrategyRow, StrongParameters
<1>3. strategy \in [Strategy -> StrategyRow] /\ Seed \in Strategy
  BY <1>1, <1>2, Defaults DEF Strategy
<1>4. \A c \in Call : c \in Strategy /\ strategy[c].status = "none"
  BY <1>1, NameAssumption DEF Strategy, NoStrategy
<1>5. strategy[Seed].status = "PUBLISHED" /\ strategy[Seed].version = 1
  BY <1>1, <1>3 DEF NoStrategy
<1>6. /\ run = [c \in Call |-> NoDailyRun]
      /\ call = [c \in Call |->
           [pc |-> "idle", req |-> NothingAsked, number |-> 0, result |-> NoDailyRun.result,
            answer |-> NoRun]]
  BY DEF Init
<1>7. [pc |-> "idle", req |-> NothingAsked, number |-> 0, result |-> NoDailyRun.result,
       answer |-> NoRun] \in CallRow
  BY Defaults DEF CallRow, Asked
<1>8. FlowTypeOK
  BY <1>3, <1>6, <1>7, Defaults, MarketAssumption DEF FlowTypeOK, Init
<1>9. \A c \in Call : /\ call[c].pc = "idle" /\ call[c].req = NothingAsked
                      /\ call[c].answer = NoRun
  BY <1>6
<1>10. \A c \in Call : ~run[c].stored
  BY <1>6 DEF NoDailyRun
<1>11. NothingAsked \notin Daily
  BY DEF NothingAsked, Daily
<1>12. Contiguous(strategy)
  <2> SUFFICES ASSUME NEW code \in Code
               PROVE  {strategy[s].version : s \in VersionsIn(strategy, code)}
                        = 1 .. Cardinality(VersionsIn(strategy, code))
    BY DEF Contiguous
  <2>1. CASE code = strategy[Seed].code
    <3>1. VersionsIn(strategy, code) = {Seed}
      BY <1>3, <1>4, <1>5, <2>1 DEF VersionsIn, Strategy
    <3>2. Cardinality({Seed}) = 1
      BY FS_Singleton
    <3> QED
      BY <1>5, <3>1, <3>2
  <2>2. CASE code # strategy[Seed].code
    <3>1. VersionsIn(strategy, code) = {}
      BY <1>4, <2>2 DEF VersionsIn, Strategy
    <3> QED
      BY <3>1, FS_EmptySet
  <2> QED
    BY <2>1, <2>2
<1> QED
  BY <1>4, <1>8, <1>9, <1>10, <1>11, <1>12
  DEF FlowInv, RequestsFit, Unborn, CountsAreCurrent, ResultsFollow, PublishedStays,
      RunOfPublished, RunsAreAsked, KeysNameRequests, DailyIsAnswered, AnswerIsOfRequest,
      PoolsApart, Stored

\* The invariant reads only these variables.
LEMMA FlowStutters ==
  ASSUME FlowInv, UNCHANGED vars
  PROVE  FlowInv'
<1> USE DEF vars
<1>1. FlowTypeOK' /\ RequestsFit' /\ Unborn' /\ CountsAreCurrent' /\ Contiguous(strategy)'
  BY DEF FlowInv, FlowTypeOK, RequestsFit, Unborn, CountsAreCurrent
<1>2. ResultsFollow' /\ PoolsApart' /\ RunsAreAsked'
  BY DEF FlowInv, ResultsFollow, PoolsApart, RunsAreAsked, Stored
<1>3. PublishedStays' /\ RunOfPublished'
  BY DEF FlowInv, PublishedStays, RunOfPublished, Stored, Editable
<1>4. KeysNameRequests' /\ DailyIsAnswered' /\ AnswerIsOfRequest'
  BY DEF FlowInv, KeysNameRequests, DailyIsAnswered, AnswerIsOfRequest
<1> QED
  BY <1>1, <1>2, <1>3, <1>4 DEF FlowInv

\* The inductive invariant of versions and daily runs.
THEOREM FlowInvariant == Spec => []FlowInv
<1>1. Init => FlowInv
  BY FlowInitially
<1>2. FlowInv /\ [Next]_vars => FlowInv'
  <2> SUFFICES ASSUME FlowInv, Next \/ UNCHANGED vars PROVE FlowInv'
    OBVIOUS
  <2>1. ASSUME NEW c \in Call, CallStep(c)
        PROVE  FlowInv'
    <3>1. /\ FlowTypeOK /\ RequestsFit /\ Unborn /\ CountsAreCurrent /\ Contiguous(strategy)
          /\ ResultsFollow /\ PublishedStays /\ RunOfPublished /\ RunsAreAsked
          /\ KeysNameRequests /\ DailyIsAnswered /\ AnswerIsOfRequest /\ PoolsApart
      BY DEF FlowInv
    <3>2. FlowTypeOK' /\ RequestsFit' /\ Unborn'
      BY <2>1, <3>1, StepShape, RequestsFitKept, UnbornKept
    <3>3. CountsAreCurrent' /\ Contiguous(strategy)'
      BY <2>1, <3>1, NumbersKept
    <3>4. ResultsFollow' /\ PublishedStays' /\ RunOfPublished'
      BY <2>1, <3>1, ResultsFollowKept, PublishedKept
    <3>5. RunsAreAsked' /\ KeysNameRequests' /\ DailyIsAnswered' /\ AnswerIsOfRequest'
      BY <2>1, <3>1, AskedKept, AnswersKept
    <3>6. PoolsApart'
      BY <2>1, <3>1, PoolsKept
    <3> QED
      BY <3>2, <3>3, <3>4, <3>5, <3>6 DEF FlowInv
  <2>2. CASE UNCHANGED vars
    BY <2>2, FlowStutters
  <2> QED
    BY <2>1, <2>2 DEF Next, Finished, CallStep
<1> QED
  BY <1>1, <1>2, PTL DEF Spec

\* The versions of every name are v1, v2, ... without a gap and without a
\* repetition, however many administrators count at once.
THEOREM NumbersContiguous == Spec => []VersionsContiguous
<1>1. FlowInv => VersionsContiguous
  BY TableOfVersions DEF FlowInv
<1> QED
  BY <1>1, FlowInvariant, PTL

\* A stored run stands on a version that still is published, while reviews
\* come one at a time.
THEOREM RunsOfPublished == Spec => []RunOfPublished
<1>1. FlowInv => RunOfPublished
  BY DEF FlowInv
<1> QED
  BY <1>1, FlowInvariant, PTL

\* Every answer is the stored run of its own request.
THEOREM AnswersAreOfRequests == Spec => []AnswerIsOfRequest
<1>1. FlowInv => AnswerIsOfRequest
  BY DEF FlowInv
<1> QED
  BY <1>1, FlowInvariant, PTL

----------------------------------------------------------------------------
(* Signals read only what was known.                                       *)

\* The bars of a finite set of days can be counted from the last one.
LEMMA BackExists ==
  ASSUME NEW days, days \subseteq Nat, IsFiniteSet(days), NEW k \in 1 .. Cardinality(days)
  PROVE  Back(days, k) \in days
<1> DEFINE n == Cardinality(days)
           From(d) == {e \in days : e >= d}
           place == [d \in days |-> Cardinality(From(d))]
<1>1. n \in Nat
  BY FS_CardinalityType
<1>2. ASSUME NEW d \in days
      PROVE  IsFiniteSet(From(d)) /\ Cardinality(From(d)) \in 1 .. n
  <2>1. From(d) \in SUBSET days /\ d \in From(d)
    BY <1>2
  <2>2. IsFiniteSet(From(d)) /\ Cardinality(From(d)) <= n
    BY <2>1, FS_Subset
  <2>3. Cardinality(From(d)) \in Nat /\ Cardinality(From(d)) # 0
    BY <2>1, <2>2, FS_CardinalityType, FS_EmptySet
  <2> QED
    BY <1>1, <2>2, <2>3
<1>3. ASSUME NEW d \in days, NEW e \in days, place[d] = place[e], d < e
      PROVE  FALSE
  <2>1. From(e) \in SUBSET From(d) /\ From(e) # From(d)
    <3>1. \A x \in days : x \in Nat
      OBVIOUS
    <3>2. d \in From(d) /\ d \notin From(e) /\ \A x \in From(e) : x \in From(d)
      BY <1>3, <3>1
    <3> QED
      BY <3>2
  <2>2. Cardinality(From(d)) = Cardinality(From(e)) => From(d) = From(e)
    BY <1>2, <2>1, FS_Subset
  <2> QED
    BY <1>3, <2>1, <2>2
<1>4. place \in Injection(days, 1 .. n)
  <2>1. place \in [days -> 1 .. n]
    BY <1>2
  <2>2. \A d, e \in days : place[d] = place[e] => d = e
    <3> HIDE DEF place
    <3>1. \A d, e \in days : d \in Nat /\ e \in Nat
      OBVIOUS
    <3> QED
      BY <1>3, <3>1
  <2> HIDE DEF place
  <2> QED
    BY <2>1, <2>2 DEF Injection, IsInjective
<1>5. IsFiniteSet(1 .. n) /\ Cardinality(1 .. n) = n
  BY <1>1, FS_Interval
<1>6. place \in Surjection(days, 1 .. n)
  <2> HIDE DEF place
  <2> QED
    BY <1>4, <1>5, FS_Injection
<1>7. PICK d \in days : place[d] = k
  BY <1>6 DEF Surjection
<1> QED
  BY <1>7 DEF Back

\* What Known keeps of a bar.
LEMMA KnownBars ==
  ASSUME NEW m \in Market, NEW t, NEW cut, NEW s \in Security, NEW d \in Day
  PROVE  /\ Bar(Known(m, t, cut), s, d).close = Bar(m, s, d).close
         /\ Bar(Known(m, t, cut), s, d).amount = Bar(m, s, d).amount
         /\ Bar(Known(m, t, cut), s, d).at = Bar(m, s, d).at
         /\ Bar(Known(m, t, cut), s, d).limit = Bar(m, s, d).limit
         /\ Bar(Known(m, t, cut), s, d).known = Bar(m, s, d).known
         /\ Bar(Known(m, t, cut), s, d).there
              = (Bar(m, s, d).there /\ d <= t /\ Bar(m, s, d).at <= cut)
         /\ Bar(Known(m, t, cut), s, d).status
              = IF Bar(m, s, d).known <= cut THEN Bar(m, s, d).status ELSE "none"
         /\ Known(m, t, cut).listed = m.listed
<1> DEFINE Row(x, e) == [m.bars[x][e] EXCEPT
                           !.there = @ /\ e <= t /\ m.bars[x][e].at <= cut,
                           !.status = IF m.bars[x][e].known <= cut THEN @ ELSE "none"]
           bars == [x \in Security |-> [e \in Day |-> Row(x, e)]]
<1>1. Known(m, t, cut) = [m EXCEPT !.bars = bars]
  BY DEF Known
<1>2. Known(m, t, cut).bars = bars /\ Known(m, t, cut).listed = m.listed
  <2> HIDE DEF bars
  <2> QED
    BY <1>1 DEF Market
<1>3. Bar(Known(m, t, cut), s, d) = Row(s, d)
  <2> HIDE DEF Row
  <2> QED
    BY <1>2 DEF Bar
<1>4. m.bars[s][d] \in BarRow
  BY DEF Market
<1> QED
  BY <1>2, <1>3, <1>4 DEF Bar, BarRow

\* So nothing that was visible disappears, and nothing appears.
LEMMA KnownIsVisible ==
  ASSUME NEW m \in Market, NEW t \in Day, NEW cut
  PROVE  /\ \A s \in Security, d \in Day : Visible(Known(m, t, cut), s, d, t, cut) <=> Visible(m, s, d, t, cut)
         /\ \A s \in Security : VisibleDays(Known(m, t, cut), s, t, cut) = VisibleDays(m, s, t, cut)
         /\ Pool(Known(m, t, cut), t, cut) = Pool(m, t, cut)
<1> DEFINE known == Known(m, t, cut)
<1>1. ASSUME NEW s \in Security, NEW d \in Day
      PROVE  Visible(known, s, d, t, cut) <=> Visible(m, s, d, t, cut)
  BY KnownBars DEF Visible
<1>2. ASSUME NEW s \in Security
      PROVE  VisibleDays(known, s, t, cut) = VisibleDays(m, s, t, cut)
  BY <1>1 DEF VisibleDays
<1>3. ASSUME NEW s \in Security
      PROVE  StatusOn(known, s, t, cut) = StatusOn(m, s, t, cut)
  BY KnownBars DEF StatusOn
<1>4. Stock \subseteq Security /\ known.listed = m.listed
  BY KnownBars, StockAssumption DEF Security
<1>5. Pool(known, t, cut) = Pool(m, t, cut)
  <2> HIDE DEF known
  <2> QED
    BY <1>1, <1>3, <1>4 DEF Pool
<1> QED
  BY <1>1, <1>2, <1>5

\* Sums over days are the same.
LEMMA KnownSums ==
  ASSUME NEW m \in Market, NEW t, NEW cut, NEW s \in Security, NEW days, days \subseteq Day
  PROVE  /\ SumClose(Known(m, t, cut), s, days) = SumClose(m, s, days)
         /\ SumAmount(Known(m, t, cut), s, days) = SumAmount(m, s, days)
<1>1. [d \in days |-> Bar(Known(m, t, cut), s, d).close] = [d \in days |-> Bar(m, s, d).close]
  BY KnownBars
<1>2. [d \in days |-> Bar(Known(m, t, cut), s, d).amount] = [d \in days |-> Bar(m, s, d).amount]
  BY KnownBars
<1> QED
  BY <1>1, <1>2, Zenon DEF SumClose, SumAmount

\* With enough bars the features are the same.
LEMMA KnownMeasures ==
  ASSUME NEW m \in Market, NEW t \in Day, NEW cut, NEW s \in Security,
         Cardinality(VisibleDays(m, s, t, cut)) >= Short + 1,
         Cardinality(VisibleDays(m, s, t, cut)) >= Long + 1
  PROVE  Measures(Known(m, t, cut), s, t, cut) = Measures(m, s, t, cut)
<1> DEFINE known == Known(m, t, cut)
           h == VisibleDays(m, s, t, cut)
<1>1. h \in SUBSET Day /\ VisibleDays(known, s, t, cut) = h
  BY KnownIsVisible DEF VisibleDays
<1>2. IsFiniteSet(h) /\ h \subseteq Nat
  BY <1>1, DayAssumption, FS_Subset
<1>3. Cardinality(h) \in Nat
  BY <1>2, FS_CardinalityType
<1>4. Short + 1 \in 1 .. Cardinality(h) /\ Long + 1 \in 1 .. Cardinality(h)
  BY <1>3, WindowAssumption
<1>5. Back(h, Short + 1) \in h /\ Back(h, Long + 1) \in h
  <2> HIDE DEF h
  <2> QED
    BY <1>2, <1>4, BackExists
<1>6. /\ Bar(known, s, t).close = Bar(m, s, t).close
      /\ Bar(known, s, Back(h, Short + 1)).close = Bar(m, s, Back(h, Short + 1)).close
      /\ Bar(known, s, Back(h, Long + 1)).close = Bar(m, s, Back(h, Long + 1)).close
  BY <1>1, <1>5, KnownBars
<1>7. LastDays(h, Short) \subseteq Day /\ LastDays(h, Long) \subseteq Day
  BY <1>1 DEF LastDays
<1>8. /\ SumAmount(known, s, LastDays(h, Short)) = SumAmount(m, s, LastDays(h, Short))
      /\ SumAmount(known, s, LastDays(h, Long)) = SumAmount(m, s, LastDays(h, Long))
  BY <1>7, KnownSums
<1> HIDE DEF known, h
<1>9. Measures(known, s, t, cut) = Measures(m, s, t, cut)
  BY <1>1, <1>6, <1>8, Zenon DEF Measures, h
<1> QED
  BY <1>9 DEF known

\* The same stocks are candidates.
LEMMA KnownCandidates ==
  ASSUME NEW m \in Market, NEW p, NEW t \in Day, NEW cut, NEW s \in Stock
  PROVE  /\ Candidate(Known(m, t, cut), p, s, t, cut) <=> Candidate(m, p, s, t, cut)
         /\ Candidate(m, p, s, t, cut) => Measures(Known(m, t, cut), s, t, cut) = Measures(m, s, t, cut)
<1> DEFINE known == Known(m, t, cut)
           h == VisibleDays(m, s, t, cut)
           b == VisibleDays(m, Benchmark, t, cut)
<1>1. s \in Security /\ Benchmark \in Security
  BY DEF Security
<1>2. /\ VisibleDays(known, s, t, cut) = h /\ VisibleDays(known, Benchmark, t, cut) = b
      /\ Visible(known, Benchmark, t, t, cut) <=> Visible(m, Benchmark, t, t, cut)
  BY <1>1, KnownIsVisible
<1>3. \A k : LastDays(h, k) \subseteq Day /\ LastDays(b, k) \subseteq Day
  BY DEF LastDays, VisibleDays
<1>4. /\ SumAmount(known, s, LastDays(h, Long)) = SumAmount(m, s, LastDays(h, Long))
      /\ SumClose(known, s, LastDays(h, Mid)) = SumClose(m, s, LastDays(h, Mid))
      /\ SumClose(known, Benchmark, LastDays(b, Long)) = SumClose(m, Benchmark, LastDays(b, Long))
  BY <1>1, <1>3, KnownSums
<1>5. /\ Bar(known, s, t).close = Bar(m, s, t).close
      /\ Bar(known, s, t).limit = Bar(m, s, t).limit
      /\ Bar(known, Benchmark, t).close = Bar(m, Benchmark, t).close
  BY <1>1, KnownBars
<1>6. Whole(m, s, t, cut) => Measures(known, s, t, cut) = Measures(m, s, t, cut)
  BY <1>1, KnownMeasures DEF Whole
<1> HIDE DEF known, h, b
<1>7. Whole(known, s, t, cut) <=> Whole(m, s, t, cut)
  BY <1>2, <1>4 DEF Whole, h, b
<1>8. MarketOpen(known, t, cut) <=> MarketOpen(m, t, cut)
  BY <1>2, <1>4, <1>5 DEF MarketOpen, b
<1>9. AboveMean(known, s, t, cut) <=> AboveMean(m, s, t, cut)
  BY <1>2, <1>4, <1>5 DEF AboveMean, h
<1>10. Candidate(known, p, s, t, cut) <=> Candidate(m, p, s, t, cut)
  BY <1>5, <1>6, <1>7, <1>8, <1>9 DEF Candidate
<1> QED
  BY <1>6, <1>10 DEF Candidate, known

\* Signals do not depend on what was not known.
LEMMA KnownSignals ==
  ASSUME NEW m \in Market, NEW p, NEW t \in Day, NEW cut
  PROVE  SelectCandidates(Known(m, t, cut), p, t, cut) = SelectCandidates(m, p, t, cut)
<1> DEFINE known == Known(m, t, cut)
<1>1. Eligible(known, p, t, cut) = Eligible(m, p, t, cut)
  BY KnownIsVisible, KnownCandidates DEF Eligible, Pool
<1>2. \A s \in Eligible(m, p, t, cut) : Measures(known, s, t, cut) = Measures(m, s, t, cut)
  BY KnownCandidates DEF Eligible, Pool
<1> HIDE DEF known
<1>3. [s \in Eligible(known, p, t, cut) |-> Measures(known, s, t, cut)]
        = [s \in Eligible(m, p, t, cut) |-> Measures(m, s, t, cut)]
  BY <1>1, <1>2
<1>4. RankCandidates(known, p, t, cut) = RankCandidates(m, p, t, cut)
  BY <1>3, Zenon DEF RankCandidates
<1> QED
  BY <1>4, Zenon DEF SelectCandidates, known

\* Bars and status rows that came after the cutoff may as well not exist,
\* for the signals of any stored run.
THEOREM SignalsCausal == Spec => []SignalsAreCausal
<1>1. FlowInv => SignalsAreCausal
  <2> SUFFICES ASSUME FlowInv, NEW c \in Call, run[c].stored
               PROVE  run[c].result.signals =
                        SelectCandidates(Known(market, run[c].date, run[c].cut), ParametersOf(c),
                                         run[c].date, run[c].cut)
    BY DEF SignalsAreCausal, Stored
  <2>1. /\ market \in Market /\ run[c].date \in Day
        /\ run[c].result = Result(market, ParametersOf(c), run[c].date, run[c].cut)
    BY DateAssumption DEF FlowInv, FlowTypeOK, ResultsFollow, ParametersOf
  <2>2. run[c].result.signals = SelectCandidates(market, ParametersOf(c), run[c].date, run[c].cut)
    BY <2>1 DEF Result
  <2> QED
    BY <2>1, <2>2, KnownSignals
<1> QED
  BY <1>1, FlowInvariant, PTL

----------------------------------------------------------------------------
(* Ranked sorts.                                                           *)

\* Scores are whole numbers.
LEMMA ScoreType ==
  ASSUME NEW f, IsFiniteSet(DOMAIN f), NEW s
  PROVE  Score(f, s) \in Int
<1>1. ASSUME NEW values, DOMAIN values = DOMAIN f
      PROVE  Rank(values, s) \in Int
  <2> DEFINE before == {y \in DOMAIN values : Greater(values[y], values[s])}
             ties == {y \in DOMAIN values : Equal(values[y], values[s])}
  <2>1. before \in SUBSET DOMAIN f /\ ties \in SUBSET DOMAIN f
    BY <1>1
  <2>2. IsFiniteSet(before) /\ IsFiniteSet(ties)
    <3> HIDE DEF before, ties
    <3> QED
      BY <2>1, FS_Subset
  <2>3. Cardinality(before) \in Nat /\ Cardinality(ties) \in Nat /\ Cardinality(DOMAIN values) \in Nat
    BY <1>1, <2>2, FS_CardinalityType
  <2> QED
    BY <2>3 DEF Rank
<1> DEFINE week == [x \in DOMAIN f |-> f[x].week]
           month == [x \in DOMAIN f |-> f[x].month]
           ratio == [x \in DOMAIN f |-> f[x].ratio]
<1>2. DOMAIN week = DOMAIN f /\ DOMAIN month = DOMAIN f /\ DOMAIN ratio = DOMAIN f
  OBVIOUS
<1> HIDE DEF week, month, ratio
<1>3. Rank(week, s) \in Int /\ Rank(month, s) \in Int /\ Rank(ratio, s) \in Int
  BY <1>1, <1>2
<1> QED
  BY <1>3 DEF Score, week, month, ratio

\* Of two stocks one is ahead; nobody is ahead of itself; the order is
\* transitive.
LEMMA AheadOrders ==
  ASSUME NEW f, IsFiniteSet(DOMAIN f), DOMAIN f \subseteq Nat
  PROVE  /\ \A a, b \in DOMAIN f : Ahead(f, a, b) \/ Ahead(f, b, a) \/ a = b
         /\ \A a \in DOMAIN f : ~Ahead(f, a, a)
         /\ \A a, b \in DOMAIN f : Ahead(f, a, b) => ~Ahead(f, b, a)
         /\ \A a, b, c \in DOMAIN f : Ahead(f, a, b) /\ Ahead(f, b, c) => Ahead(f, a, c)
<1>1. \A a \in DOMAIN f : Score(f, a) \in Int /\ a \in Nat
  BY ScoreType
<1> QED
  BY <1>1 DEF Ahead

\* There is a sequence in that order, and Ranked is one.
LEMMA RankedSorts ==
  ASSUME NEW f, IsFiniteSet(DOMAIN f), DOMAIN f \subseteq Nat
  PROVE  /\ Ranked(f) \in [1 .. Cardinality(DOMAIN f) -> DOMAIN f]
         /\ \A i, j \in 1 .. Cardinality(DOMAIN f) : i < j => Ahead(f, Ranked(f)[i], Ranked(f)[j])
<1> DEFINE D == DOMAIN f
           n == Cardinality(D)
           Before(x) == {y \in D : Ahead(f, y, x)}
           place == [x \in D |-> Cardinality(Before(x)) + 1]
<1>1. n \in Nat
  BY FS_CardinalityType
<1>2. /\ \A a, b \in D : Ahead(f, a, b) \/ Ahead(f, b, a) \/ a = b
      /\ \A a \in D : ~Ahead(f, a, a)
      /\ \A a, b, c \in D : Ahead(f, a, b) /\ Ahead(f, b, c) => Ahead(f, a, c)
  BY AheadOrders
<1>3. ASSUME NEW x \in D
      PROVE  IsFiniteSet(Before(x)) /\ Cardinality(Before(x)) \in 0 .. (n - 1)
  <2>1. Before(x) \in SUBSET D /\ Before(x) # D
    BY <1>2
  <2>2. /\ IsFiniteSet(Before(x)) /\ Cardinality(Before(x)) <= n
        /\ Cardinality(Before(x)) = n => Before(x) = D
    BY <2>1, FS_Subset
  <2>3. Cardinality(Before(x)) \in Nat
    BY <2>2, FS_CardinalityType
  <2> HIDE DEF Before, n
  <2> QED
    BY <1>1, <2>1, <2>2, <2>3
<1>4. ASSUME NEW a \in D, NEW b \in D, Ahead(f, a, b)
      PROVE  place[a] < place[b]
  <2>1. Before(a) \in SUBSET Before(b)
    BY <1>2, <1>4
  <2>2. a \in Before(b) /\ a \notin Before(a)
    BY <1>2, <1>4
  <2> HIDE DEF Before, n
  <2>3. /\ Cardinality(Before(a)) <= Cardinality(Before(b))
        /\ Cardinality(Before(a)) = Cardinality(Before(b)) => Before(a) = Before(b)
    BY <1>3, <2>1, FS_Subset
  <2>4. Cardinality(Before(a)) < Cardinality(Before(b))
    BY <1>1, <1>3, <2>2, <2>3
  <2> QED
    BY <1>1, <1>3, <2>4
<1>5. place \in [D -> 1 .. n]
  <2>1. \A x \in D : Cardinality(Before(x)) + 1 \in 1 .. n
    <3> HIDE DEF Before, n
    <3> QED
      BY <1>1, <1>3
  <2> QED
    BY <2>1
<1> HIDE DEF place
<1>6. \A a, b \in D : place[a] = place[b] => a = b
  BY <1>2, <1>4, <1>5
<1>7. IsFiniteSet(1 .. n) /\ Cardinality(1 .. n) = n
  BY <1>1, FS_Interval
<1>8. place \in Surjection(D, 1 .. n)
  <2>1. place \in Injection(D, 1 .. n)
    BY <1>5, <1>6 DEF Injection, IsInjective
  <2> QED
    BY <1>7, <2>1, FS_Injection
<1> DEFINE q == [i \in 1 .. n |-> CHOOSE x \in D : place[x] = i]
<1>9. \A i \in 1 .. n : q[i] \in D /\ place[q[i]] = i
  BY <1>8 DEF Surjection
<1>10. q \in [1 .. n -> D] /\ DOMAIN q = 1 .. n
  BY <1>9
<1> HIDE DEF q
<1>11. ASSUME NEW i \in 1 .. n, NEW j \in 1 .. n, i < j
       PROVE  Ahead(f, q[i], q[j])
  <2>1. q[i] \in D /\ q[j] \in D /\ place[q[i]] = i /\ place[q[j]] = j
    BY <1>9
  <2>2. q[i] # q[j]
    BY <1>11, <2>1
  <2>3. ~Ahead(f, q[j], q[i])
    BY <1>4, <1>11, <2>1
  <2> QED
    BY <1>2, <2>1, <2>2, <2>3
<1>12. \E r \in [1 .. n -> D] : \A i, j \in DOMAIN r : i < j => Ahead(f, r[i], r[j])
  BY <1>10, <1>11
<1> QED
  BY <1>12 DEF Ranked

----------------------------------------------------------------------------
(* The signals: the first of the candidates, in that order.                *)
MeasuresOf(m, p, t, cut) == [s \in Eligible(m, p, t, cut) |-> Measures(m, s, t, cut)]

\* Candidates are of the pool, and finitely many.
LEMMA EligibleFinite ==
  ASSUME NEW m, NEW p, NEW t, NEW cut
  PROVE  /\ Eligible(m, p, t, cut) \subseteq Pool(m, t, cut)
         /\ Eligible(m, p, t, cut) \subseteq Stock
         /\ Eligible(m, p, t, cut) \subseteq Nat
         /\ IsFiniteSet(Eligible(m, p, t, cut))
<1>1. Eligible(m, p, t, cut) \subseteq Pool(m, t, cut)
  BY DEF Eligible
<1>2. Eligible(m, p, t, cut) \in SUBSET Stock
  BY <1>1 DEF Pool
<1> QED
  BY <1>1, <1>2, StockAssumption, FS_Subset

\* The signals are a first part of the ranking.
LEMMA SignalsAreFirst ==
  ASSUME NEW m, NEW p, NEW t, NEW cut, p.positions \in Nat, p.perIndustry \in Nat
  PROVE  \E k \in 0 .. Cardinality(Eligible(m, p, t, cut)) :
           SelectCandidates(m, p, t, cut) = [i \in 1 .. k |-> Ranked(MeasuresOf(m, p, t, cut))[i]]
<1> DEFINE D == Eligible(m, p, t, cut)
           n == Cardinality(D)
           q == Ranked(MeasuresOf(m, p, t, cut))
           k == Min({n, p.positions, p.perIndustry})
<1>1. n \in Nat
  BY EligibleFinite, FS_CardinalityType
<1>2. q \in [1 .. n -> D]
  <2>1. DOMAIN MeasuresOf(m, p, t, cut) = D
    BY DEF MeasuresOf
  <2>2. IsFiniteSet(D) /\ D \subseteq Nat
    BY EligibleFinite
  <2> HIDE DEF D
  <2> QED
    BY <2>1, <2>2, RankedSorts
<1>3. RankCandidates(m, p, t, cut) = q
  BY DEF RankCandidates, MeasuresOf
<1> HIDE DEF n, q, D
<1>4. q \in Seq(D) /\ Len(q) = n
  BY <1>1, <1>2
<1>5. k \in 0 .. n
  <2>1. \E x \in {n, p.positions, p.perIndustry} : \A y \in {n, p.positions, p.perIndustry} : x <= y
    BY <1>1
  <2>2. k \in {n, p.positions, p.perIndustry} /\ \A y \in {n, p.positions, p.perIndustry} : k <= y
    BY <2>1 DEF Min
  <2> HIDE DEF k
  <2> QED
    BY <1>1, <2>2
<1>6. SelectCandidates(m, p, t, cut) = SubSeq(q, 1, k)
  BY <1>3, <1>4 DEF SelectCandidates
<1> HIDE DEF k
<1>7. SubSeq(q, 1, k) = [i \in 1 .. k |-> q[i]]
  BY <1>1, <1>2, <1>4, <1>5
<1> QED
  BY <1>5, <1>6, <1>7 DEF n, q, D

\* No candidate is signalled twice.
LEMMA SignalsDistinct ==
  ASSUME NEW m, NEW p, NEW t, NEW cut, p.positions \in Nat, p.perIndustry \in Nat
  PROVE  \E k \in Nat :
           /\ SelectCandidates(m, p, t, cut) \in [1 .. k -> Eligible(m, p, t, cut)]
           /\ \A i, j \in 1 .. k : i < j =>
                /\ SelectCandidates(m, p, t, cut)[i] # SelectCandidates(m, p, t, cut)[j]
                /\ Ahead(MeasuresOf(m, p, t, cut), SelectCandidates(m, p, t, cut)[i],
                         SelectCandidates(m, p, t, cut)[j])
<1> DEFINE D == Eligible(m, p, t, cut)
           n == Cardinality(D)
           f == MeasuresOf(m, p, t, cut)
           signals == SelectCandidates(m, p, t, cut)
<1>1. DOMAIN f = D /\ IsFiniteSet(D) /\ D \subseteq Nat /\ n \in Nat
  BY EligibleFinite, FS_CardinalityType DEF MeasuresOf
<1>2. PICK k \in 0 .. n : signals = [i \in 1 .. k |-> Ranked(f)[i]]
  BY SignalsAreFirst
<1> HIDE DEF D, n, f, signals
<1>3. /\ Ranked(f) \in [1 .. n -> D]
      /\ \A i, j \in 1 .. n : i < j => Ahead(f, Ranked(f)[i], Ranked(f)[j])
  BY <1>1, RankedSorts DEF n
<1>4. \A a \in D : ~Ahead(f, a, a)
  BY <1>1, AheadOrders
<1>5. k \in Nat /\ \A i \in 1 .. k : i \in 1 .. n /\ signals[i] = Ranked(f)[i] /\ signals[i] \in D
  BY <1>1, <1>2, <1>3
<1>6. signals \in [1 .. k -> D]
  BY <1>2, <1>5
<1>7. ASSUME NEW i \in 1 .. k, NEW j \in 1 .. k, i < j
      PROVE  signals[i] # signals[j] /\ Ahead(f, signals[i], signals[j])
  BY <1>3, <1>4, <1>5, <1>7
<1> QED
  BY <1>5, <1>6, <1>7 DEF D, f, signals

----------------------------------------------------------------------------
(* The plans of a sequence of signals, one more signal at a time.          *)
IsPlanned(m, signals, t, family, table) ==
  table = [T \in family |->
    IF T = {} THEN NothingPlanned
    ELSE Plan(table[T \ {Max(T)}], signals[Max(T)], Bar(m, signals[Max(T)], t).close)]
Planned(m, signals, t) == CHOOSE table : IsPlanned(m, signals, t, SUBSET DOMAIN signals, table)
PlansUpTo(m, signals, t, i) == Planned(m, signals, t)[1 .. i]

\* The fold over the signals reads its result off a table.
LEMMA PlansAreOfTable ==
  ASSUME NEW m, NEW signals, NEW t, LaterDays(m, t) # {}
  PROVE  Plans(m, signals, t) = Planned(m, signals, t)[DOMAIN signals]
BY DEF Plans, FoldLeft, MapThenFoldSet, Planned, IsPlanned

PlanRow == [planned : SUBSET Stock, rejected : SUBSET Stock, committed : Nat]

\* What a lot is estimated to cost is a natural number.
LEMMA EstimateType ==
  ASSUME NEW close \in Nat
  PROVE  Estimate(close) \in Nat
<1> DEFINE fee == (Lot * close * CommissionPct) \div 100
           other == (Lot * close * OtherPct) \div 100
<1>1. fee \in Nat /\ other \in Nat /\ MinimumCommission \in Nat /\ Lot * close \in Nat
  BY PlanCostAssumption DEF Lot
<1> HIDE DEF fee, other
<1>2. \E x \in {fee, MinimumCommission} : \A y \in {fee, MinimumCommission} : x >= y
  BY <1>1
<1>3. Max({fee, MinimumCommission}) \in {fee, MinimumCommission}
  BY <1>2 DEF Max
<1> QED
  BY <1>1, <1>3 DEF Estimate, fee, other

\* Planning one signal keeps the accumulator well typed.
LEMMA PlanType ==
  ASSUME NEW acc \in PlanRow, NEW s \in Stock, NEW close \in Nat
  PROVE  Plan(acc, s, close) \in PlanRow
<1>1. Estimate(close) \in Nat /\ acc.committed \in Nat
  BY EstimateType DEF PlanRow
<1>2. acc.committed + Estimate(close) \in Nat
  BY <1>1
<1> QED
  BY <1>2 DEF Plan, PlanRow

\* A non-empty set of positions has its greatest one in it.
LEMMA MaxIsThere ==
  ASSUME NEW n \in Nat, NEW T \in SUBSET (1 .. n), T # {}
  PROVE  Max(T) \in T /\ \A x \in T : x <= Max(T)
<1> DEFINE down == {n - x : x \in T}
<1>1. \A x \in T : x \in Nat /\ n - x \in Nat
  OBVIOUS
<1>2. down \in SUBSET Nat /\ down # {}
  BY <1>1
<1>3. PICK d \in down : \A e \in down : d <= e
  <2> HIDE DEF down
  <2> QED
    BY <1>2, LeastNatural
<1>4. PICK x \in T : d = n - x
  OBVIOUS
<1>5. \A y \in T : n - x <= n - y
  BY <1>3, <1>4
<1>6. \A y \in T : x >= y
  BY <1>1, <1>5
<1>7. Max(T) \in T /\ \A y \in T : Max(T) >= y
  BY <1>6 DEF Max
<1> QED
  BY <1>1, <1>7

\* The steps of the loop over the signals.
LEMMA PlanSteps ==
  ASSUME NEW m \in Market, NEW t \in Day, NEW n \in Nat, NEW signals \in [1 .. n -> Stock]
  PROVE  /\ PlansUpTo(m, signals, t, 0) = NothingPlanned
         /\ \A i \in 1 .. n : PlansUpTo(m, signals, t, i) =
              Plan(PlansUpTo(m, signals, t, i - 1), signals[i], Bar(m, signals[i], t).close)
<1> DEFINE S == 1 .. n
           Close(i) == Bar(m, signals[i], t).close
           pick == [T \in SUBSET S |-> Max(T)]
           step == [x \in S \X PlanRow |-> Plan(x[2], signals[x[1]], Close(x[1]))]
<1>1. \A T \in SUBSET S : T # {} => pick[T] = Max(T) /\ pick[T] \in T /\ pick[T] \in S
  BY MaxIsThere
<1>2. \A i \in S : signals[i] \in Stock /\ Close(i) \in Nat
  BY DEF Bar, Market, BarRow, Security
<1>3. /\ step \in [S \X PlanRow -> PlanRow]
      /\ \A i \in S, v \in PlanRow : step[<<i, v>>] = Plan(v, signals[i], Close(i))
  BY <1>2, PlanType
<1>4. IsFiniteSet(S)
  BY FS_Interval
<1>5. NothingPlanned \in PlanRow
  BY DEF NothingPlanned, PlanRow
<1> HIDE DEF pick, step, S, Close
<1>6. PICK table : IsTable(pick, step, NothingPlanned, SUBSET S, table)
  BY <1>1, <1>4, TableExists
<1>7. table \in [SUBSET S -> PlanRow]
  BY <1>1, <1>3, <1>4, <1>5, <1>6, TableIsTyped
<1>8. ASSUME NEW T \in SUBSET S
      PROVE  table[T] = IF T = {} THEN NothingPlanned
                        ELSE Plan(table[T \ {Max(T)}], signals[Max(T)], Close(Max(T)))
  <2>1. table[T] = IF T = {} THEN NothingPlanned ELSE step[<<pick[T], table[T \ {pick[T]}]>>]
    BY <1>6 DEF IsTable
  <2>2. T # {} => table[T \ {pick[T]}] \in PlanRow
    BY <1>7
  <2> QED
    BY <1>1, <1>3, <2>1, <2>2
<1>9. IsPlanned(m, signals, t, SUBSET S, table) /\ DOMAIN signals = S
  BY <1>7, <1>8 DEF IsPlanned, S, Close
<1> DEFINE chosen == Planned(m, signals, t)
<1>10. IsPlanned(m, signals, t, SUBSET S, chosen)
  BY <1>9 DEF Planned
<1>11. \A T \in SUBSET S :
         chosen[T] = IF T = {} THEN NothingPlanned
                     ELSE Plan(chosen[T \ {Max(T)}], signals[Max(T)], Close(Max(T)))
  BY <1>10 DEF IsPlanned, Close
<1> HIDE DEF chosen
<1>12. chosen[1 .. 0] = NothingPlanned
  <2>1. 1 .. 0 = {}
    OBVIOUS
  <2>2. 1 .. 0 \in SUBSET S
    BY <2>1
  <2> QED
    BY <1>11, <2>1, <2>2
<1>13. ASSUME NEW i \in 1 .. n
       PROVE  chosen[1 .. i] = Plan(chosen[1 .. (i - 1)], signals[i], Close(i))
  <2> DEFINE T == 1 .. i
  <2>1. T \in SUBSET S /\ i \in T
    BY DEF S
  <2>2. Max(T) = i
    <3>1. Max(T) \in T /\ i <= Max(T)
      BY <2>1, MaxIsThere DEF S
    <3> QED
      BY <3>1
  <2>3. T \ {i} = 1 .. (i - 1)
    OBVIOUS
  <2> HIDE DEF T
  <2>4. T # {}
    BY <2>1
  <2> QED
    BY <1>11, <2>1, <2>2, <2>3, <2>4 DEF T
<1> QED
  BY <1>12, <1>13 DEF PlansUpTo, chosen, Close

\* One more stock adds its estimate to the total.
LEMMA TotalAdds ==
  ASSUME NEW m \in Market, NEW t \in Day, NEW stocks \in SUBSET Stock, NEW s \in Stock, s \notin stocks
  PROVE  /\ Total(m, {}, t) = 0
         /\ Total(m, stocks, t) \in Int
         /\ Total(m, stocks \cup {s}, t) = Total(m, stocks, t) + Estimate(Bar(m, s, t).close)
<1> DEFINE F(set) == [x \in set |-> Estimate(Bar(m, x, t).close)]
           more == stocks \cup {s}
<1>1. \A x \in Stock : Bar(m, x, t).close \in Nat
  BY DEF Bar, Market, BarRow, Security
<1>2. \A x \in Stock : Estimate(Bar(m, x, t).close) \in Int
  <2>1. ASSUME NEW x \in Stock PROVE Estimate(Bar(m, x, t).close) \in Nat
    BY <1>1, EstimateType
  <2> QED
    BY <2>1
<1>3. more \in SUBSET Stock /\ {} \in SUBSET Stock
  OBVIOUS
<1>4. ASSUME NEW set \in SUBSET Stock
      PROVE  IsFiniteSet(set) /\ F(set) \in [set -> Int] /\ Total(m, set, t) = SumFunction(F(set))
  <2>1. IsFiniteSet(set)
    BY StockAssumption, FS_Subset
  <2>2. F(set) \in [set -> Int]
    BY <1>2
  <2> QED
    BY <2>1, <2>2 DEF Total
<1> HIDE DEF F
<1>5. SumFunction(F({})) = 0
  BY <1>3, <1>4, SumAdds
<1>6. SumFunction(F(stocks)) \in Int
  BY <1>4, SumAdds
<1>7. \A x \in more : SumFunction(F(more)) = F(more)[x] + SumFunction([y \in more \ {x} |-> F(more)[y]])
  <2> HIDE DEF more
  <2> QED
    BY <1>3, <1>4, SumAdds
<1>8. [y \in more \ {s} |-> F(more)[y]] = F(stocks)
  <2>1. more \ {s} = stocks
    OBVIOUS
  <2> QED
    BY <2>1 DEF F
<1>9. F(more)[s] = Estimate(Bar(m, s, t).close) /\ s \in more
  BY DEF F
<1>10. SumFunction(F(more)) = Estimate(Bar(m, s, t).close) + SumFunction(F(stocks))
  BY <1>7, <1>8, <1>9
<1> QED
  BY <1>2, <1>3, <1>4, <1>5, <1>6, <1>10

\* What the loop over the signals keeps.
Planning(m, signals, t, i, plans) ==
  /\ plans \in PlanRow
  /\ plans.planned \cup plans.rejected \subseteq {signals[j] : j \in 1 .. i}
  /\ plans.committed = Total(m, plans.planned, t)
  /\ plans.committed <= Budget
  /\ \A s \in plans.rejected : plans.committed + Estimate(Bar(m, s, t).close) > Budget

\* Planning the next signal keeps within the budget, and what was rejected
\* before still does not fit.
LEMMA PlanningKept ==
  ASSUME NEW m \in Market, NEW t \in Day, NEW n \in Nat, NEW signals \in [1 .. n -> Stock],
         \A i, j \in 1 .. n : i < j => signals[i] # signals[j],
         NEW i \in 1 .. n, NEW plans, Planning(m, signals, t, i - 1, plans)
  PROVE  Planning(m, signals, t, i, Plan(plans, signals[i], Bar(m, signals[i], t).close))
<1> DEFINE s == signals[i]
           cost == Estimate(Bar(m, s, t).close)
           next == Plan(plans, s, Bar(m, s, t).close)
           At(k) == {signals[j] : j \in 1 .. k}
<1>1. s \in Stock /\ \A x \in Stock : Bar(m, x, t).close \in Nat \ {0}
  BY DEF Bar, Market, BarRow, Security
<1>2. /\ Bar(m, s, t).close \in Nat /\ Bar(m, s, t).close # 0
      /\ \A x \in Stock : Estimate(Bar(m, x, t).close) \in Nat
  BY <1>1, EstimateType
<1>3. s \notin At(i - 1) /\ At(i - 1) \subseteq At(i) /\ s \in At(i)
  OBVIOUS
<1>4. /\ plans \in PlanRow /\ plans.planned \cup plans.rejected \subseteq At(i - 1)
      /\ plans.committed = Total(m, plans.planned, t) /\ plans.committed <= Budget
      /\ \A x \in plans.rejected : plans.committed + Estimate(Bar(m, x, t).close) > Budget
  BY DEF Planning
<1> HIDE DEF At, s
<1>5. plans.planned \in SUBSET Stock /\ plans.rejected \in SUBSET Stock /\ plans.committed \in Nat
  BY <1>4 DEF PlanRow
<1>6. s \notin plans.planned
  BY <1>3, <1>4
<1>7. next \in PlanRow
  BY <1>1, <1>2, <1>4, PlanType
<1>8. CASE plans.committed + cost > Budget
  <2>1. next = [plans EXCEPT !.rejected = @ \cup {s}]
    BY <1>2, <1>8 DEF Plan
  <2>2. /\ next.planned = plans.planned /\ next.rejected = plans.rejected \cup {s}
        /\ next.committed = plans.committed
    BY <1>4, <2>1 DEF PlanRow
  <2> HIDE DEF next
  <2>3. \A x \in next.rejected : next.committed + Estimate(Bar(m, x, t).close) > Budget
    BY <1>4, <1>8, <2>2
  <2>4. next.planned \cup next.rejected \subseteq At(i)
    BY <1>3, <1>4, <2>2
  <2> QED
    BY <1>4, <1>7, <2>2, <2>3, <2>4 DEF Planning, At, next, s
<1>9. CASE ~(plans.committed + cost > Budget)
  <2>1. next = [plans EXCEPT !.planned = @ \cup {s}, !.committed = @ + cost]
    BY <1>2, <1>9 DEF Plan
  <2>2. /\ next.planned = plans.planned \cup {s} /\ next.rejected = plans.rejected
        /\ next.committed = plans.committed + cost
    BY <1>4, <2>1 DEF PlanRow
  <2> HIDE DEF next
  <2>3. Total(m, next.planned, t) = next.committed
    <3>1. Total(m, plans.planned \cup {s}, t) = Total(m, plans.planned, t) + cost
      BY <1>1, <1>5, <1>6, TotalAdds
    <3> HIDE DEF cost
    <3> QED
      BY <1>4, <2>2, <3>1
  <2>4. next.committed <= Budget
    <3>1. cost \in Nat
      BY <1>1, <1>2
    <3> HIDE DEF cost
    <3> QED
      BY <1>5, <1>9, <2>2, <3>1, PlanCostAssumption
  <2>5. \A x \in next.rejected : next.committed + Estimate(Bar(m, x, t).close) > Budget
    <3> SUFFICES ASSUME NEW x \in plans.rejected
                 PROVE  (plans.committed + cost) + Estimate(Bar(m, x, t).close) > Budget
      BY <2>2
    <3>1. plans.committed + Estimate(Bar(m, x, t).close) > Budget /\ x \in Stock
      BY <1>4, <1>5
    <3>2. Estimate(Bar(m, x, t).close) \in Nat /\ cost \in Nat
      BY <1>1, <1>2, <3>1
    <3> HIDE DEF cost
    <3> QED
      BY <1>5, <3>1, <3>2, PlanCostAssumption
  <2>6. next.planned \cup next.rejected \subseteq At(i)
    BY <1>3, <1>4, <2>2
  <2> QED
    BY <1>7, <2>3, <2>4, <2>5, <2>6 DEF Planning, At, next, s
<1> QED
  BY <1>8, <1>9

\* So it holds of the plans of all signals.
LEMMA PlansKeepBudget ==
  ASSUME NEW m \in Market, NEW t \in Day, NEW n \in Nat, NEW signals \in [1 .. n -> Stock],
         \A i, j \in 1 .. n : i < j => signals[i] # signals[j]
  PROVE  Planning(m, signals, t, n, Plans(m, signals, t))
<1> DEFINE After(i) == PlansUpTo(m, signals, t, i)
           bad == {i \in 0 .. n : ~Planning(m, signals, t, i, After(i))}
<1>1. Planning(m, signals, t, 0, NothingPlanned)
  <2>1. Total(m, {}, t) = 0
    <3>1. Total(m, {}, t) = SumFunction([x \in {} |-> Estimate(Bar(m, x, t).close)])
      BY DEF Total
    <3>2. [x \in {} |-> Estimate(Bar(m, x, t).close)] \in [{} -> Int] /\ IsFiniteSet({})
      BY FS_EmptySet
    <3> QED
      BY <3>1, <3>2, SumAdds
  <2> QED
    BY <2>1, PlanCostAssumption DEF Planning, NothingPlanned, PlanRow
<1>2. /\ After(0) = NothingPlanned
      /\ \A i \in 1 .. n : After(i) = Plan(After(i - 1), signals[i], Bar(m, signals[i], t).close)
  BY PlanSteps
<1> HIDE DEF After
<1>3. \A i \in 0 .. n : Planning(m, signals, t, i, After(i))
  <2> SUFFICES ASSUME bad # {} PROVE FALSE
    OBVIOUS
  <2>1. PICK i \in bad : \A k \in bad : i <= k
    <3>1. bad \in SUBSET Nat
      OBVIOUS
    <3> HIDE DEF bad
    <3> QED
      BY <3>1, LeastNatural
  <2>2. i \in 0 .. n /\ ~Planning(m, signals, t, i, After(i))
    BY <2>1
  <2>3. i \in 1 .. n
    BY <1>1, <1>2, <2>2
  <2>4. Planning(m, signals, t, i - 1, After(i - 1))
    <3>1. i - 1 \in 0 .. n /\ ~(i <= i - 1)
      BY <2>3
    <3>2. i - 1 \notin bad
      <4> HIDE DEF bad
      <4> QED
        BY <2>1, <3>1
    <3> QED
      BY <3>1, <3>2
  <2> HIDE DEF bad
  <2>5. Planning(m, signals, t, i, After(i))
    BY <1>2, <2>3, <2>4, PlanningKept
  <2> QED
    BY <2>2, <2>5
<1>4. LaterDays(m, t) # {} => Plans(m, signals, t) = After(n)
  BY PlansAreOfTable DEF After, PlansUpTo
<1>5. LaterDays(m, t) = {} => Plans(m, signals, t) = NothingPlanned
  BY DEF Plans
<1>6. CASE LaterDays(m, t) # {}
  BY <1>3, <1>4, <1>6
<1>7. CASE LaterDays(m, t) = {}
  <2>1. Planning(m, signals, t, n, NothingPlanned)
    BY <1>1 DEF Planning, NothingPlanned
  <2> QED
    BY <1>5, <1>7, <2>1
<1> QED
  BY <1>6, <1>7

\* What a stored run consists of.
LEMMA StoredRun ==
  ASSUME FlowInv, NEW c \in Call, run[c].stored
  PROVE  /\ market \in Market /\ run[c].date \in Day
         /\ ParametersOf(c).positions \in Nat /\ ParametersOf(c).perIndustry \in Nat
         /\ run[c].result.pool = Pool(market, run[c].date, run[c].cut)
         /\ run[c].result.signals = SelectCandidates(market, ParametersOf(c), run[c].date, run[c].cut)
         /\ \E n \in Nat :
              /\ run[c].result.signals \in [1 .. n -> run[c].result.pool \cap Stock]
              /\ \E plans :
                   /\ run[c].result.planned = plans.planned
                   /\ run[c].result.rejected = plans.rejected
                   /\ Planning(market, run[c].result.signals, run[c].date, n, plans)
<1> DEFINE p == ParametersOf(c)
           t == run[c].date
           cut == run[c].cut
           result == run[c].result
           signals == SelectCandidates(market, p, t, cut)
           plans == Plans(market, signals, t)
<1>1. /\ market \in Market /\ t \in Day
      /\ run[c].strategy \in Strategy /\ strategy \in [Strategy -> StrategyRow]
      /\ p.type = "STRONG_TREND" /\ result = Result(market, p, t, cut)
  BY DateAssumption DEF FlowInv, FlowTypeOK, ResultsFollow, RunRow, ParametersOf
<1>2. p \in StrongParameters
  BY <1>1 DEF ParametersOf, StrategyRow, StrongParameters
<1>3. p.positions \in Nat /\ p.perIndustry \in Nat
  BY <1>2, ParametersAssumption
<1>4. /\ result.pool = Pool(market, t, cut) /\ result.signals = signals
      /\ result.planned = plans.planned /\ result.rejected = plans.rejected
  BY <1>1 DEF Result
<1> HIDE DEF p, t, cut, result
<1>5. PICK n \in Nat : /\ signals \in [1 .. n -> Eligible(market, p, t, cut)]
                       /\ \A i, j \in 1 .. n : i < j => signals[i] # signals[j]
  BY <1>3, SignalsDistinct
<1> HIDE DEF signals
<1>6. signals \in [1 .. n -> Stock] /\ signals \in [1 .. n -> result.pool \cap Stock]
  BY <1>4, <1>5, EligibleFinite
<1>7. Planning(market, signals, t, n, plans)
  BY <1>1, <1>5, <1>6, PlansKeepBudget
<1> HIDE DEF plans
<1>8. \E k \in Nat :
        /\ result.signals \in [1 .. k -> result.pool \cap Stock]
        /\ \E x : /\ result.planned = x.planned /\ result.rejected = x.rejected
                  /\ Planning(market, result.signals, t, k, x)
  BY <1>4, <1>6, <1>7
<1> QED
  BY <1>1, <1>3, <1>4, <1>8 DEF p, t, cut, result, signals

\* Repeating a day under a new key plans no stock of it twice on one data
\* batch: planned stocks are of the pool, and uq_signal_snapshot_input keeps
\* pools apart.
THEOREM NoPlanTwice == Spec => []PlansNotDoubled
<1>1. ASSUME FlowInv, NEW c \in Call, run[c].stored
      PROVE  run[c].result.planned \subseteq run[c].result.pool
  <2>1. PICK n \in Nat :
          /\ run[c].result.signals \in [1 .. n -> run[c].result.pool \cap Stock]
          /\ \E plans : /\ run[c].result.planned = plans.planned
                        /\ Planning(market, run[c].result.signals, run[c].date, n, plans)
    BY <1>1, StoredRun
  <2>2. PICK plans : /\ run[c].result.planned = plans.planned
                     /\ Planning(market, run[c].result.signals, run[c].date, n, plans)
    BY <2>1
  <2> QED
    BY <2>1, <2>2 DEF Planning
<1>2. FlowInv => PlansNotDoubled
  <2> SUFFICES ASSUME FlowInv, NEW c \in Stored, NEW d \in Stored, c # d,
                      run[c].strategy = run[d].strategy, run[c].date = run[d].date
               PROVE  run[c].result.planned \cap run[d].result.planned = {}
    BY DEF PlansNotDoubled
  <2>1. run[c].result.pool \cap run[d].result.pool = {}
    BY DEF FlowInv, PoolsApart
  <2>2. /\ run[c].result.planned \subseteq run[c].result.pool
        /\ run[d].result.planned \subseteq run[d].result.pool
    BY <1>1 DEF Stored
  <2> QED
    BY <2>1, <2>2
<1> QED
  BY <1>2, FlowInvariant, PTL

\* The plans of every stored run cost no more than the day may invest, and no
\* rejected signal would still fit next to them.
THEOREM BudgetUsed == Spec => []BudgetIsUsed
<1>1. ASSUME FlowInv, NEW c \in Stored
      PROVE  /\ Total(market, run[c].result.planned, run[c].date) <= Budget
             /\ \A s \in run[c].result.rejected :
                  Total(market, run[c].result.planned, run[c].date)
                    + Estimate(Bar(market, s, run[c].date).close) > Budget
  <2>1. \E n \in Nat : \E plans :
          /\ run[c].result.planned = plans.planned /\ run[c].result.rejected = plans.rejected
          /\ Planning(market, run[c].result.signals, run[c].date, n, plans)
    BY <1>1, StoredRun DEF Stored
  <2> QED
    BY <2>1 DEF Planning
<1>2. FlowInv => BudgetIsUsed
  BY <1>1 DEF BudgetIsUsed
<1> QED
  BY <1>2, FlowInvariant, PTL

----------------------------------------------------------------------------
(* Ratios with positive denominators are ordered, and ranks follow them.   *)
Ratio == Nat \X (Nat \ {0})

\* Multiplying by a positive factor keeps an order.
LEMMA ProductsOrder ==
  ASSUME NEW x \in Nat, NEW y \in Nat, NEW k \in Nat \ {0}
  PROVE  /\ x <= y => k * x <= k * y
         /\ x < y => k * x < k * y
         /\ k * x < k * y => x < y
         /\ k * x <= k * y => x <= y
  OBVIOUS

\* Cross multiplication orders ratios as numbers are ordered.
LEMMA RatiosOrder ==
  ASSUME NEW a \in Ratio, NEW b \in Ratio, NEW c \in Ratio
  PROVE  /\ Greater(a, b) \/ Greater(b, a) \/ Equal(a, b)
         /\ ~(Greater(a, b) /\ Greater(b, a)) /\ ~(Greater(a, b) /\ Equal(a, b))
         /\ Equal(a, b) <=> Equal(b, a)
         /\ AtLeast(a, b) /\ Greater(b, c) => Greater(a, c)
         /\ Greater(a, b) /\ AtLeast(b, c) => Greater(a, c)
<1>1. PICK x \in Nat, p \in Nat \ {0} : a = <<x, p>>
  BY DEF Ratio
<1>2. PICK y \in Nat, q \in Nat \ {0} : b = <<y, q>>
  BY DEF Ratio
<1>3. PICK z \in Nat, r \in Nat \ {0} : c = <<z, r>>
  BY DEF Ratio
<1>4. /\ x * q \in Nat /\ y * p \in Nat /\ y * r \in Nat /\ z * q \in Nat
      /\ x * r \in Nat /\ z * p \in Nat
  OBVIOUS
<1>5. /\ r * (x * q) = q * (x * r) /\ r * (y * p) = p * (y * r) /\ p * (z * q) = q * (z * p)
  OBVIOUS
<1>6. /\ Greater(a, b) <=> x * q > y * p
      /\ Greater(b, a) <=> y * p > x * q
      /\ Equal(a, b) <=> x * q = y * p
      /\ Equal(b, a) <=> y * p = x * q
      /\ Greater(b, c) <=> y * r > z * q
      /\ Greater(c, b) <=> z * q > y * r
      /\ Greater(a, c) <=> x * r > z * p
  BY <1>1, <1>2, <1>3 DEF Greater, Equal
<1>7. ASSUME AtLeast(a, b), Greater(b, c)
      PROVE  Greater(a, c)
  <2>1. y * p <= x * q /\ z * q < y * r
    BY <1>4, <1>6, <1>7 DEF AtLeast
  <2>2. r * (y * p) <= r * (x * q) /\ p * (z * q) < p * (y * r)
    BY <1>4, <2>1, ProductsOrder
  <2>3. q * (z * p) < q * (x * r)
    BY <1>4, <1>5, <2>2
  <2> QED
    BY <1>4, <1>6, <2>3, ProductsOrder
<1>8. ASSUME Greater(a, b), AtLeast(b, c)
      PROVE  Greater(a, c)
  <2>1. y * p < x * q /\ z * q <= y * r
    BY <1>4, <1>6, <1>8 DEF AtLeast
  <2>2. r * (y * p) < r * (x * q) /\ p * (z * q) <= p * (y * r)
    BY <1>4, <2>1, ProductsOrder
  <2>3. q * (z * p) < q * (x * r)
    BY <1>4, <1>5, <2>2
  <2> QED
    BY <1>4, <1>6, <2>3, ProductsOrder
<1> QED
  BY <1>4, <1>6, <1>7, <1>8

\* A value that is at least as good has at least as good a rank.
LEMMA RanksFollow ==
  ASSUME NEW D, IsFiniteSet(D), NEW values \in [D -> Ratio], NEW a \in D, NEW b \in D,
         AtLeast(values[a], values[b])
  PROVE  /\ Rank(values, a) \in Int /\ Rank(values, b) \in Int
         /\ Rank(values, a) >= Rank(values, b)
         /\ Greater(values[a], values[b]) => Rank(values, a) > Rank(values, b)
<1> DEFINE Before(x) == {y \in D : Greater(values[y], values[x])}
           Ties(x) == {y \in D : Equal(values[y], values[x])}
<1>1. ASSUME NEW x \in D
      PROVE  /\ IsFiniteSet(Before(x)) /\ Cardinality(Before(x)) \in Nat
             /\ IsFiniteSet(Ties(x)) /\ Cardinality(Ties(x)) \in Nat
             /\ Cardinality(Ties(x)) # 0
             /\ Before(x) \cap Ties(x) = {}
  <2>1. Before(x) \in SUBSET D /\ Ties(x) \in SUBSET D
    OBVIOUS
  <2>2. x \in Ties(x)
    BY DEF Equal, Ratio
  <2>3. Before(x) \cap Ties(x) = {}
    BY RatiosOrder
  <2> HIDE DEF Before, Ties
  <2>4. IsFiniteSet(Before(x)) /\ IsFiniteSet(Ties(x))
    BY <2>1, FS_Subset
  <2> QED
    BY <2>2, <2>3, <2>4, FS_CardinalityType, FS_EmptySet
<1>2. Cardinality(D) \in Nat
  BY FS_CardinalityType
<1>3. \A x \in D : Rank(values, x) =
        2 * Cardinality(D) - 2 * Cardinality(Before(x)) - Cardinality(Ties(x)) - 1
  BY DEF Rank
<1>4. ASSUME Greater(values[a], values[b])
      PROVE  Cardinality(Before(a)) + Cardinality(Ties(a)) <= Cardinality(Before(b))
  <2>1. ASSUME NEW y \in D, Greater(values[y], values[a]) \/ Equal(values[y], values[a])
        PROVE  Greater(values[y], values[b])
    <3>1. values[y] \in Ratio /\ values[a] \in Ratio /\ values[b] \in Ratio
      OBVIOUS
    <3>2. AtLeast(values[y], values[a])
      BY <2>1, <3>1, RatiosOrder DEF AtLeast
    <3> QED
      BY <1>4, <3>1, <3>2, RatiosOrder
  <2>2. Before(a) \cup Ties(a) \in SUBSET Before(b)
    BY <2>1
  <2> HIDE DEF Before, Ties
  <2>3. Cardinality(Before(a) \cup Ties(a)) <= Cardinality(Before(b))
    BY <1>1, <2>2, FS_Subset
  <2>4. Cardinality(Before(a) \cup Ties(a))
          = Cardinality(Before(a)) + Cardinality(Ties(a)) - Cardinality(Before(a) \cap Ties(a))
    BY <1>1, FS_Union
  <2>5. Cardinality(Before(a) \cap Ties(a)) = 0
    BY <1>1, FS_EmptySet
  <2> QED
    BY <1>1, <2>3, <2>4, <2>5
<1>5. ASSUME Equal(values[a], values[b])
      PROVE  Before(a) = Before(b) /\ Ties(a) = Ties(b)
  <2>1. values[a] \in Ratio /\ values[b] \in Ratio /\ \A y \in D : values[y] \in Ratio
    OBVIOUS
  <2>2. AtLeast(values[a], values[b]) /\ AtLeast(values[b], values[a])
    BY <1>5, <2>1, RatiosOrder DEF AtLeast
  <2>3. ASSUME NEW y \in D
        PROVE  /\ Greater(values[y], values[a]) <=> Greater(values[y], values[b])
               /\ Greater(values[a], values[y]) <=> Greater(values[b], values[y])
    BY <2>1, <2>2, RatiosOrder
  <2>4. ASSUME NEW y \in D
        PROVE  Equal(values[y], values[a]) <=> Equal(values[y], values[b])
    BY <2>1, <2>3, RatiosOrder
  <2> QED
    BY <2>3, <2>4
<1>6. Greater(values[a], values[b]) \/ Equal(values[a], values[b])
  <2>1. values[a] \in Ratio /\ values[b] \in Ratio
    OBVIOUS
  <2> QED
    BY <2>1, RatiosOrder DEF AtLeast
<1> HIDE DEF Before, Ties
<1>7. CASE Greater(values[a], values[b])
  <2>1. /\ Rank(values, a) = 2 * Cardinality(D) - 2 * Cardinality(Before(a)) - Cardinality(Ties(a)) - 1
        /\ Rank(values, b) = 2 * Cardinality(D) - 2 * Cardinality(Before(b)) - Cardinality(Ties(b)) - 1
    BY <1>3
  <2>2. /\ Cardinality(Before(a)) \in Nat /\ Cardinality(Ties(a)) \in Nat
        /\ Cardinality(Before(b)) \in Nat /\ Cardinality(Ties(b)) \in Nat /\ Cardinality(Ties(b)) # 0
    BY <1>1
  <2>3. Cardinality(Before(a)) + Cardinality(Ties(a)) <= Cardinality(Before(b))
    BY <1>4, <1>7
  <2> QED
    BY <1>2, <2>1, <2>2, <2>3
<1>8. CASE Equal(values[a], values[b])
  <2>1. ~Greater(values[a], values[b])
    <3>1. values[a] \in Ratio /\ values[b] \in Ratio
      OBVIOUS
    <3> QED
      BY <1>8, <3>1, RatiosOrder
  <2> QED
    BY <1>1, <1>2, <1>3, <1>5, <1>8, <2>1
<1> QED
  BY <1>6, <1>7, <1>8

\* The measures of a candidate are ratios: it has enough bars, prices are
\* positive, and its amounts are not all zero.
LEMMA MeasuresType ==
  ASSUME NEW m \in Market, NEW p, NEW t \in Day, NEW cut, NEW s \in Eligible(m, p, t, cut)
  PROVE  /\ Measures(m, s, t, cut).week \in Ratio
         /\ Measures(m, s, t, cut).month \in Ratio
         /\ Measures(m, s, t, cut).ratio \in Ratio
<1> DEFINE h == VisibleDays(m, s, t, cut)
           Amount(days) == SumAmount(m, s, days)
<1>1. s \in Security /\ Whole(m, s, t, cut)
  BY EligibleFinite DEF Eligible, Candidate, Security
<1>2. \A d \in Day : Bar(m, s, d).close \in Nat \ {0} /\ Bar(m, s, d).amount \in Nat
  BY <1>1 DEF Bar, Market, BarRow
<1>3. h \in SUBSET Day
  BY DEF VisibleDays
<1>4. /\ Cardinality(h) >= Short + 1 /\ Cardinality(h) >= Long + 1
      /\ Amount(LastDays(h, Long)) # 0
  BY <1>1 DEF Whole
<1> HIDE DEF h
<1>5. IsFiniteSet(h) /\ h \subseteq Nat
  BY <1>3, DayAssumption, FS_Subset
<1>6. Cardinality(h) \in Nat
  BY <1>5, FS_CardinalityType
<1>7. Short + 1 \in 1 .. Cardinality(h) /\ Long + 1 \in 1 .. Cardinality(h)
  BY <1>4, <1>6, WindowAssumption
<1>8. Back(h, Short + 1) \in Day /\ Back(h, Long + 1) \in Day
  BY <1>3, <1>5, <1>7, BackExists
<1>9. ASSUME NEW days \in SUBSET Day
      PROVE  Amount(days) \in Nat
  <2>1. IsFiniteSet(days) /\ [d \in days |-> Bar(m, s, d).amount] \in [days -> Nat]
    BY <1>2, DayAssumption, FS_Subset
  <2> QED
    BY <2>1, SumNatural DEF SumAmount
<1>10. LastDays(h, Short) \in SUBSET Day /\ LastDays(h, Long) \in SUBSET Day
  BY <1>3 DEF LastDays
<1>11. Amount(LastDays(h, Short)) \in Nat /\ Amount(LastDays(h, Long)) \in Nat \ {0}
  BY <1>4, <1>9, <1>10
<1> HIDE DEF Amount
<1>12. /\ Amount(LastDays(h, Short)) * Long \in Nat
       /\ Amount(LastDays(h, Long)) * Short \in Nat \ {0}
  BY <1>11, WindowAssumption
<1>13. /\ Measures(m, s, t, cut).week = <<Bar(m, s, t).close, Bar(m, s, Back(h, Short + 1)).close>>
       /\ Measures(m, s, t, cut).month = <<Bar(m, s, t).close, Bar(m, s, Back(h, Long + 1)).close>>
       /\ Measures(m, s, t, cut).ratio
            = <<Amount(LastDays(h, Short)) * Long, Amount(LastDays(h, Long)) * Short>>
  BY DEF Measures, h, Amount
<1> QED
  BY <1>2, <1>8, <1>12, <1>13 DEF Ratio

\* A candidate that dominates another one is ahead of it.
LEMMA DominanceLeads ==
  ASSUME NEW f, IsFiniteSet(DOMAIN f),
         \A s \in DOMAIN f : f[s].week \in Ratio /\ f[s].month \in Ratio /\ f[s].ratio \in Ratio,
         NEW a \in DOMAIN f, NEW b \in DOMAIN f, Dominates(f, a, b)
  PROVE  Ahead(f, a, b)
<1> DEFINE D == DOMAIN f
           week == [x \in D |-> f[x].week]
           month == [x \in D |-> f[x].month]
           ratio == [x \in D |-> f[x].ratio]
<1>1. week \in [D -> Ratio] /\ month \in [D -> Ratio] /\ ratio \in [D -> Ratio]
  OBVIOUS
<1>2. /\ AtLeast(week[a], week[b]) /\ AtLeast(month[a], month[b]) /\ AtLeast(ratio[a], ratio[b])
      /\ \/ Greater(week[a], week[b]) \/ Greater(month[a], month[b])
         \/ Greater(ratio[a], ratio[b])
  BY DEF Dominates
<1>3. \A x \in D : Score(f, x) = 2 * Rank(week, x) + Rank(month, x) + Rank(ratio, x)
  BY DEF Score
<1> HIDE DEF week, month, ratio
<1>4. /\ Rank(week, a) \in Int /\ Rank(week, b) \in Int /\ Rank(week, a) >= Rank(week, b)
      /\ Greater(week[a], week[b]) => Rank(week, a) > Rank(week, b)
  BY <1>1, <1>2, RanksFollow
<1>5. /\ Rank(month, a) \in Int /\ Rank(month, b) \in Int /\ Rank(month, a) >= Rank(month, b)
      /\ Greater(month[a], month[b]) => Rank(month, a) > Rank(month, b)
  BY <1>1, <1>2, RanksFollow
<1>6. /\ Rank(ratio, a) \in Int /\ Rank(ratio, b) \in Int /\ Rank(ratio, a) >= Rank(ratio, b)
      /\ Greater(ratio[a], ratio[b]) => Rank(ratio, a) > Rank(ratio, b)
  BY <1>1, <1>2, RanksFollow
<1>7. Score(f, a) > Score(f, b)
  BY <1>2, <1>3, <1>4, <1>5, <1>6
<1> QED
  BY <1>7 DEF Ahead

\* Every candidate has its place in the ranking.
LEMMA RankedIsComplete ==
  ASSUME NEW f, IsFiniteSet(DOMAIN f), DOMAIN f \subseteq Nat, NEW a \in DOMAIN f
  PROVE  \E i \in 1 .. Cardinality(DOMAIN f) : Ranked(f)[i] = a
<1> DEFINE D == DOMAIN f
           n == Cardinality(D)
           q == Ranked(f)
<1>1. n \in Nat
  BY FS_CardinalityType
<1>2. q \in [1 .. n -> D] /\ \A i, j \in 1 .. n : i < j => Ahead(f, q[i], q[j])
  BY RankedSorts
<1>3. \A x \in D : ~Ahead(f, x, x)
  BY AheadOrders
<1> HIDE DEF n, q
<1>4. \A i, j \in 1 .. n : q[i] = q[j] => i = j
  BY <1>1, <1>2, <1>3
<1>5. IsFiniteSet(1 .. n) /\ Cardinality(1 .. n) = n
  BY <1>1, FS_Interval
<1>6. q \in Surjection(1 .. n, D)
  <2>1. q \in Injection(1 .. n, D)
    BY <1>2, <1>4 DEF Injection, IsInjective
  <2> QED
    BY <1>5, <2>1, FS_Injection DEF n
<1> QED
  BY <1>6 DEF Surjection, n, q

\* In the signals, too.
LEMMA SignalsLead ==
  ASSUME NEW m \in Market, NEW p, NEW t \in Day, NEW cut,
         p.positions \in Nat, p.perIndustry \in Nat,
         NEW a \in Eligible(m, p, t, cut), NEW b \in Eligible(m, p, t, cut),
         Dominates(MeasuresOf(m, p, t, cut), a, b)
  PROVE  \E k \in Nat :
           /\ SelectCandidates(m, p, t, cut) \in [1 .. k -> Eligible(m, p, t, cut)]
           /\ \A i, j \in 1 .. k : SelectCandidates(m, p, t, cut)[i] = SelectCandidates(m, p, t, cut)[j]
                                     => i = j
           /\ \A j \in 1 .. k : SelectCandidates(m, p, t, cut)[j] = b =>
                \E i \in 1 .. k : i < j /\ SelectCandidates(m, p, t, cut)[i] = a
<1> DEFINE D == Eligible(m, p, t, cut)
           n == Cardinality(D)
           f == MeasuresOf(m, p, t, cut)
           q == Ranked(f)
           signals == SelectCandidates(m, p, t, cut)
<1>1. DOMAIN f = D /\ IsFiniteSet(D) /\ D \subseteq Nat /\ n \in Nat
  BY EligibleFinite, FS_CardinalityType DEF MeasuresOf
<1>2. \A s \in D : f[s].week \in Ratio /\ f[s].month \in Ratio /\ f[s].ratio \in Ratio
  BY MeasuresType DEF MeasuresOf
<1>3. PICK k \in 0 .. n : signals = [i \in 1 .. k |-> q[i]]
  BY SignalsAreFirst
<1>4. a \in D /\ b \in D /\ Dominates(f, a, b)
  OBVIOUS
<1> HIDE DEF D, f, signals
<1>5. Ahead(f, a, b)
  BY <1>1, <1>2, <1>4, DominanceLeads
<1>6. /\ q \in [1 .. n -> D]
      /\ \A i, j \in 1 .. n : i < j => Ahead(f, q[i], q[j])
  BY <1>1, RankedSorts
<1>7. PICK i \in 1 .. n : q[i] = a
  BY <1>1, <1>4, RankedIsComplete
<1>8. /\ \A x \in D : ~Ahead(f, x, x)
      /\ \A x, y \in D : Ahead(f, x, y) => ~Ahead(f, y, x)
  BY <1>1, AheadOrders
<1> HIDE DEF n, q
<1>9. k \in Nat /\ \A j \in 1 .. k : j \in 1 .. n /\ signals[j] = q[j] /\ q[j] \in D
  BY <1>1, <1>3, <1>6
<1>10. signals \in [1 .. k -> D]
  BY <1>3, <1>9
<1>11. \A j, l \in 1 .. k : signals[j] = signals[l] => j = l
  <2>1. \A j, l \in 1 .. n : q[j] = q[l] => j = l
    <3>1. \A j, l \in 1 .. n : ~(j < l /\ q[j] = q[l])
      BY <1>6, <1>8
    <3>2. \A j, l \in 1 .. n : j < l \/ l < j \/ j = l
      BY <1>1
    <3> QED
      BY <3>1, <3>2, Zenon
  <2> QED
    BY <1>9, <2>1
<1>12. ASSUME NEW j \in 1 .. k, signals[j] = b
       PROVE  i \in 1 .. k /\ i < j /\ signals[i] = a
  <2>1. j \in 1 .. n /\ q[j] = b
    BY <1>9, <1>12
  <2>2. i # j
    BY <1>4, <1>5, <1>7, <1>8, <2>1
  <2>3. ~(j < i)
    BY <1>4, <1>5, <1>6, <1>7, <1>8, <2>1
  <2>4. i < j /\ i \in 1 .. k
    BY <1>1, <1>7, <1>9, <2>1, <2>2, <2>3
  <2> QED
    BY <1>7, <1>9, <2>4
<1>13. \A j \in 1 .. k : signals[j] = b => \E l \in 1 .. k : l < j /\ signals[l] = a
  BY <1>12
<1> QED
  BY <1>9, <1>10, <1>11, <1>13 DEF D, signals

\* Of two candidates, one that is at least as good in every measure and
\* better in one is never behind, in the signals of any stored run.
THEOREM DominantSignals == Spec => []SignalsFollowDominance
<1>1. ASSUME FlowInv, NEW c \in Stored
      PROVE  LET r == run[c]
                 able == Eligible(market, ParametersOf(c), r.date, r.cut)
                 f == [s \in able |-> Measures(market, s, r.date, r.cut)]
                 position == [s \in able |->
                   IF \E i \in DOMAIN r.result.signals : r.result.signals[i] = s
                   THEN CHOOSE i \in DOMAIN r.result.signals : r.result.signals[i] = s
                   ELSE Len(r.result.signals) + 1]
             IN \A a, b \in able :
                  Dominates(f, a, b) => position[a] < position[b] \/ position[b] > Len(r.result.signals)
  <2> DEFINE p == ParametersOf(c)
             t == run[c].date
             cut == run[c].cut
             signals == run[c].result.signals
             able == Eligible(market, p, t, cut)
             f == [s \in able |-> Measures(market, s, t, cut)]
             Placed(s) == \E i \in DOMAIN signals : signals[i] = s
             Position(s) == IF Placed(s) THEN CHOOSE i \in DOMAIN signals : signals[i] = s
                            ELSE Len(signals) + 1
  <2>1. /\ market \in Market /\ t \in Day
        /\ p.positions \in Nat /\ p.perIndustry \in Nat
        /\ signals = SelectCandidates(market, p, t, cut)
    BY <1>1, StoredRun DEF Stored
  <2>2. f = MeasuresOf(market, p, t, cut)
    BY DEF MeasuresOf
  <2> HIDE DEF p, t, cut, signals, f
  <2>3. ASSUME NEW a \in able, NEW b \in able, Dominates(f, a, b)
        PROVE  Position(a) < Position(b) \/ Position(b) > Len(signals)
    <3>1. PICK k \in Nat :
            /\ signals \in [1 .. k -> able]
            /\ \A i, j \in 1 .. k : signals[i] = signals[j] => i = j
            /\ \A j \in 1 .. k : signals[j] = b => \E i \in 1 .. k : i < j /\ signals[i] = a
      <4> DEFINE chosen == SelectCandidates(market, p, t, cut)
      <4>1. Dominates(MeasuresOf(market, p, t, cut), a, b)
        BY <2>2, <2>3
      <4>2. \E k \in Nat :
              /\ chosen \in [1 .. k -> able]
              /\ \A i, j \in 1 .. k : chosen[i] = chosen[j] => i = j
              /\ \A j \in 1 .. k : chosen[j] = b => \E i \in 1 .. k : i < j /\ chosen[i] = a
        BY <2>1, <2>3, <4>1, SignalsLead
      <4> HIDE DEF chosen, able
      <4> QED
        BY <2>1, <4>2 DEF chosen
    <3> HIDE DEF able
    <3>2. DOMAIN signals = 1 .. k /\ Len(signals) = k
      <4>1. DOMAIN signals = 1 .. k
        BY <3>1
      <4>2. signals \in Seq(able)
        BY <3>1
      <4>3. Len(signals) \in Nat /\ DOMAIN signals = 1 .. Len(signals)
        BY <4>2
      <4>4. 1 .. Len(signals) = 1 .. k
        BY <4>1, <4>3
      <4> QED
        BY <4>1, <4>3, <4>4
    <3>3. CASE Placed(b)
      <4>1. PICK j \in 1 .. k : signals[j] = b
        BY <3>2, <3>3
      <4>2. PICK i \in 1 .. k : i < j /\ signals[i] = a
        BY <3>1, <4>1
      <4>3. Position(b) = j
        BY <3>1, <3>2, <3>3, <4>1
      <4>4. Position(a) = i
        BY <3>1, <3>2, <4>2
      <4> QED
        BY <4>2, <4>3, <4>4
    <3>4. CASE ~Placed(b)
      <4>1. Position(b) = k + 1
        BY <3>2, <3>4
      <4> QED
        BY <3>2, <4>1
    <3> QED
      BY <3>3, <3>4
  <2> QED
    BY <2>3 DEF p, t, cut, signals, f
<1>2. FlowInv => SignalsFollowDominance
  BY <1>1 DEF SignalsFollowDominance
<1> QED
  BY <1>2, FlowInvariant, PTL
============================================================================
