---------------------- MODULE ProviderIngestionProofs ----------------------
(***************************************************************************)
(* Proofs about ProviderIngestion, for any set of stocks, any pilot pool   *)
(* and any number of crashes.                                              *)
(***************************************************************************)
EXTENDS ProviderIngestion, TLAPS

USE DEF Scope

----------------------------------------------------------------------------
(* What a provider answers.                                                *)

Answers == [calendar : {"open", "closed"}, stocks : [Stock -> Answer]]

\* Without "malformed" every value a provider gives is a number.
Numeric == "malformed" \notin env => \A c \in Stock : ~Malformed(supply.stocks[c])

LEMMA WholeIsAnswer == Whole \in Answer
BY DEF Whole, Answer

LEMMA AllWholeIsAnswers == AllWhole \in Answers
BY WholeIsAnswer DEF AllWhole, Answers

LEMMA SuppliesAreAnswers == Supplies \subseteq Answers
<1>1. ASSUME NEW c \in Stock, NEW e \in Flawed
      PROVE  [AllWhole EXCEPT !.stocks[c] = e] \in Answers
  <2>1. e \in Answer
    BY DEF Flawed
  <2>. QED BY <2>1, WholeIsAnswer DEF AllWhole, Answers
<1>2. [AllWhole EXCEPT !.calendar = "closed"] \in Answers
  BY WholeIsAnswer DEF AllWhole, Answers
<1>. QED BY <1>1, <1>2 DEF Supplies

LEMMA WholeIsNumeric == \A c \in Stock : ~Malformed(AllWhole.stocks[c])
BY DEF AllWhole, Whole, Malformed

LEMMA SuppliesAreNumeric ==
  ASSUME supply \in Supplies
  PROVE  Numeric
<1>. SUFFICES ASSUME "malformed" \notin env, NEW d \in Stock
              PROVE  ~Malformed(supply.stocks[d])
  BY DEF Numeric
<1>1. CASE supply = [AllWhole EXCEPT !.calendar = "closed"]
  <2>1. supply.stocks = AllWhole.stocks
    BY <1>1 DEF AllWhole
  <2>. QED BY <2>1, WholeIsNumeric
<1>2. CASE \E c \in Stock, e \in {x \in Flawed : Malformed(x) => "malformed" \in env} :
             supply = [AllWhole EXCEPT !.stocks[c] = e]
  <2>1. PICK c \in Stock, e \in Flawed :
          ~Malformed(e) /\ supply = [AllWhole EXCEPT !.stocks[c] = e]
    BY <1>2
  <2>2. supply.stocks[d] = IF d = c THEN e ELSE AllWhole.stocks[d]
    BY <2>1 DEF AllWhole
  <2>. QED BY <2>1, <2>2, WholeIsNumeric
<1>. QED BY <1>1, <1>2 DEF Supplies

----------------------------------------------------------------------------
(* What a fetch makes of it.                                               *)

LEMMA FetchedTypes ==
  ASSUME IngestionTypeOK, NEW s \in Scope
  PROVE  /\ Pool(s) \subseteq Stock
         /\ DailyCodes(Pool(s)) \subseteq Stock
         /\ Standardized(Pool(s)) \in Version
<1>1. Pool(s) \subseteq Stock
  BY PoolAssumption DEF Pool
<1>2. DailyCodes(Pool(s)) \subseteq Stock
  BY <1>1 DEF DailyCodes
<1>3. ASSUME NEW c \in Stock
      PROVE  Row(c) \in [code : Stock, limit : BOOLEAN, master : {"ok", "absent", "blank"},
                         volume : BOOLEAN, suspended : BOOLEAN]
  <2>1. supply.stocks[c] \in Answer
    BY DEF IngestionTypeOK
  <2>. QED BY <2>1 DEF Row, LimitKnown, Of, Answer
<1>4. Standardized(Pool(s)) \in Version
  BY <1>2, <1>3 DEF Standardized, Version
<1>. QED BY <1>1, <1>2, <1>4

\* A fetch that found nothing missing has a row for every code it owes one.
LEMMA FetchedComplete ==
  ASSUME IngestionTypeOK, Numeric, NEW s \in Scope,
         "malformed" \notin env, ~Missing(Pool(s))
  PROVE  {r.code : r \in Standardized(Pool(s))} = DailyCodes(Pool(s))
<1>. DEFINE codes == DailyCodes(Pool(s))
<1>1. codes \subseteq Stock
  BY FetchedTypes
<1>2. ASSUME NEW c \in codes
      PROVE  Of(c).bar \in {"ok", "novolume"} /\ Of(c).factor = "ok"
  <2>1. supply.stocks[c] \in Answer /\ ~Malformed(supply.stocks[c])
    BY <1>1 DEF IngestionTypeOK, Numeric
  <2>2. {Of(c).bar, Of(c).factor} \cap {"absent", "blank"} = {}
    BY DEF Missing, MissingRows, BlankFields
  <2>. QED BY <2>1, <2>2 DEF Answer, Malformed, Of
<1>3. Standardized(Pool(s)) = {Row(c) : c \in codes}
  BY <1>2 DEF Standardized
<1>4. \A c \in codes : Row(c).code = c
  BY DEF Row
<1>. QED BY <1>3, <1>4

----------------------------------------------------------------------------
(* Type correctness.                                                       *)

LEMMA InitTypes == Init => IngestionTypeOK /\ Numeric
<1>. SUFFICES ASSUME Init PROVE IngestionTypeOK /\ Numeric
  OBVIOUS
<1>1. supply \in Answers
  BY SuppliesAreAnswers DEF Init
<1>2. Numeric
  BY SuppliesAreNumeric DEF Init
<1>3. NoPull \in Pull
  BY DEF NoPull, Pull, Version
<1>. QED BY <1>1, <1>2, <1>3, BoundAssumption
       DEF Init, IngestionTypeOK, Answers, Idle, Pc, JobStatus

\* One conjunct of the invariant after one step of a scope; what the actions
\* do to exec and job is one of three things.
LEMMA GotoTypes ==
  ASSUME IngestionTypeOK, NEW s \in Scope, NEW pc \in Pc, Goto(s, pc)
  PROVE  exec' \in [Scope -> [pc : Pc, closed : BOOLEAN, pull : Pull, warned : BOOLEAN]]
BY DEF IngestionTypeOK, Goto

LEMMA FinishTypes ==
  ASSUME IngestionTypeOK, NEW s \in Scope, NEW status \in JobStatus, Finish(s, status)
  PROVE  /\ exec' \in [Scope -> [pc : Pc, closed : BOOLEAN, pull : Pull, warned : BOOLEAN]]
         /\ job' \in [Scope -> JobStatus]
<1>1. Idle \in [pc : Pc, closed : BOOLEAN, pull : Pull, warned : BOOLEAN]
  BY DEF Idle, Pc, NoPull, Pull, Version
<1>. QED BY <1>1 DEF IngestionTypeOK, Finish

LEMMA NextTypes ==
  IngestionTypeOK /\ Numeric /\ [Next]_vars => IngestionTypeOK' /\ Numeric'
<1>. SUFFICES ASSUME IngestionTypeOK, Numeric, [Next]_vars
              PROVE  IngestionTypeOK' /\ Numeric'
  OBVIOUS
<1>. USE DEF world
<1>1. CASE UNCHANGED vars
  BY <1>1 DEF vars, IngestionTypeOK, Numeric
<1>2. CASE Repair
  <2>1. supply' \in Answers
    BY <1>2, AllWholeIsAnswers DEF Repair
  <2>2. Numeric'
    BY <1>2, WholeIsNumeric DEF Repair, Numeric
  <2>. QED BY <1>2, <2>1, <2>2 DEF Repair, IngestionTypeOK, Answers
<1>3. CASE Restart
  <2>1. Idle \in [pc : Pc, closed : BOOLEAN, pull : Pull, warned : BOOLEAN]
    BY DEF Idle, Pc, NoPull, Pull, Version
  <2>2. job' \in [Scope -> JobStatus]
    BY <1>3 DEF Restart, Abandoned, IngestionTypeOK, JobStatus
  <2>3. crashes' \in 0..MaxCrashes
    BY <1>3, BoundAssumption DEF Restart, IngestionTypeOK
  <2>. QED BY <1>3, <2>1, <2>2, <2>3 DEF Restart, IngestionTypeOK, Numeric
<1>4. ASSUME NEW s \in Scope, Start(s) \/ Step(s) \/ WorkerCrash(s)
      PROVE  IngestionTypeOK' /\ Numeric'
  <2>0. UNCHANGED world
    BY <1>4 DEF Start, Step, WorkerCrash, RequestUnavailable, RequestRejected,
                FetchCalendar, ArchiveCalendar, Fetch, MakeDirectory, WriteArtifact,
                Validate, Publish, PublishFails, Record
  <2>. SUFFICES IngestionTypeOK'
    BY <2>0 DEF Numeric
  <2>1. CASE Start(s)
    <3>1. job' \in [Scope -> JobStatus]
      BY <2>1 DEF Start, IngestionTypeOK, JobStatus
    <3>. QED BY <2>1, <3>1, GotoTypes DEF Start, IngestionTypeOK, Pc
  <2>2. CASE WorkerCrash(s)
    <3>1. job[s] \in JobStatus
      BY DEF IngestionTypeOK
    <3>2. crashes' \in 0..MaxCrashes
      BY <2>2, BoundAssumption DEF WorkerCrash, IngestionTypeOK
    <3>. QED BY <2>2, <3>1, <3>2, FinishTypes DEF WorkerCrash, IngestionTypeOK
  <2>3. CASE RequestUnavailable(s) \/ RequestRejected(s)
    BY <2>3, FinishTypes DEF RequestUnavailable, RequestRejected, IngestionTypeOK, JobStatus
  <2>4. CASE FetchCalendar(s)
    <3>1. supply.calendar \in {"open", "closed"}
      BY DEF IngestionTypeOK
    <3>2. raw' \in [{"open", "closed"} -> {"none", "dir", "done"}]
      BY <2>4, <3>1 DEF FetchCalendar, IngestionTypeOK
    <3>3. /\ exec' \in [Scope -> [pc : Pc, closed : BOOLEAN, pull : Pull, warned : BOOLEAN]]
          /\ job' \in [Scope -> JobStatus]
      <4>1. CASE Finish(s, "other")
        BY <4>1, FinishTypes DEF JobStatus
      <4>2. CASE ~Finish(s, "other")
        BY <2>4, <4>2 DEF FetchCalendar, IngestionTypeOK, Pc
      <4>. QED BY <4>1, <4>2
    <3>. QED BY <2>4, <3>2, <3>3 DEF FetchCalendar, IngestionTypeOK
  <2>5. CASE ArchiveCalendar(s)
    <3>1. raw' \in [{"open", "closed"} -> {"none", "dir", "done"}]
      BY <2>5 DEF ArchiveCalendar, IngestionTypeOK
    <3>. QED BY <2>5, <3>1, GotoTypes DEF ArchiveCalendar, IngestionTypeOK, Pc
  <2>6. CASE Fetch(s)
    <3>1. [rows |-> Standardized(Pool(s)),
           errors |-> (exec[s].closed \/ Pool(s) = {} \/ Missing(Pool(s))),
           owed |-> DailyCodes(Pool(s))] \in Pull
      BY FetchedTypes DEF Pull
    <3>. QED BY <2>6, <3>1 DEF Fetch, IngestionTypeOK, Pc
  <2>7. CASE MakeDirectory(s)
    <3>1. exec[s].pull.rows \in Version
      BY DEF IngestionTypeOK, Pull
    <3>2. dirs' \subseteq Version \X Scope
      BY <2>7, <3>1 DEF MakeDirectory, IngestionTypeOK
    <3>3. CASE VersionExists(s)
      BY <2>7, <3>2, <3>3, FinishTypes DEF MakeDirectory, IngestionTypeOK, JobStatus
    <3>4. CASE ~VersionExists(s)
      BY <2>7, <3>2, <3>4, GotoTypes DEF MakeDirectory, IngestionTypeOK, Pc
    <3>. QED BY <3>3, <3>4
  <2>8. CASE WriteArtifact(s)
    <3>1. exec[s].pull.rows \in Version
      BY DEF IngestionTypeOK, Pull
    <3>. QED BY <2>8, <3>1, GotoTypes DEF WriteArtifact, IngestionTypeOK, Pc
  <2>9. CASE Validate(s)
    BY <2>9 DEF Validate, IngestionTypeOK, Pc
  <2>10. CASE Publish(s)
    <3>1. exec[s].pull.rows \in Version /\ exec[s].pull.owed \in SUBSET Stock
      BY DEF IngestionTypeOK, Pull
    <3>2. Verdict(exec[s]) \in {"UNAVAILABLE", "AVAILABLE", "WARNING_AVAILABLE"}
      BY DEF Verdict
    <3>3. batches' \subseteq [version : Version, owed : SUBSET Stock,
                              status : {"UNAVAILABLE", "AVAILABLE", "WARNING_AVAILABLE"}]
      BY <2>10, <3>1, <3>2 DEF Publish, IngestionTypeOK
    <3>. QED BY <2>10, <3>3, GotoTypes DEF Publish, IngestionTypeOK, Pc
  <2>11. CASE PublishFails(s)
    BY <2>11, FinishTypes DEF PublishFails, IngestionTypeOK, JobStatus
  <2>12. CASE Record(s)
    BY <2>12, FinishTypes DEF Record, IngestionTypeOK, JobStatus
  <2>. QED BY <1>4, <2>1, <2>2, <2>3, <2>4, <2>5, <2>6, <2>7, <2>8, <2>9, <2>10, <2>11,
              <2>12 DEF Step
<1>. QED BY <1>1, <1>2, <1>3, <1>4 DEF Next

\* The variables of the ingestion keep their types: versions are sets of
\* standardized rows of known stocks.
THEOREM IngestionTypeCorrect == Spec => [](IngestionTypeOK /\ Numeric)
BY InitTypes, NextTypes, PTL DEF Spec

----------------------------------------------------------------------------
(* Artifacts.  mkdir is the only exclusion there is: a version has one     *)
(* directory and one maker, and only its maker can stand before the write. *)

OneMaker == \A d, e \in dirs : d[1] = e[1] => d = e
CompleteHasDir == \A v \in complete : \E t \in Scope : <<v, t>> \in dirs
WriterIsMaker ==
  \A s \in Scope : At(s, "write") =>
    exec[s].pull.rows \notin complete /\ <<exec[s].pull.rows, s>> \in dirs
PastWriteComplete ==
  \A s \in Scope :
    exec[s].pc \in {"validate", "publish", "record"} => exec[s].pull.rows \in complete

Artifacts ==
  OneMaker /\ CompleteHasDir /\ WriterIsMaker /\ PastWriteComplete /\ BatchHasArtifact

LEMMA InitArtifacts == Init => Artifacts
BY DEF Init, Artifacts, OneMaker, CompleteHasDir, WriterIsMaker, PastWriteComplete,
       BatchHasArtifact, At, Idle

\* Steps that leave the artifacts and the batches alone.
LEMMA OthersKeepArtifacts ==
  ASSUME IngestionTypeOK, Artifacts, UNCHANGED <<dirs, complete, batches>>,
         \A s \in Scope :
           \/ exec'[s].pc \in {"idle", "calendar", "archive", "pull", "mkdir"}
           \/ /\ exec'[s].pull = exec[s].pull
              /\ \/ exec'[s].pc = exec[s].pc
                 \/ exec'[s].pc # "write" /\ exec[s].pc \in {"validate", "publish", "record"}
  PROVE  Artifacts'
BY DEF Artifacts, OneMaker, CompleteHasDir, WriterIsMaker, PastWriteComplete,
       BatchHasArtifact, At

LEMMA NextArtifacts == IngestionTypeOK /\ Artifacts /\ [Next]_vars => Artifacts'
<1>. SUFFICES ASSUME IngestionTypeOK, Artifacts, [Next]_vars PROVE Artifacts'
  OBVIOUS
<1>. USE DEF world
<1>0. exec \in [Scope -> [pc : Pc, closed : BOOLEAN, pull : Pull, warned : BOOLEAN]]
  BY DEF IngestionTypeOK
<1>1. CASE UNCHANGED vars \/ Repair
  BY <1>1, OthersKeepArtifacts DEF vars, Repair
<1>2. CASE Restart
  BY <1>2, OthersKeepArtifacts DEF Restart, Idle
<1>3. ASSUME NEW s \in Scope, Start(s) \/ Step(s) \/ WorkerCrash(s)
      PROVE  Artifacts'
  <2>1. CASE Start(s)
    BY <2>1, <1>0, OthersKeepArtifacts DEF Start, Goto
  <2>2. CASE WorkerCrash(s)
    BY <2>2, <1>0, OthersKeepArtifacts DEF WorkerCrash, Finish, Idle
  <2>3. CASE RequestUnavailable(s) \/ RequestRejected(s)
    BY <2>3, <1>0, OthersKeepArtifacts DEF RequestUnavailable, RequestRejected, Finish, Idle
  <2>4. CASE FetchCalendar(s)
    BY <2>4, <1>0, OthersKeepArtifacts DEF FetchCalendar, Finish, Idle
  <2>5. CASE ArchiveCalendar(s)
    BY <2>5, <1>0, OthersKeepArtifacts DEF ArchiveCalendar, Goto
  <2>6. CASE Fetch(s)
    BY <2>6, <1>0, OthersKeepArtifacts DEF Fetch
  <2>7. CASE MakeDirectory(s)
    <3>1. CASE VersionExists(s)
      BY <2>7, <3>1, <1>0, OthersKeepArtifacts DEF MakeDirectory, Finish, Idle
    <3>2. CASE ~VersionExists(s)
      <4>. DEFINE v == exec[s].pull.rows
      <4>1. /\ dirs' = dirs \cup {<<v, s>>}
            /\ exec' = [exec EXCEPT ![s].pc = "write"]
            /\ UNCHANGED <<complete, batches>>
        BY <2>7, <3>2 DEF MakeDirectory, Goto
      <4>2. \A t \in Scope : <<v, t>> \notin dirs
        BY <3>2 DEF VersionExists
      <4>3. \A d \in dirs : d[1] # v
        BY <4>2 DEF IngestionTypeOK
      <4>4. OneMaker'
        BY <4>1, <4>3 DEF OneMaker, Artifacts
      <4>5. CompleteHasDir'
        BY <4>1 DEF CompleteHasDir, Artifacts
      <4>6. WriterIsMaker'
        BY <4>1, <4>2, <1>0 DEF WriterIsMaker, CompleteHasDir, Artifacts, At
      <4>7. PastWriteComplete' /\ BatchHasArtifact'
        BY <4>1, <1>0 DEF PastWriteComplete, BatchHasArtifact, Artifacts
      <4>. QED BY <4>4, <4>5, <4>6, <4>7 DEF Artifacts
    <3>. QED BY <3>1, <3>2
  <2>8. CASE WriteArtifact(s)
    <3>. DEFINE v == exec[s].pull.rows
    <3>1. /\ complete' = complete \cup {v}
          /\ exec' = [exec EXCEPT ![s].pc = "validate"]
          /\ UNCHANGED <<dirs, batches>>
          /\ At(s, "write")
      BY <2>8 DEF WriteArtifact, Goto
    <3>2. <<v, s>> \in dirs
      BY <3>1 DEF WriterIsMaker, Artifacts
    <3>3. CompleteHasDir' /\ OneMaker'
      BY <3>1, <3>2 DEF CompleteHasDir, OneMaker, Artifacts
    <3>4. ASSUME NEW t \in Scope, At(t, "write")'
          PROVE  exec'[t].pull.rows \notin complete' /\ <<exec'[t].pull.rows, t>> \in dirs'
      <4>1. t # s /\ exec'[t] = exec[t]
        BY <3>1, <3>4, <1>0 DEF At
      <4>2. exec[t].pull.rows \notin complete /\ <<exec[t].pull.rows, t>> \in dirs
        BY <3>4, <4>1 DEF WriterIsMaker, Artifacts, At
      <4>3. exec[t].pull.rows # v
        BY <3>2, <4>1, <4>2 DEF OneMaker, Artifacts
      <4>. QED BY <3>1, <4>1, <4>2, <4>3
    <3>5. WriterIsMaker'
      BY <3>4 DEF WriterIsMaker
    <3>6. PastWriteComplete' /\ BatchHasArtifact'
      BY <3>1, <1>0 DEF PastWriteComplete, BatchHasArtifact, Artifacts
    <3>. QED BY <3>3, <3>5, <3>6 DEF Artifacts
  <2>9. CASE Validate(s)
    BY <2>9, <1>0, OthersKeepArtifacts DEF Validate, At
  <2>10. CASE Publish(s)
    <3>1. /\ exec' = [exec EXCEPT ![s].pc = "record"]
          /\ UNCHANGED <<dirs, complete>>
          /\ exec[s].pc = "publish"
      BY <2>10 DEF Publish, Goto, At
    <3>2. exec[s].pull.rows \in complete
      BY <3>1 DEF PastWriteComplete, Artifacts
    <3>3. \A b \in batches' : b \in batches \/ b.version = exec[s].pull.rows
      BY <2>10 DEF Publish
    <3>4. BatchHasArtifact'
      BY <3>1, <3>2, <3>3 DEF BatchHasArtifact, Artifacts
    <3>5. OneMaker' /\ CompleteHasDir'
      BY <3>1 DEF OneMaker, CompleteHasDir, Artifacts
    <3>6. WriterIsMaker' /\ PastWriteComplete'
      BY <3>1, <3>2, <1>0 DEF WriterIsMaker, PastWriteComplete, Artifacts, At
    <3>. QED BY <3>4, <3>5, <3>6 DEF Artifacts
  <2>11. CASE PublishFails(s)
    BY <2>11, <1>0, OthersKeepArtifacts DEF PublishFails, Finish, Idle
  <2>12. CASE Record(s)
    BY <2>12, <1>0, OthersKeepArtifacts DEF Record, Finish, Idle
  <2>. QED BY <1>3, <2>1, <2>2, <2>3, <2>4, <2>5, <2>6, <2>7, <2>8, <2>9, <2>10, <2>11,
              <2>12 DEF Step
<1>. QED BY <1>1, <1>2, <1>3 DEF Next

LEMMA ArtifactsHold == Spec => []Artifacts
BY InitTypes, NextTypes, InitArtifacts, NextArtifacts, PTL DEF Spec

\* Whatever dies when, a batch row never names a standardized artifact that
\* is not on disk with its manifest.
THEOREM BatchesHaveArtifacts == Spec => []BatchHasArtifact
<1>1. Artifacts => BatchHasArtifact
  BY DEF Artifacts
<1>. QED BY <1>1, ArtifactsHold, PTL

\* mkdir(exist_ok=False) gives every version one writer, between the two
\* scopes and between an execution and its retry after a crash.
THEOREM OneWriterEach == Spec => []OneWriter
<1>1. IngestionTypeOK /\ Artifacts => OneWriter
  BY DEF Artifacts, OneMaker, WriterIsMaker, OneWriter, At
<1>. QED BY <1>1, ArtifactsHold, IngestionTypeCorrect, PTL

----------------------------------------------------------------------------
(* Completeness.  What an execution holds was complete when it was fetched, *)
(* or has errors; the provider may answer differently by the time it is     *)
(* published.                                                               *)

Codes(rows) == {r.code : r \in rows}

PullsComplete ==
  "malformed" \notin env =>
    /\ \A s \in Scope :
         ~exec[s].pull.errors => Codes(exec[s].pull.rows) = exec[s].pull.owed
    /\ \A b \in batches : b.status # "UNAVAILABLE" => Codes(b.version) = b.owed

LEMMA InitPulls == Init => PullsComplete
BY DEF Init, PullsComplete, Codes, Idle, NoPull

\* Steps that publish nothing and keep, drop or properly fetch what is held.
LEMMA OthersKeepPulls ==
  ASSUME PullsComplete, UNCHANGED <<batches, env>>,
         "malformed" \notin env =>
           \A s \in Scope :
             \/ exec'[s].pull \in {exec[s].pull, NoPull}
             \/ ~exec'[s].pull.errors => Codes(exec'[s].pull.rows) = exec'[s].pull.owed
  PROVE  PullsComplete'
<1>. SUFFICES ASSUME "malformed" \notin env PROVE PullsComplete'
  BY DEF PullsComplete
<1>1. Codes(NoPull.rows) = NoPull.owed
  BY DEF Codes, NoPull
<1>. HIDE DEF Codes
<1>. QED BY <1>1 DEF PullsComplete

LEMMA NextPulls ==
  IngestionTypeOK /\ Numeric /\ PullsComplete /\ [Next]_vars => PullsComplete'
<1>. SUFFICES ASSUME IngestionTypeOK, Numeric, PullsComplete, [Next]_vars
              PROVE  PullsComplete'
  OBVIOUS
<1>. USE DEF world
<1>0. exec \in [Scope -> [pc : Pc, closed : BOOLEAN, pull : Pull, warned : BOOLEAN]]
  BY DEF IngestionTypeOK
<1>1. CASE UNCHANGED vars \/ Repair
  BY <1>1, OthersKeepPulls DEF vars, Repair
<1>2. CASE Restart
  BY <1>2, OthersKeepPulls DEF Restart, Idle
<1>3. ASSUME NEW s \in Scope, Start(s) \/ Step(s) \/ WorkerCrash(s)
      PROVE  PullsComplete'
  <2>1. CASE Start(s) \/ WorkerCrash(s) \/ RequestUnavailable(s) \/ RequestRejected(s)
    BY <2>1, <1>0, OthersKeepPulls
       DEF Start, WorkerCrash, RequestUnavailable, RequestRejected, Goto, Finish, Idle
  <2>2. CASE FetchCalendar(s) \/ ArchiveCalendar(s)
    BY <2>2, <1>0, OthersKeepPulls DEF FetchCalendar, ArchiveCalendar, Goto, Finish, Idle
  <2>3. CASE Fetch(s)
    <3>. DEFINE p == [rows |-> Standardized(Pool(s)),
                      errors |-> (exec[s].closed \/ Pool(s) = {} \/ Missing(Pool(s))),
                      owed |-> DailyCodes(Pool(s))]
    <3>1. exec' = [exec EXCEPT ![s].pc = "mkdir", ![s].pull = p]
      BY <2>3 DEF Fetch
    <3>2. exec'[s].pull = p /\ \A t \in Scope : t # s => exec'[t].pull = exec[t].pull
      BY <3>1, <1>0
    <3>3. "malformed" \notin env /\ ~p.errors => Codes(p.rows) = p.owed
      BY FetchedComplete DEF Codes
    <3>4. UNCHANGED <<batches, env>>
      BY <2>3 DEF Fetch
    <3>. HIDE DEF p
    <3>. QED BY <3>2, <3>3, <3>4, OthersKeepPulls
  <2>4. CASE MakeDirectory(s) \/ WriteArtifact(s) \/ Validate(s)
    <3>1. /\ \A t \in Scope : exec'[t].pull \in {exec[t].pull, NoPull}
          /\ UNCHANGED <<batches, env>>
      <4>1. CASE MakeDirectory(s)
        BY <4>1, <1>0 DEF MakeDirectory, Goto, Finish, Idle
      <4>2. CASE WriteArtifact(s)
        BY <4>2, <1>0 DEF WriteArtifact, Goto
      <4>3. CASE Validate(s)
        BY <4>3, <1>0 DEF Validate
      <4>. QED BY <2>4, <4>1, <4>2, <4>3
    <3>. QED BY <3>1, OthersKeepPulls
  <2>5. CASE Publish(s)
    <3>1. /\ \A t \in Scope : exec'[t].pull = exec[t].pull
          /\ UNCHANGED env
      BY <2>5, <1>0 DEF Publish, Goto
    <3>2. \A b \in batches' : b \in batches \/
            b = [version |-> exec[s].pull.rows, status |-> Verdict(exec[s]),
                 owed |-> exec[s].pull.owed]
      BY <2>5 DEF Publish
    <3>3. Verdict(exec[s]) # "UNAVAILABLE" => ~exec[s].pull.errors
      BY DEF Verdict
    <3>. HIDE DEF Codes
    <3>. QED BY <3>1, <3>2, <3>3 DEF PullsComplete
  <2>6. CASE PublishFails(s) \/ Record(s)
    BY <2>6, <1>0, OthersKeepPulls DEF PublishFails, Record, Finish, Idle
  <2>. QED BY <1>3, <2>1, <2>2, <2>3, <2>4, <2>5, <2>6 DEF Step
<1>. QED BY <1>1, <1>2, <1>3 DEF Next

\* As long as a provider gives numbers, a usable batch has a row for every
\* stock that owed one, also when the provider repaired its answer between
\* the fetch and the publication.
THEOREM UsableBatchesComplete == Spec => []UsableIsComplete
<1>1. PullsComplete => UsableIsComplete
  BY DEF PullsComplete, UsableIsComplete, Codes
<1>. QED BY <1>1, InitTypes, NextTypes, InitPulls, NextPulls, PTL DEF Spec

----------------------------------------------------------------------------
(* Retries.  A dependency failure happens before the directory is made.    *)

Made(s) == \E d \in dirs : d[2] = s
ExecutingIsRunning == \A s \in Scope : ~At(s, "idle") => job[s] = "running"
EarlyIsClean ==
  "crash" \notin env =>
    \A s \in Scope :
      \/ job[s] \in {"new", "dependency"}
      \/ exec[s].pc \in {"calendar", "archive", "pull", "mkdir"}
      => ~Made(s)

LEMMA InitClean == Init => ExecutingIsRunning /\ EarlyIsClean
BY DEF Init, ExecutingIsRunning, EarlyIsClean, Made, At, Idle

LEMMA NextClean ==
  IngestionTypeOK /\ ExecutingIsRunning /\ EarlyIsClean /\ [Next]_vars
    => ExecutingIsRunning' /\ EarlyIsClean'
<1>. SUFFICES ASSUME IngestionTypeOK, ExecutingIsRunning, EarlyIsClean, [Next]_vars
              PROVE  ExecutingIsRunning' /\ EarlyIsClean'
  OBVIOUS
<1>. USE DEF world
<1>0. /\ exec \in [Scope -> [pc : Pc, closed : BOOLEAN, pull : Pull, warned : BOOLEAN]]
      /\ job \in [Scope -> JobStatus]
  BY DEF IngestionTypeOK
<1>. USE DEF At, ExecutingIsRunning, EarlyIsClean, Goto, Finish, Idle
<1>1. CASE UNCHANGED vars \/ Repair
  BY <1>1 DEF vars, Repair, Made
<1>2. CASE Restart
  BY <1>2 DEF Restart
<1>3. ASSUME NEW s \in Scope, Start(s) \/ Step(s) \/ WorkerCrash(s)
      PROVE  ExecutingIsRunning' /\ EarlyIsClean'
  <2>1. CASE Start(s)
    BY <2>1, <1>0 DEF Start, Made
  <2>2. CASE WorkerCrash(s)
    BY <2>2, <1>0 DEF WorkerCrash
  <2>3. CASE RequestUnavailable(s) \/ RequestRejected(s)
    BY <2>3, <1>0 DEF RequestUnavailable, RequestRejected, Made
  <2>4. CASE FetchCalendar(s) \/ ArchiveCalendar(s) \/ Fetch(s)
    BY <2>4, <1>0 DEF FetchCalendar, ArchiveCalendar, Fetch, Made
  <2>5. CASE MakeDirectory(s)
    <3>1. \A t \in Scope : t # s => (Made(t)' <=> Made(t))
      BY <2>5 DEF MakeDirectory, Made
    <3>2. exec'[s].pc \in {"idle", "write"} /\ job'[s] \in {"other", "running"}
      BY <2>5, <1>0 DEF MakeDirectory
    <3>3. exec'[s].pc = "write" => job'[s] = "running"
      BY <2>5, <1>0 DEF MakeDirectory
    <3>4. \A t \in Scope : t # s => exec'[t] = exec[t] /\ job'[t] = job[t]
      BY <2>5, <1>0 DEF MakeDirectory
    <3>5. UNCHANGED env
      BY <2>5 DEF MakeDirectory
    <3>. QED BY <3>1, <3>2, <3>3, <3>4, <3>5
  <2>6. CASE WriteArtifact(s) \/ Validate(s) \/ Publish(s)
    <3>1. /\ exec[s].pc \notin {"idle", "calendar", "archive", "pull", "mkdir"}
          /\ exec'[s].pc \notin {"idle", "calendar", "archive", "pull", "mkdir"}
          /\ \A t \in Scope : t # s => exec'[t] = exec[t]
      <4>1. CASE WriteArtifact(s)
        BY <4>1, <1>0 DEF WriteArtifact
      <4>2. CASE Validate(s)
        BY <4>2, <1>0 DEF Validate
      <4>3. CASE Publish(s)
        BY <4>3, <1>0 DEF Publish
      <4>. QED BY <2>6, <4>1, <4>2, <4>3
    <3>2. UNCHANGED <<job, dirs, env>>
      BY <2>6 DEF WriteArtifact, Validate, Publish
    <3>. QED BY <3>1, <3>2 DEF Made
  <2>7. CASE PublishFails(s) \/ Record(s)
    BY <2>7, <1>0 DEF PublishFails, Record, Made
  <2>. QED BY <1>3, <2>1, <2>2, <2>3, <2>4, <2>5, <2>6, <2>7 DEF Step
<1>. QED BY <1>1, <1>2, <1>3 DEF Next

\* Without crashes a retry never meets the directory of its own first try.
THEOREM RetriesStartClean == Spec => []RetryStartsClean
<1>1. EarlyIsClean => RetryStartsClean
  BY DEF EarlyIsClean, RetryStartsClean, Made
<1>. QED BY <1>1, InitTypes, NextTypes, InitClean, NextClean, PTL DEF Spec
============================================================================
