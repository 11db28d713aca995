-------------------------- MODULE DataBatchesProofs --------------------------
(* Proofs about DataBatches, for any calls, owners, securities, contents    *)
(* and environments.                                                        *)
EXTENDS DataBatches, TLAPS

----------------------------------------------------------------------------
(* Requests.                                                               *)

\* What every request has in common: only a labelled file has a version that
\* is not its content, and without other users there is one owner.
Sound(r) ==
  /\ r \in Request
  /\ r.kind # "file" \/ "label" \notin env => r.version = r.rows
  /\ "owners" \notin env => r.owner = NothingAsked.owner
  /\ r.kind = "register" => r.rows = {}

LEMMA NothingAskedSound ==
  /\ NothingAsked \in Request
  /\ NothingAsked.kind = "register" /\ NothingAsked.rows = {} /\ NothingAsked.version = {}
<1>1. (CHOOSE o \in Owner : TRUE) \in Owner
  BY OwnerAssumption
<1> QED BY <1>1 DEF NothingAsked, Request

LEMMA OwnersAre ==
  /\ Owners \subseteq Owner
  /\ "owners" \notin env => Owners = {NothingAsked.owner}
BY NothingAskedSound DEF Owners, Request

LEMMA RequestsSound ==
  ASSUME NEW r \in Requests
  PROVE  Sound(r)
<1> USE OwnersAre DEF Request, Sound
<1>1. CASE r \in Registrations
  BY <1>1 DEF Registrations
<1>2. CASE r \in FileImports
  BY <1>2 DEF FileImports, Names
<1>3. CASE r \in ProviderImports
  BY <1>3 DEF ProviderImports
<1> QED BY <1>1, <1>2, <1>3 DEF Requests

----------------------------------------------------------------------------
(* Types, and what a call's position says about its batch.                 *)

\* A request once made is sound, and only a finished call has a batch.
CallsSound ==
  \A i \in Import :
    /\ Sound(call[i].req)
    /\ Stored(i) => call[i].pc = "done"

DataInv == DataTypeOK /\ CallsSound

LEMMA InitData == Init => DataInv
<1> SUFFICES ASSUME Init PROVE DataInv
  OBVIOUS
<1>1. NothingSeen \in Seen
  BY DEF NothingSeen, Seen
<1>2. Sound(NothingAsked)
  BY NothingAskedSound DEF Sound, Request
<1>3. DataTypeOK
  BY <1>1, NothingAskedSound DEF Init, DataTypeOK, BatchStatus
<1>4. CallsSound
  BY <1>2 DEF Init, CallsSound, Stored
<1> QED BY <1>3, <1>4 DEF DataInv

LEMMA VerdictType ==
  ASSUME NEW r \in Request, NEW seen \in Seen
  PROVE  /\ StatusOf(r, seen) \in BatchStatus \ {"none"}
         /\ BarsOf(r) \in SUBSET Security
<1>1. StatusOf(r, seen) \in BatchStatus \ {"none"}
  BY DEF StatusOf, BatchStatus, Request
<1>2. BarsOf(r) \in SUBSET Security
  BY ContentAssumption DEF BarsOf, Request
<1> QED BY <1>1, <1>2

LEMMA MasterType ==
  ASSUME DataTypeOK, NEW r \in Request, NEW seen \in Seen
  PROVE  MasterAfter(r, seen) \in [Security -> {"none", "assumed", "evidenced"}]
BY DEF MasterAfter, ListingDate, DataTypeOK, Request

\* The three ways a call moves on.
LEMMA NextData == DataInv /\ [Next]_vars => DataInv'
<1> SUFFICES ASSUME DataInv, [Next]_vars PROVE DataInv'
  OBVIOUS
<1>0. DataTypeOK /\ CallsSound
  BY DEF DataInv
<1>1. ASSUME NEW i \in Import, Call(i) PROVE DataInv'
  <2>1. PICK r \in Requests :
          \/ call' = [call EXCEPT ![i].pc = "read", ![i].req = r,
                                  ![i].seen.source = SourceOf(r.kind) \in sources]
          \/ \E found \in Repeated(r) :
               call' = [call EXCEPT ![i].pc = "done", ![i].req = r, ![i].answer = found]
    BY <1>1 DEF Call
  <2>2. Sound(r)
    BY RequestsSound
  <2>3. Repeated(r) \subseteq Import \cup {NoBatch}
    BY DEF Repeated, Duplicates, FindDailyBatch
  <2>4. UNCHANGED <<batch, bars, securities, calendar, sources, env>> /\ call[i].pc = "idle"
    BY <1>1 DEF Call
  <2>5. DataTypeOK'
    <3>1. call[i] \in [pc : {"idle", "read", "commit", "done"}, req : Request,
                       seen : Seen, answer : Import \cup {NoBatch}]
      BY <1>0 DEF DataTypeOK
    <3>2. PICK source : source \in BOOLEAN /\ source = (SourceOf(r.kind) \in sources)
      <4>1. (SourceOf(r.kind) \in sources) \in BOOLEAN
        OBVIOUS
      <4> QED BY <4>1, Zenon
    <3>3. [call[i].seen EXCEPT !.source = source] \in Seen
      BY <3>1, <3>2 DEF Seen
    <3>4. PICK c \in [pc : {"idle", "read", "commit", "done"}, req : Request,
                      seen : Seen, answer : Import \cup {NoBatch}] :
            call' = [call EXCEPT ![i] = c]
      <4>1. CASE call' = [call EXCEPT ![i].pc = "read", ![i].req = r, ![i].seen.source = source]
        <5> DEFINE c == [call[i] EXCEPT !.pc = "read", !.req = r,
                           !.seen = [call[i].seen EXCEPT !.source = source]]
        <5>1. c \in [pc : {"idle", "read", "commit", "done"}, req : Request,
                     seen : Seen, answer : Import \cup {NoBatch}]
          BY <2>2, <3>1, <3>3 DEF Sound
        <5>2. call' = [call EXCEPT ![i] = c]
          BY <1>0, <3>1, <4>1 DEF DataTypeOK
        <5> QED BY <5>1, <5>2
      <4>2. ASSUME NEW found \in Repeated(r),
                   call' = [call EXCEPT ![i].pc = "done", ![i].req = r, ![i].answer = found]
            PROVE  \E c \in [pc : {"idle", "read", "commit", "done"}, req : Request,
                             seen : Seen, answer : Import \cup {NoBatch}] :
                     call' = [call EXCEPT ![i] = c]
        <5> DEFINE c == [call[i] EXCEPT !.pc = "done", !.req = r, !.answer = found]
        <5>1. c \in [pc : {"idle", "read", "commit", "done"}, req : Request,
                     seen : Seen, answer : Import \cup {NoBatch}]
          BY <2>2, <2>3, <3>1 DEF Sound
        <5>2. call' = [call EXCEPT ![i] = c]
          BY <1>0, <3>1, <4>2 DEF DataTypeOK
        <5> QED BY <5>1, <5>2
      <4> QED BY <2>1, <3>2, <4>1, <4>2
    <3> QED BY <1>0, <2>4, <3>4 DEF DataTypeOK
  <2>6. /\ call'[i].req = r
        /\ \A j \in Import : j # i => call'[j] = call[j]
        /\ ~Stored(i)
    BY <1>0, <2>1, <2>4 DEF DataTypeOK, CallsSound
  <2>7. CallsSound'
    BY <1>0, <2>2, <2>4, <2>6 DEF CallsSound, Sound, Stored
  <2> QED BY <2>5, <2>7 DEF DataInv
<1>2. ASSUME NEW i \in Import, ReadMaster(i) PROVE DataInv'
  <2> DEFINE seen == [source |-> call[i].seen.source,
                      securities |-> {s \in Security : securities[s] # "none"},
                      calendar |-> calendar]
  <2>1. call' = [call EXCEPT ![i].pc = "commit", ![i].seen = seen]
    BY <1>2 DEF ReadMaster
  <2>2. seen \in Seen
    BY <1>0 DEF DataTypeOK, Seen
  <2>3. UNCHANGED <<batch, bars, securities, calendar, sources, env>> /\ call[i].pc = "read"
    BY <1>2 DEF ReadMaster
  <2>8. PICK v \in Seen : call' = [call EXCEPT ![i].pc = "commit", ![i].seen = v]
    BY <2>1, <2>2
  <2> HIDE DEF seen
  <2>4. call' \in [Import -> [pc : {"idle", "read", "commit", "done"}, req : Request,
                              seen : Seen, answer : Import \cup {NoBatch}]]
    <3>1. call \in [Import -> [pc : {"idle", "read", "commit", "done"}, req : Request,
                               seen : Seen, answer : Import \cup {NoBatch}]]
      BY <1>0 DEF DataTypeOK
    <3>2. call'[i] \in [pc : {"idle", "read", "commit", "done"}, req : Request,
                        seen : Seen, answer : Import \cup {NoBatch}]
      BY <2>8, <3>1
    <3> QED BY <2>8, <3>1, <3>2
  <2>5. DataTypeOK'
    BY <1>0, <2>3, <2>4 DEF DataTypeOK
  <2>6. /\ call'[i].req = call[i].req
        /\ \A j \in Import : j # i => call'[j] = call[j]
        /\ ~Stored(i)
    BY <1>0, <2>1, <2>3 DEF DataTypeOK, CallsSound
  <2>7. CallsSound'
    BY <1>0, <2>3, <2>6 DEF CallsSound, Sound, Stored
  <2> QED BY <2>5, <2>7 DEF DataInv
<1>3. ASSUME NEW i \in Import, Commit(i) PROVE DataInv'
  <2> DEFINE r == call[i].req
             seen == call[i].seen
  <2>1. r \in Request /\ seen \in Seen
    BY <1>0 DEF DataTypeOK
  <2>2. CASE RolledBack(i)
    <3>1. DataTypeOK'
      BY <1>0, <1>3, <2>2 DEF Commit, RolledBack, DataTypeOK
    <3>2. CallsSound'
      BY <1>0, <1>3, <2>2 DEF Commit, RolledBack, DataTypeOK, CallsSound, Sound, Stored
    <3> QED BY <3>1, <3>2 DEF DataInv
  <2>3. CASE Written(i)
    <3>1. batch' \in [Import -> BatchStatus]
      BY <1>0, <2>1, <2>3, VerdictType DEF Written, DataTypeOK
    <3>2. bars' \in [Import -> SUBSET Security]
      BY <1>0, <2>1, <2>3, VerdictType DEF Written, DataTypeOK
    <3>3. securities' \in [Security -> {"none", "assumed", "evidenced"}]
      BY <1>0, <2>1, <2>3, MasterType DEF Written
    <3>4. sources' \subseteq {"file", "provider"} /\ calendar' \in BOOLEAN /\ env' = env
      BY <1>0, <1>3, <2>3 DEF Commit, Written, DataTypeOK, SourceOf, WritesCalendar
    <3>5. call' = [call EXCEPT ![i].pc = "done", ![i].answer = i]
      BY <2>3 DEF Written
    <3>6. call' \in [Import -> [pc : {"idle", "read", "commit", "done"}, req : Request,
                                seen : Seen, answer : Import \cup {NoBatch}]]
      <4>1. call[i] \in [pc : {"idle", "read", "commit", "done"}, req : Request,
                         seen : Seen, answer : Import \cup {NoBatch}]
        BY <1>0 DEF DataTypeOK
      <4>2. call' = [call EXCEPT ![i] = [call[i] EXCEPT !.pc = "done", !.answer = i]]
        BY <3>5
      <4>3. [call[i] EXCEPT !.pc = "done", !.answer = i]
              \in [pc : {"idle", "read", "commit", "done"}, req : Request,
                   seen : Seen, answer : Import \cup {NoBatch}]
        BY <4>1
      <4> QED BY <1>0, <4>2, <4>3 DEF DataTypeOK
    <3>9. DataTypeOK'
      BY <1>0, <3>1, <3>2, <3>3, <3>4, <3>6 DEF DataTypeOK
    <3>7. \A j \in Import : j # i => batch'[j] = batch[j]
      BY <1>0, <2>3 DEF Written, DataTypeOK
    <3>8. CallsSound'
      BY <1>0, <3>4, <3>5, <3>7 DEF DataTypeOK, CallsSound, Sound, Stored
    <3> QED BY <3>8, <3>9 DEF DataInv
  <2> QED BY <1>3, <2>2, <2>3 DEF Commit
<1>4. CASE UNCHANGED vars
  BY <1>0, <1>4 DEF vars, DataInv, DataTypeOK, CallsSound, Sound, Stored
<1> QED BY <1>1, <1>2, <1>3, <1>4 DEF Next, Finished

\* The variables of DataBatches keep their types.
THEOREM DataTypeCorrect == Spec => []DataTypeOK
<1>1. Spec => []DataInv
  BY InitData, NextData, PTL DEF Spec
<1>2. DataInv => DataTypeOK
  BY DEF DataInv
<1> QED BY <1>1, <1>2, PTL

----------------------------------------------------------------------------
(* What is stored.                                                         *)

LEMMA UsableHasRows ==
  ASSUME NEW r \in Request, NEW seen \in Seen, StatusOf(r, seen) \in Usable
  PROVE  r.kind # "register" /\ ~BlockedEarly(r) /\ BarsOf(r) = r.rows
BY DEF StatusOf, Usable, BarsOf, BlockedEarly, Request

\* The steps as the stored data see them: a commit adds one batch, nothing
\* else changes any.
LEMMA StoredMoves ==
  ASSUME DataInv, [Next]_vars
  PROVE  \/ /\ UNCHANGED <<batch, bars, securities, env>>
            /\ \A j \in Import : Stored(j) => call'[j].req = call[j].req
         \/ \E i \in Import :
              /\ call[i].pc = "commit" /\ ~Conflict(call[i].req, call[i].seen)
              /\ Written(i) /\ UNCHANGED env
<1>0. DataTypeOK /\ CallsSound
  BY DEF DataInv
<1>1. ASSUME NEW i \in Import, Call(i)
      PROVE  /\ UNCHANGED <<batch, bars, securities, env>>
             /\ \A j \in Import : Stored(j) => call'[j].req = call[j].req
  BY <1>0, <1>1 DEF Call, CallsSound, DataTypeOK
<1>2. ASSUME NEW i \in Import, ReadMaster(i)
      PROVE  /\ UNCHANGED <<batch, bars, securities, env>>
             /\ \A j \in Import : Stored(j) => call'[j].req = call[j].req
  BY <1>0, <1>2 DEF ReadMaster, CallsSound, DataTypeOK
<1>3. ASSUME NEW i \in Import, Commit(i), RolledBack(i)
      PROVE  /\ UNCHANGED <<batch, bars, securities, env>>
             /\ \A j \in Import : Stored(j) => call'[j].req = call[j].req
  BY <1>0, <1>3 DEF Commit, RolledBack, CallsSound, DataTypeOK
<1>4. ASSUME NEW i \in Import, Commit(i), ~RolledBack(i)
      PROVE  /\ call[i].pc = "commit" /\ ~Conflict(call[i].req, call[i].seen)
             /\ Written(i) /\ UNCHANGED env
  BY <1>4 DEF Commit
<1>5. CASE UNCHANGED vars
  BY <1>5 DEF vars
<1> QED BY <1>1, <1>2, <1>3, <1>4, <1>5 DEF Next, Finished

\* What a commit leaves behind.
LEMMA WrittenBatch ==
  ASSUME DataInv, NEW i \in Import, call[i].pc = "commit", Written(i)
  PROVE  /\ ~Stored(i)
         /\ call[i].req \in Request /\ call[i].seen \in Seen
         /\ batch'[i] = StatusOf(call[i].req, call[i].seen)
         /\ batch'[i] # "none"
         /\ bars'[i] = BarsOf(call[i].req)
         /\ \A j \in Import : j # i => batch'[j] = batch[j] /\ bars'[j] = bars[j]
         /\ \A j \in Import : call'[j].req = call[j].req
<1>1. call[i].req \in Request /\ call[i].seen \in Seen
  BY DEF DataInv, DataTypeOK
<1>2. StatusOf(call[i].req, call[i].seen) # "none"
  BY <1>1, VerdictType
<1> QED BY <1>1, <1>2 DEF Written, DataInv, DataTypeOK, CallsSound

----------------------------------------------------------------------------
(* Master data.                                                            *)

\* A commit that meets no conflict keeps every listing date a provider gave.
LEMMA EvidenceIsKept ==
  ASSUME DataInv, NEW r \in Request, NEW seen \in Seen, NEW s \in Security,
         ~Conflict(r, seen), securities[s] = "evidenced"
  PROVE  MasterAfter(r, seen)[s] = "evidenced"
BY DEF MasterAfter, ListingDate, Conflict, SecurityTaken, Inserted

\* Every security a provider batch serves has a listing date a provider gave,
\* however files and pulls interleave.
THEOREM ServedEvidenced == Spec => []ServedIsEvidenced
<1>1. Init => ServedIsEvidenced
  BY DEF Init, ServedIsEvidenced, Served
<1>2. DataInv /\ ServedIsEvidenced /\ [Next]_vars => ServedIsEvidenced'
  <2> SUFFICES ASSUME DataInv, ServedIsEvidenced, [Next]_vars, NEW j \in Import,
                      NEW s \in Served(j)', call'[j].req.kind = "provider"
               PROVE  securities'[s] = "evidenced"
    BY DEF ServedIsEvidenced
  <2>1. CASE /\ UNCHANGED <<batch, bars, securities, env>>
             /\ \A k \in Import : Stored(k) => call'[k].req = call[k].req
    <3>1. Stored(j) /\ s \in Served(j)
      BY <2>1 DEF Served, Stored, Usable
    <3> QED BY <2>1, <3>1 DEF ServedIsEvidenced
  <2>2. ASSUME NEW i \in Import, call[i].pc = "commit", Written(i),
               ~Conflict(call[i].req, call[i].seen)
        PROVE  securities'[s] = "evidenced"
    <3> DEFINE r == call[i].req
               seen == call[i].seen
    <3>1. r \in Request /\ seen \in Seen /\ securities' = MasterAfter(r, seen)
      BY <2>2, WrittenBatch DEF Written
    <3>2. CASE j # i
      <4>1. s \in Served(j) /\ call[j].req.kind = "provider"
        BY <2>2, <3>2, WrittenBatch DEF Served
      <4>2. s \in Security /\ securities[s] = "evidenced"
        BY <4>1 DEF ServedIsEvidenced, Served, DataInv, DataTypeOK
      <4> QED BY <2>2, <3>1, <4>2, EvidenceIsKept
    <3>3. CASE j = i
      <4>1. r.kind = "provider" /\ StatusOf(r, seen) \in Usable /\ s \in BarsOf(r)
        BY <2>2, <3>3, WrittenBatch DEF Served
      <4>2. ~BlockedEarly(r) /\ s \in r.rows
        BY <3>1, <4>1, UsableHasRows
      <4>3. s \in Security
        BY <3>1, <4>2, ContentAssumption DEF Request
      <4> QED BY <3>1, <4>1, <4>2, <4>3 DEF MasterAfter, Named, ListingDate
    <3> QED BY <3>2, <3>3
  <2> QED BY <2>1, <2>2, StoredMoves
<1> QED BY <1>1, <1>2, InitData, NextData, PTL DEF Spec

----------------------------------------------------------------------------
(* Answers.                                                                *)

\* Of a batch and a request: same owner, if owners matter, and same content.
Owned(r) == r.kind # "provider" \/ "owners" \notin env

LEMMA FoundIsOwn ==
  ASSUME DataInv, NEW r, Sound(r), NEW found \in Repeated(r), found # NoBatch
  PROVE  /\ found \in Import /\ Stored(found)
         /\ Owned(r) => call[found].req.owner = r.owner /\ call[found].req.rows = r.rows
<1>1. found \in Import /\ Same(found, r)
  BY DEF Repeated, Duplicates, FindDailyBatch, DuplicateOf
<1>2. Stored(found) /\ Sound(call[found].req)
        /\ SourceOf(call[found].req.kind) = SourceOf(r.kind)
  BY <1>1 DEF Same, DataInv, CallsSound
<1>3. CASE r.kind = "provider"
  <2>1. call[found].req.version = r.version
    BY <1>3 DEF Repeated, Duplicates, DuplicateOf
  <2>2. call[found].req.kind = "provider"
    BY <1>2, <1>3 DEF SourceOf, Sound, Request
  <2> QED BY <1>1, <1>2, <1>3, <2>1, <2>2 DEF Sound, Owned
<1>4. CASE r.kind # "provider"
  BY <1>1, <1>2, <1>4 DEF Repeated, Duplicates, FindDailyBatch, DuplicateOf
<1> QED BY <1>3, <1>4

\* Only a finished call has an answer.
Answered == \A i \in Import : call[i].answer # NoBatch => call[i].pc = "done"

\* A call is answered with a batch of its owner and content.
THEOREM AnswersAreOwn == Spec => []AnswerIsOwn
<1>1. Init => Answered /\ AnswerIsOwn
  BY DEF Init, Answered, AnswerIsOwn
<1>2. DataInv /\ Answered /\ AnswerIsOwn /\ [Next]_vars => Answered' /\ AnswerIsOwn'
  <2> SUFFICES ASSUME DataInv, Answered, AnswerIsOwn, [Next]_vars
               PROVE  Answered' /\ AnswerIsOwn'
    OBVIOUS
  <2>0. DataTypeOK /\ CallsSound
    BY DEF DataInv
  <2>1. ASSUME NEW i \in Import, Call(i) PROVE Answered' /\ AnswerIsOwn'
    <3>1. PICK r \in Requests :
            \/ call' = [call EXCEPT ![i].pc = "read", ![i].req = r,
                                    ![i].seen.source = SourceOf(r.kind) \in sources]
            \/ \E found \in Repeated(r) :
                 call' = [call EXCEPT ![i].pc = "done", ![i].req = r, ![i].answer = found]
      BY <2>1 DEF Call
    <3>2. Sound(r)
      BY RequestsSound
    <3>3. UNCHANGED <<batch, env>> /\ call[i].pc = "idle" /\ ~Stored(i)
            /\ call[i].answer = NoBatch
      BY <2>0, <2>1 DEF Call, CallsSound, Answered
    <3>4. /\ \A j \in Import : j # i => call'[j] = call[j]
          /\ call'[i].req = r
          /\ \/ call'[i].answer = NoBatch
             \/ call'[i].pc = "done" /\ call'[i].answer \in Repeated(r)
      BY <2>0, <3>1, <3>3 DEF DataTypeOK
    <3>5. Answered'
      BY <3>4 DEF Answered
    <3>6. ASSUME NEW j \in Import, call'[j].answer # NoBatch, Owned(call'[j].req)
          PROVE  /\ call'[j].answer \in Import /\ Stored(call'[j].answer)
                 /\ call'[call'[j].answer].req.owner = call'[j].req.owner
                 /\ call'[call'[j].answer].req.rows = call'[j].req.rows
      <4>1. CASE j = i
        <5>1. PICK found \in Repeated(r) : found = call'[i].answer /\ found # NoBatch
          BY <3>4, <3>6, <4>1
        <5>2. found \in Import /\ Stored(found)
                /\ call[found].req.owner = r.owner /\ call[found].req.rows = r.rows
          BY <3>2, <3>4, <3>6, <4>1, <5>1, FoundIsOwn
        <5>3. call'[found] = call[found]
          BY <3>3, <3>4, <5>2
        <5> QED BY <3>4, <4>1, <5>1, <5>2, <5>3
      <4>2. CASE j # i
        <5>1. PICK found : found = call[j].answer /\ found # NoBatch /\ call'[j] = call[j]
          BY <3>4, <3>6, <4>2
        <5>2. Stored(found) /\ call[found].req.owner = call[j].req.owner
                /\ call[found].req.rows = call[j].req.rows
          BY <3>6, <5>1 DEF AnswerIsOwn, Owned
        <5>3. found \in Import
          BY <2>0, <5>1 DEF DataTypeOK
        <5>4. call'[found] = call[found]
          BY <3>3, <3>4, <5>2, <5>3
        <5> QED BY <5>1, <5>2, <5>3, <5>4
      <4> QED BY <4>1, <4>2
    <3>7. AnswerIsOwn'
      BY <3>3, <3>6 DEF AnswerIsOwn, Owned, Stored
    <3> QED BY <3>5, <3>7
  <2>2. ASSUME NEW i \in Import, Open(i),
               UNCHANGED env,
               \A j \in Import : j # i => call'[j] = call[j] /\ batch'[j] = batch[j],
               call'[i].req = call[i].req,
               \/ call'[i].answer = call[i].answer /\ batch' = batch
               \/ call'[i].answer = i /\ call'[i].pc = "done" /\ batch'[i] # "none"
        PROVE  Answered' /\ AnswerIsOwn'
    <3>1. call[i].answer = NoBatch /\ ~Stored(i)
      BY <2>0, <2>2 DEF Open, Answered, CallsSound
    <3>2. Answered'
      BY <2>2, <3>1 DEF Answered
    <3>3. ASSUME NEW j \in Import, call'[j].answer # NoBatch, Owned(call'[j].req)
          PROVE  /\ batch'[call'[j].answer] # "none"
                 /\ call'[call'[j].answer].req.owner = call'[j].req.owner
                 /\ call'[call'[j].answer].req.rows = call'[j].req.rows
      <4>1. CASE j = i
        BY <2>2, <3>1, <3>3, <4>1 DEF Stored
      <4>2. CASE j # i
        <5>1. PICK found : found = call[j].answer /\ found # NoBatch /\ call'[j] = call[j]
          BY <2>2, <3>3, <4>2
        <5>2. Stored(found) /\ call[found].req.owner = call[j].req.owner
                /\ call[found].req.rows = call[j].req.rows
          BY <3>3, <5>1 DEF AnswerIsOwn, Owned
        <5>3. found \in Import /\ found # i
          BY <2>0, <3>1, <5>1, <5>2 DEF DataTypeOK
        <5> QED BY <2>2, <5>1, <5>2, <5>3 DEF Stored
      <4> QED BY <4>1, <4>2
    <3>4. AnswerIsOwn'
      BY <2>2, <3>3 DEF AnswerIsOwn, Owned, Stored
    <3> QED BY <3>2, <3>4
  <2>3. ASSUME NEW i \in Import, ReadMaster(i) PROVE Answered' /\ AnswerIsOwn'
    BY <2>0, <2>2, <2>3 DEF ReadMaster, Open, DataTypeOK
  <2>4. ASSUME NEW i \in Import, Commit(i) PROVE Answered' /\ AnswerIsOwn'
    <3>1. CASE RolledBack(i)
      BY <2>0, <2>2, <2>4, <3>1 DEF Commit, RolledBack, Open, DataTypeOK
    <3>2. CASE Written(i)
      <4>1. call[i].pc = "commit" /\ UNCHANGED env
              /\ call' = [call EXCEPT ![i].pc = "done", ![i].answer = i]
        BY <2>4, <3>2 DEF Commit, Written
      <4>2. /\ \A j \in Import : j # i => call'[j] = call[j]
            /\ call'[i].req = call[i].req /\ call'[i].answer = i /\ call'[i].pc = "done"
        BY <2>0, <4>1 DEF DataTypeOK
      <4>3. batch'[i] # "none" /\ \A j \in Import : j # i => batch'[j] = batch[j]
        BY <3>2, <4>1, WrittenBatch
      <4> QED BY <2>2, <4>1, <4>2, <4>3 DEF Open
    <3> QED BY <2>4, <3>1, <3>2 DEF Commit
  <2>5. CASE UNCHANGED vars
    BY <2>5 DEF vars, Answered, AnswerIsOwn, Stored
  <2> QED BY <2>1, <2>3, <2>4, <2>5 DEF Next, Finished
<1> QED BY <1>1, <1>2, InitData, NextData, PTL DEF Spec

----------------------------------------------------------------------------
(* One batch per owner and content.                                        *)

\* Without overlap a call is alone, and what it looked for is still absent.
Alone ==
  "overlap" \notin env =>
    \A i \in Import : Open(i) =>
      /\ \A j \in Import : Open(j) => j = i
      /\ \A j \in Import : ~DuplicateOf(j, call[i].req)

LEMMA NextAlone == DataInv /\ Alone /\ [Next]_vars => Alone'
<1> SUFFICES ASSUME DataInv, Alone, [Next]_vars, "overlap" \notin env',
                    NEW i \in Import, Open(i)'
             PROVE  /\ \A j \in Import : Open(j)' => j = i
                    /\ \A j \in Import : ~DuplicateOf(j, call[i].req)'
  BY DEF Alone
<1>0. DataTypeOK /\ CallsSound
  BY DEF DataInv
<1>1. ASSUME NEW k \in Import, Call(k)
      PROVE  /\ \A j \in Import : Open(j)' => j = i
             /\ \A j \in Import : ~DuplicateOf(j, call[i].req)'
  <2>1. PICK r \in Requests :
          \/ /\ Duplicates(r) = {}
             /\ call' = [call EXCEPT ![k].pc = "read", ![k].req = r,
                                     ![k].seen.source = SourceOf(r.kind) \in sources]
          \/ \E found \in Repeated(r) :
               call' = [call EXCEPT ![k].pc = "done", ![k].req = r, ![k].answer = found]
    BY <1>1 DEF Call
  <2>2. \A j \in Import : j # k => call'[j] = call[j] /\ ~Open(j)
    BY <1>0, <1>1, <2>1 DEF Call, DataTypeOK
  <2>3. i = k /\ \A j \in Import : Open(j)' => j = i
    BY <2>2 DEF Open
  <2>4. Duplicates(r) = {} /\ call'[k].req = r
    BY <1>0, <2>1, <2>3 DEF DataTypeOK, Open
  <2>5. ~Stored(k) /\ UNCHANGED batch
    BY <1>0, <1>1 DEF Call, CallsSound
  <2>6. \A j \in Import : ~DuplicateOf(j, call[i].req)'
    BY <2>2, <2>3, <2>4, <2>5 DEF Duplicates, DuplicateOf, Same, Stored
  <2> QED BY <2>3, <2>6
<1>2. ASSUME NEW k \in Import, ReadMaster(k) \/ Commit(k)
      PROVE  /\ \A j \in Import : Open(j)' => j = i
             /\ \A j \in Import : ~DuplicateOf(j, call[i].req)'
  <2>1. Open(k) /\ UNCHANGED env
    BY <1>2 DEF ReadMaster, Commit, Open
  <2>2. \A j \in Import : j # k => call'[j] = call[j] /\ ~Open(j)
    BY <1>0, <1>2, <2>1 DEF Alone, ReadMaster, Commit, RolledBack, Written, DataTypeOK
  <2>3. i = k /\ \A j \in Import : Open(j)' => j = i
    BY <2>2 DEF Open
  <2>4. call'[k].pc # "done"
    BY <2>3 DEF Open
  <2>5. ReadMaster(k)
    BY <1>0, <1>2, <2>4 DEF Commit, RolledBack, Written, DataTypeOK
  <2>6. UNCHANGED batch /\ \A j \in Import : call'[j].req = call[j].req
    BY <1>0, <2>5 DEF ReadMaster, DataTypeOK
  <2>7. \A j \in Import : ~DuplicateOf(j, call[i].req)
    BY <2>1, <2>3 DEF Alone
  <2>8. \A j \in Import : ~DuplicateOf(j, call[i].req)'
    BY <2>6, <2>7 DEF DuplicateOf, Same, Stored
  <2> QED BY <2>3, <2>8
<1>3. CASE UNCHANGED vars
  BY <1>3 DEF vars, Alone, Open, DuplicateOf, Same, Stored
<1> QED BY <1>1, <1>2, <1>3 DEF Next, Finished

\* An owner has one batch per content: by the check when calls do not
\* overlap, by the version when no file is given a name.
THEOREM ContentStoredOnce == Spec => []OneBatchPerContent
<1>1. Init => Alone /\ OneBatchPerContent
  BY DEF Init, Alone, Open, OneBatchPerContent, Stored
<1>2. DataInv /\ Alone /\ OneBatchPerContent /\ [Next]_vars => OneBatchPerContent'
  <2> SUFFICES ASSUME DataInv, Alone, OneBatchPerContent, [Next]_vars
               PROVE  OneBatchPerContent'
    OBVIOUS
  <2>1. CASE /\ UNCHANGED <<batch, bars, securities, env>>
             /\ \A k \in Import : Stored(k) => call'[k].req = call[k].req
    BY <2>1 DEF OneBatchPerContent, Same, Stored
  <2>2. ASSUME NEW i \in Import, call[i].pc = "commit", Written(i), UNCHANGED env,
               ~Conflict(call[i].req, call[i].seen)
        PROVE  OneBatchPerContent'
    <3> DEFINE r == call[i].req
    <3>1. ASSUME NEW j \in Import, j # i, Same(j, r), call[j].req.owner = r.owner,
                 call[j].req.rows = r.rows, ~({"overlap", "label"} \subseteq env)
          PROVE  FALSE
      <4>1. Sound(call[j].req) /\ Sound(r)
        BY DEF DataInv, CallsSound
      <4>2. CASE "label" \notin env
        BY <2>2, <3>1, <4>1, <4>2 DEF Sound, Conflict, VersionTaken
      <4>3. CASE "overlap" \notin env
        <5>1. ~DuplicateOf(j, r)
          BY <2>2, <4>3 DEF Alone, Open
        <5>2. r.kind = "provider" => call[j].req.kind = "provider"
          BY <3>1, <4>1 DEF Same, SourceOf, Sound, Request
        <5> QED BY <3>1, <4>1, <5>1, <5>2 DEF DuplicateOf, Sound
      <4> QED BY <3>1, <4>2, <4>3
    <3>2. /\ \A j \in Import : call'[j].req = call[j].req
          /\ \A j \in Import : j # i => batch'[j] = batch[j]
      BY <2>2, WrittenBatch
    <3> QED BY <2>2, <3>1, <3>2 DEF OneBatchPerContent, Same, Stored
  <2> QED BY <2>1, <2>2, StoredMoves
<1> QED BY <1>1, <1>2, InitData, NextData, NextAlone, PTL DEF Spec

----------------------------------------------------------------------------
(* Who is refused.                                                         *)

\* What a call read is still so while nobody is open beside it.
Fresh ==
  "overlap" \notin env =>
    \A i \in Import :
      /\ Open(i) => call[i].seen.source = (SourceOf(call[i].req.kind) \in sources)
      /\ call[i].pc = "commit" =>
           /\ call[i].seen.securities = {s \in Security : securities[s] # "none"}
           /\ call[i].seen.calendar = calendar

LEMMA NextFresh == DataInv /\ Alone /\ Fresh /\ [Next]_vars => Fresh'
<1> SUFFICES ASSUME DataInv, Alone, Fresh, [Next]_vars, "overlap" \notin env',
                    NEW i \in Import, Open(i)'
             PROVE  /\ call'[i].seen.source = (SourceOf(call'[i].req.kind) \in sources')
                    /\ call'[i].pc = "commit" =>
                         /\ call'[i].seen.securities = {s \in Security : securities'[s] # "none"}
                         /\ call'[i].seen.calendar = calendar'
  BY DEF Fresh, Open
<1>0. DataTypeOK
  BY DEF DataInv
<1>1. ASSUME NEW k \in Import, Call(k) PROVE call'[i].pc = "read" /\ i = k
  <2>1. \A j \in Import : j # k => call'[j] = call[j] /\ ~Open(j)
    BY <1>0, <1>1 DEF Call, DataTypeOK
  <2>2. call'[k].pc \in {"read", "done"}
    BY <1>0, <1>1 DEF Call, DataTypeOK
  <2> QED BY <2>1, <2>2 DEF Open
<1>2. ASSUME NEW k \in Import, Call(k)
      PROVE  call'[i].seen.source = (SourceOf(call'[i].req.kind) \in sources')
  <2>1. i = k /\ call'[i].pc = "read" /\ UNCHANGED sources
    BY <1>1, <1>2 DEF Call
  <2>2. PICK r \in Requests :
          call' = [call EXCEPT ![i].pc = "read", ![i].req = r,
                               ![i].seen.source = SourceOf(r.kind) \in sources]
    <3>1. ASSUME NEW r \in Requests, NEW found,
                 call' = [call EXCEPT ![i].pc = "done", ![i].req = r, ![i].answer = found]
          PROVE  FALSE
      BY <1>0, <2>1, <3>1 DEF DataTypeOK
    <3> QED BY <1>2, <2>1, <3>1 DEF Call
  <2>3. call[i] \in [pc : {"idle", "read", "commit", "done"}, req : Request,
                     seen : Seen, answer : Import \cup {NoBatch}]
    BY <1>0 DEF DataTypeOK
  <2> QED BY <1>0, <2>1, <2>2, <2>3 DEF DataTypeOK, Seen
<1>3. ASSUME NEW k \in Import, ReadMaster(k) \/ Commit(k)
      PROVE  /\ call'[i].seen.source = (SourceOf(call'[i].req.kind) \in sources')
             /\ call'[i].pc = "commit" =>
                  /\ call'[i].seen.securities = {s \in Security : securities'[s] # "none"}
                  /\ call'[i].seen.calendar = calendar'
  <2>1. Open(k) /\ UNCHANGED env
    BY <1>3 DEF ReadMaster, Commit, Open
  <2>2. \A j \in Import : j # k => call'[j] = call[j] /\ ~Open(j)
    BY <1>0, <1>3, <2>1 DEF Alone, ReadMaster, Commit, RolledBack, Written, DataTypeOK
  <2>3. i = k
    BY <2>2 DEF Open
  <2>4. ReadMaster(i)
    BY <1>0, <1>3, <2>3 DEF Commit, RolledBack, Written, DataTypeOK, Open
  <2>5. /\ call'[i].seen.source = call[i].seen.source /\ call'[i].req = call[i].req
        /\ call'[i].seen.securities = {s \in Security : securities[s] # "none"}
        /\ call'[i].seen.calendar = calendar
        /\ UNCHANGED <<securities, calendar, sources>>
    BY <1>0, <2>4 DEF ReadMaster, DataTypeOK
  <2> QED BY <2>1, <2>3, <2>5 DEF Fresh
<1>4. CASE UNCHANGED vars
  BY <1>4 DEF vars, Fresh, Open
<1> QED BY <1>1, <1>2, <1>3, <1>4 DEF Next, Finished

\* The only conflict of a call that is alone is the version.
LEMMA ConflictIsVersion ==
  ASSUME DataInv, Fresh, "overlap" \notin env, "postgresql" \notin env,
         NEW i \in Import, call[i].pc = "commit", Conflict(call[i].req, call[i].seen)
  PROVE  VersionTaken(call[i].req)
<1> DEFINE r == call[i].req
           seen == call[i].seen
<1>1. /\ r \in Request /\ Named(r) \subseteq Security
      /\ seen.source = (SourceOf(r.kind) \in sources)
      /\ seen.securities = {s \in Security : securities[s] # "none"}
      /\ seen.calendar = calendar
  BY ContentAssumption DEF DataInv, DataTypeOK, Fresh, Open, Named, Request
<1>2. ~SecurityTaken(r, seen)
  BY <1>1 DEF SecurityTaken, Inserted
<1> QED BY <1>1, <1>2 DEF Conflict, TooWide

\* With nobody beside it, an import is refused only for content that is stored
\* already: what it shares with other imports it finds and uses.
THEOREM RefusedIsStored == Spec => []OnlyRepetitionIsRefused
<1> DEFINE Plain == env \cap {"overlap", "label", "postgresql"} = {}
           StoredFor(r) == \E j \in Import : Same(j, r) /\ call[j].req.rows = r.rows
<1>1. Init => Alone /\ Fresh /\ OnlyRepetitionIsRefused
  BY DEF Init, Alone, Fresh, Open, OnlyRepetitionIsRefused
<1>2. DataInv /\ Alone /\ Fresh /\ OnlyRepetitionIsRefused /\ [Next]_vars
        => OnlyRepetitionIsRefused'
  <2> SUFFICES ASSUME DataInv, Alone, Fresh, OnlyRepetitionIsRefused, [Next]_vars,
                      Plain', NEW i \in Import, call'[i].pc = "done", call'[i].answer = NoBatch
               PROVE  StoredFor(call[i].req)'
    BY DEF OnlyRepetitionIsRefused
  <2>0. DataTypeOK /\ CallsSound /\ UNCHANGED env
    BY DEF DataInv, Next, Call, ReadMaster, Commit, Finished, vars
  \* What is stored stays stored.
  <2>1. \A j \in Import : Stored(j) => Stored(j)' /\ call'[j].req = call[j].req
    <3>1. ASSUME NEW k \in Import, call[k].pc = "commit", Written(k), NEW j \in Import, Stored(j)
          PROVE  Stored(j)' /\ call'[j].req = call[j].req
      BY <3>1, WrittenBatch DEF Stored
    <3> QED BY <3>1, StoredMoves DEF Stored
  <2>2. ASSUME call'[i].req = call[i].req, StoredFor(call[i].req) PROVE StoredFor(call[i].req)'
    BY <2>1, <2>2 DEF Same
  <2>3. CASE call'[i] = call[i]
    BY <2>0, <2>2, <2>3 DEF OnlyRepetitionIsRefused
  <2>4. CASE Call(i)
    <3>1. PICK r \in Requests :
            \/ call' = [call EXCEPT ![i].pc = "read", ![i].req = r,
                                    ![i].seen.source = SourceOf(r.kind) \in sources]
            \/ /\ Duplicates(r) # {}
               /\ \E found \in Repeated(r) :
                    call' = [call EXCEPT ![i].pc = "done", ![i].req = r, ![i].answer = found]
      BY <2>4 DEF Call
    <3>2. call'[i].req = r /\ Duplicates(r) # {}
      BY <2>0, <3>1 DEF DataTypeOK
    <3>3. PICK j \in Import : DuplicateOf(j, r)
      BY <3>2 DEF Duplicates
    <3>4. Sound(r) /\ Sound(call[j].req)
      BY <2>0, RequestsSound DEF CallsSound
    <3>5. Same(j, r) /\ call[j].req.rows = r.rows
      BY <2>0, <3>3, <3>4 DEF DuplicateOf, Sound
    <3> QED BY <2>1, <3>2, <3>5 DEF Same
  <2>5. CASE Commit(i) /\ RolledBack(i)
    <3>1. /\ call'[i].req = call[i].req /\ call[i].pc = "commit"
          /\ Conflict(call[i].req, call[i].seen) \/ Written(i)
      BY <2>0, <2>5 DEF Commit, RolledBack, DataTypeOK
    <3>2. ~Written(i)
      BY <2>0, NoBatchAssumption DEF Written, DataTypeOK
    <3>3. VersionTaken(call[i].req)
      BY <2>0, <3>1, <3>2, ConflictIsVersion
    <3>4. PICK j \in Import : Same(j, call[i].req) /\ call[j].req.version = call[i].req.version
      BY <3>3 DEF VersionTaken
    <3>5. call[j].req.rows = call[i].req.rows
      BY <2>0, <3>4 DEF CallsSound, Sound
    <3> QED BY <2>2, <3>1, <3>4, <3>5
  <2>6. ASSUME Written(i) PROVE FALSE
    BY <2>0, <2>6, NoBatchAssumption DEF Written, DataTypeOK
  <2>7. ASSUME ReadMaster(i) PROVE FALSE
    BY <2>0, <2>7 DEF ReadMaster, DataTypeOK
  <2>8. ASSUME NEW k \in Import, k # i, Call(k) \/ ReadMaster(k) \/ Commit(k)
        PROVE  call'[i] = call[i]
    BY <2>0, <2>8 DEF Call, ReadMaster, Commit, RolledBack, Written, DataTypeOK
  <2>9. CASE UNCHANGED vars
    BY <2>3, <2>9 DEF vars
  <2>10. Commit(i) => RolledBack(i) \/ Written(i)
    BY DEF Commit
  <2> QED BY <2>3, <2>4, <2>5, <2>6, <2>7, <2>8, <2>9, <2>10 DEF Next, Finished
<1> QED BY <1>1, <1>2, InitData, NextData, NextAlone, NextFresh, PTL DEF Spec
==============================================================================
