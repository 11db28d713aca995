------------------------ MODULE ManualTradingProofs ------------------------
(***************************************************************************)
(* What ManualTrading guarantees for any number of plans, keys, requests   *)
(* and trade dates, and any amounts.                                       *)
(***************************************************************************)
EXTENDS ManualTrading, TLAPS

USE QuantityAssumption, OpeningAssumption, DebitAssumption, DateAssumption

LEMMA Names ==
  /\ {"absent", "PENDING_CONFIRMATION", "CONFIRMED", "SKIPPED", "PARTIALLY_FILLED", "FILLED"}
       \subseteq Status
  /\ {"idle", "decide", "flush", "commit"} \subseteq Pc
  /\ 0 \in Date /\ 1 \in Date
BY DEF Status, Pc, Date

\* The fields of well-typed state.
LEMMA Fields ==
  ASSUME TradingTypeOK
  PROVE  /\ \A d \in Date : /\ snaps[d] \in Snapshot
                            /\ snaps[d].cash \in Int
                            /\ snaps[d].held \in [Plan -> Int]
                            /\ snaps[d].present \in BOOLEAN
         /\ \A q \in Request :
              /\ req[q] \in Handler
              /\ req[q].pc \in Pc /\ req[q].plan \in Plan /\ req[q].key \in Key
              /\ req[q].quantity \in Int /\ req[q].debit \in Int /\ req[q].date \in Date
              /\ req[q].loaded \in Status /\ req[q].status \in Status
              /\ req[q].latest \in Date /\ req[q].cash \in Int /\ req[q].held \in Int
              /\ req[q].exists \in BOOLEAN
BY DEF TradingTypeOK, Snapshot, Handler

LEMMA PutRow ==
  ASSUME NEW f \in [Date -> Snapshot], NEW d \in Date, NEW row \in Snapshot
  PROVE  /\ [f EXCEPT ![d] = row] \in [Date -> Snapshot]
         /\ [f EXCEPT ![d] = row][d] = row
         /\ \A e \in Date : e # d => [f EXCEPT ![d] = row][e] = f[e]
OBVIOUS

\* What StoreSnapshot leaves.
LEMMA SnapshotStored ==
  ASSUME TradingTypeOK, NEW q \in Request, StoreSnapshot(q)
  PROVE  /\ snaps' \in [Date -> Snapshot]
         /\ \A d \in Date : snaps'[d].present = (snaps[d].present \/ (d = req[q].date /\ ~req[q].exists))
         /\ snaps'[req[q].date].cash = req[q].cash - req[q].debit
<1> DEFINE r == req[q]
           row == IF r.held = 0 THEN r.date ELSE r.latest
           n == r.held + r.quantity
           c == r.cash - r.debit
<1>1. r.date \in Date /\ row \in Date /\ r.plan \in Plan /\ n \in Int /\ c \in Int
  BY Fields
<1>2. CASE r.exists
  <2> DEFINE first == [snaps[r.date] EXCEPT !.cash = c]
             mid == [snaps EXCEPT ![r.date] = first]
             held == [mid[row].held EXCEPT ![r.plan] = n]
             second == [mid[row] EXCEPT !.held = held]
             new == [mid EXCEPT ![row] = second]
  <2>1. snaps' = new
    BY <1>2 DEF StoreSnapshot, Holding
  <2>2. first \in Snapshot /\ first.cash = c /\ first.present = snaps[r.date].present
    BY <1>1, Fields DEF Snapshot
  <2> HIDE DEF first
  <2>3. /\ mid \in [Date -> Snapshot] /\ mid[r.date].cash = c
        /\ \A d \in Date : mid[d].present = snaps[d].present
    BY <1>1, <2>2, PutRow DEF TradingTypeOK
  <2> HIDE DEF mid
  <2>4. held \in [Plan -> Int]
    BY <1>1, <2>3 DEF Snapshot
  <2> HIDE DEF held
  <2>5. second \in Snapshot /\ second.cash = mid[row].cash /\ second.present = mid[row].present
    BY <1>1, <2>3, <2>4 DEF Snapshot
  <2> HIDE DEF second
  <2>6. /\ new \in [Date -> Snapshot] /\ new[r.date].cash = c
        /\ \A d \in Date : new[d].present = snaps[d].present
    BY <1>1, <2>3, <2>5, PutRow
  <2> HIDE DEF new, c
  <2>7. \A d \in Date : snaps[d].present \in BOOLEAN
    BY Fields
  <2>8. snaps'[r.date].cash = r.cash - r.debit
    BY <2>1, <2>6 DEF c
  <2> QED BY <1>2, <2>1, <2>6, <2>7, <2>8
<1>3. CASE ~r.exists
  <2> DEFINE new == [present |-> TRUE, cash |-> c, held |-> [NoPositions EXCEPT ![r.plan] = n]]
  <2>1. [NoPositions EXCEPT ![r.plan] = n] \in [Plan -> Int]
    BY <1>1 DEF NoPositions
  <2>2. new \in Snapshot /\ new.present /\ new.cash = c
    BY <1>1, <2>1 DEF Snapshot
  <2>3. snaps' = [snaps EXCEPT ![r.date] = new]
    BY <1>3 DEF StoreSnapshot
  <2> HIDE DEF new
  <2> QED BY <1>1, <1>3, <2>2, <2>3, Fields DEF TradingTypeOK
<1> QED BY <1>2, <1>3, Fields

----------------------------------------------------------------------------
(* Type correctness.                                                       *)

LEMMA IdleType == Idle \in Handler
BY PlanAssumption, KeyAssumption, Names DEF Idle, Handler

LEMMA InitType == Init => TradingTypeOK
<1> SUFFICES ASSUME Init PROVE TradingTypeOK
  OBVIOUS
<1>1. NoSnapshot \in Snapshot
  BY DEF NoSnapshot, Snapshot, NoPositions
<1>2. expired \in BOOLEAN /\ env \in Environments
  BY DEF Init
<1>3. /\ ledger \in Int /\ status \in [Plan -> Status] /\ filled \in [Plan -> Int]
      /\ records \in [Plan -> [Key -> Nat]]
  BY Names DEF Init
<1>4. snaps \in [Date -> Snapshot] /\ req \in [Request -> Handler]
  BY <1>1, IdleType DEF Init
<1> QED BY <1>2, <1>3, <1>4 DEF TradingTypeOK

\* What the steps of a request do to it.
LEMMA Moves ==
  ASSUME TradingTypeOK, NEW q \in Request
  PROVE  /\ End(q) => /\ req' \in [Request -> Handler]
                      /\ req'[q].pc = "idle"
                      /\ \A p \in Request \ {q} : req'[p] = req[p]
         /\ \A p \in Plan, decision \in {"CONFIRMED", "SKIPPED"} : ReadPlan(q, p, decision) =>
              /\ req' \in [Request -> Handler]
              /\ req'[q].pc = "decide" /\ req'[q].plan = p /\ req'[q].status = decision
              /\ \A t \in Request \ {q} : req'[t] = req[t]
         /\ Flush(q) /\ ~End(q) =>
              /\ req' \in [Request -> Handler]
              /\ req'[q].pc = "commit" /\ req'[q].plan = req[q].plan
              /\ req'[q].key = req[q].key /\ req'[q].quantity = req[q].quantity
              /\ req'[q].debit = req[q].debit /\ req'[q].date = req[q].date
              /\ req'[q].loaded = req[q].loaded /\ req'[q].status = req[q].status
              /\ req'[q].latest = req[q].latest /\ req'[q].cash = req[q].cash
              /\ req'[q].held = req[q].held
              /\ req'[q].exists = snaps[req[q].date].present
              /\ \A p \in Request \ {q} : req'[p] = req[p]
<1>1. ASSUME NEW new \in Handler, req' = [req EXCEPT ![q] = new]
      PROVE  /\ req' \in [Request -> Handler] /\ req'[q] = new
             /\ \A p \in Request \ {q} : req'[p] = req[p]
  BY <1>1 DEF TradingTypeOK
<1>2. ASSUME End(q)
      PROVE  /\ req' \in [Request -> Handler] /\ req'[q].pc = "idle"
             /\ \A p \in Request \ {q} : req'[p] = req[p]
  <2>1. Idle.pc = "idle"
    BY DEF Idle
  <2> QED BY <1>1, <1>2, <2>1, IdleType DEF End
<1>3. ASSUME NEW p \in Plan, NEW decision \in {"CONFIRMED", "SKIPPED"}, ReadPlan(q, p, decision)
      PROVE  /\ req' \in [Request -> Handler]
             /\ req'[q].pc = "decide" /\ req'[q].plan = p /\ req'[q].status = decision
             /\ \A t \in Request \ {q} : req'[t] = req[t]
  <2> DEFINE new == [Idle EXCEPT !.pc = "decide", !.plan = p, !.status = decision]
  <2>1. new \in Handler /\ new.pc = "decide" /\ new.plan = p /\ new.status = decision
    BY IdleType, Names DEF Handler
  <2>2. req' = [req EXCEPT ![q] = new]
    BY <1>3 DEF ReadPlan
  <2> HIDE DEF new
  <2> QED BY <1>1, <2>1, <2>2
<1>4. ASSUME Flush(q), ~End(q)
      PROVE  /\ req' \in [Request -> Handler]
             /\ req'[q].pc = "commit" /\ req'[q].plan = req[q].plan
             /\ req'[q].key = req[q].key /\ req'[q].quantity = req[q].quantity
             /\ req'[q].debit = req[q].debit /\ req'[q].date = req[q].date
             /\ req'[q].loaded = req[q].loaded /\ req'[q].status = req[q].status
             /\ req'[q].latest = req[q].latest /\ req'[q].cash = req[q].cash
             /\ req'[q].held = req[q].held
             /\ req'[q].exists = snaps[req[q].date].present
             /\ \A p \in Request \ {q} : req'[p] = req[p]
  <2> DEFINE here == snaps[req[q].date].present
             new == [req[q] EXCEPT !.pc = "commit", !.exists = here]
  <2>1. here \in BOOLEAN /\ req[q] \in Handler
    BY Fields
  <2>2. req' = [req EXCEPT ![q] = new]
    BY <1>4 DEF Flush
  <2> HIDE DEF here
  <2>3. /\ new \in Handler /\ new.pc = "commit" /\ new.exists = here
        /\ new.plan = req[q].plan /\ new.key = req[q].key /\ new.quantity = req[q].quantity
        /\ new.debit = req[q].debit /\ new.date = req[q].date
        /\ new.loaded = req[q].loaded /\ new.status = req[q].status
        /\ new.latest = req[q].latest /\ new.cash = req[q].cash /\ new.held = req[q].held
    BY <2>1, Names DEF Handler
  <2> HIDE DEF new
  <2> QED BY <1>1, <2>2, <2>3 DEF here
<1> QED BY <1>2, <1>3, <1>4

\* What a request has read after ReadLedger.
LEMMA ReadsLedger ==
  ASSUME TradingTypeOK, NEW q \in Request, NEW p \in Plan, NEW k \in Key, NEW n \in Quantity,
         NEW debit \in Debit, NEW date \in Date, NEW latest \in Date,
         ReadLedger(q, p, k, n, debit, date, latest)
  PROVE  /\ req' \in [Request -> Handler]
         /\ req'[q].pc = "flush" /\ req'[q].plan = p /\ req'[q].key = k
         /\ req'[q].quantity = n /\ req'[q].debit = debit /\ req'[q].date = date
         /\ req'[q].loaded = status[p] /\ req'[q].status = StatusAfter(p, n)
         /\ req'[q].latest = latest /\ req'[q].cash = snaps[latest].cash
         /\ req'[q].held = snaps[latest].held[p]
         /\ \A t \in Request \ {q} : req'[t] = req[t]
<1> DEFINE new == [pc |-> "flush", plan |-> p, key |-> k, quantity |-> n, debit |-> debit,
                   date |-> date, loaded |-> status[p], status |-> StatusAfter(p, n),
                   latest |-> latest, cash |-> snaps[latest].cash,
                   held |-> snaps[latest].held[p], exists |-> FALSE]
<1>1. /\ n \in Int /\ debit \in Int /\ status[p] \in Status /\ StatusAfter(p, n) \in Status
      /\ snaps[latest].cash \in Int /\ snaps[latest].held[p] \in Int
  <2>1. n \in Int /\ debit \in Int
    BY DEF Quantity
  <2>2. status[p] \in Status
    BY DEF TradingTypeOK
  <2>3. StatusAfter(p, n) \in Status
    BY Names DEF StatusAfter
  <2>4. snaps[latest].cash \in Int /\ snaps[latest].held \in [Plan -> Int]
    BY Fields
  <2> QED BY <2>1, <2>2, <2>3, <2>4
<1>2. new \in Handler
  BY <1>1, Names DEF Handler
<1>3. req' = [req EXCEPT ![q] = new]
  BY DEF ReadLedger
<1>4. /\ new.pc = "flush" /\ new.plan = p /\ new.key = k /\ new.quantity = n
      /\ new.debit = debit /\ new.date = date /\ new.loaded = status[p]
      /\ new.status = StatusAfter(p, n) /\ new.latest = latest /\ new.cash = snaps[latest].cash
      /\ new.held = snaps[latest].held[p]
  OBVIOUS
<1> HIDE DEF new
<1> QED BY <1>2, <1>3, <1>4 DEF TradingTypeOK

\* One more execution under the key of the request.
LEMMA RecordStored ==
  ASSUME TradingTypeOK, NEW q \in Request,
         records' = [records EXCEPT ![req[q].plan][req[q].key] = @ + 1]
  PROVE  /\ records' \in [Plan -> [Key -> Nat]]
         /\ \A p \in Plan, k \in Key :
              records'[p][k] = IF p = req[q].plan /\ k = req[q].key
                               THEN records[p][k] + 1 ELSE records[p][k]
<1> DEFINE row == records[req[q].plan]
           new == [row EXCEPT ![req[q].key] = @ + 1]
<1>1. req[q].plan \in Plan /\ req[q].key \in Key
  BY Fields
<1>2. row \in [Key -> Nat]
  BY <1>1 DEF TradingTypeOK
<1>3. /\ new \in [Key -> Nat]
      /\ \A k \in Key : new[k] = IF k = req[q].key THEN row[k] + 1 ELSE row[k]
  BY <1>1, <1>2
<1>4. records' = [records EXCEPT ![req[q].plan] = new]
  OBVIOUS
<1> HIDE DEF new
<1> QED BY <1>1, <1>3, <1>4 DEF TradingTypeOK

\* Every step keeps the types.
LEMMA TypeStep == TradingTypeOK /\ [Next]_vars => TradingTypeOK'
<1> SUFFICES ASSUME TradingTypeOK, [Next]_vars PROVE TradingTypeOK'
  OBVIOUS
<1>1. CASE Publish
  <2>1. [present |-> TRUE, cash |-> Opening, held |-> NoPositions] \in Snapshot
    BY DEF Snapshot, NoPositions
  <2>2. snaps' \in [Date -> Snapshot]
    BY <1>1, <2>1, Names, PutRow DEF Publish, TradingTypeOK
  <2> QED BY <1>1, <2>2, Names DEF Publish, TradingTypeOK
<1>2. CASE Expire
  BY <1>2 DEF Expire, TradingTypeOK
<1>3. ASSUME NEW q \in Request, NEW p \in Plan, NEW decision \in {"CONFIRMED", "SKIPPED"},
             ReadPlan(q, p, decision)
      PROVE  TradingTypeOK'
  <2>1. req' \in [Request -> Handler]
    BY <1>3, Moves
  <2> QED BY <1>3, <2>1 DEF ReadPlan, TradingTypeOK
<1>4. ASSUME NEW q \in Request, NEW p \in Plan, NEW k \in Key, NEW n \in Quantity,
             NEW debit \in Debit, NEW date \in Date, NEW latest \in Date,
             ReadLedger(q, p, k, n, debit, date, latest)
      PROVE  TradingTypeOK'
  <2>1. req' \in [Request -> Handler]
    BY <1>4, ReadsLedger
  <2> QED BY <1>4, <2>1 DEF ReadLedger, TradingTypeOK
<1>5. ASSUME NEW q \in Request, Decide(q) PROVE TradingTypeOK'
  <2>1. req' \in [Request -> Handler]
    BY <1>5, Moves DEF Decide
  <2> QED BY <1>5, <2>1, Fields DEF Decide, TradingTypeOK
<1>6. ASSUME NEW q \in Request, Flush(q) PROVE TradingTypeOK'
  <2>1. req' \in [Request -> Handler]
    BY <1>6, Moves
  <2> QED BY <1>6, <2>1 DEF Flush, TradingTypeOK
<1>7. ASSUME NEW q \in Request, Commit(q) PROVE TradingTypeOK'
  <2>1. req' \in [Request -> Handler] /\ expired' = expired /\ env' = env
    BY <1>7, Moves DEF Commit
  <2>2. CASE UNCHANGED <<status, filled, records, ledger, snaps>>
    BY <2>1, <2>2 DEF TradingTypeOK
  <2>3. CASE ~SnapshotClash(q)
    <3>1. snaps' \in [Date -> Snapshot]
      BY <1>7, <2>3, SnapshotStored DEF Commit
    <3>2. status' \in [Plan -> Status]
      BY <1>7, <2>3, Fields DEF Commit, StoreStatus, TradingTypeOK
    <3>3. records' \in [Plan -> [Key -> Nat]]
      BY <1>7, <2>3, RecordStored DEF Commit
    <3>4. filled' \in [Plan -> Int] /\ ledger' \in Int
      BY <1>7, <2>3, Fields DEF Commit, TradingTypeOK
    <3> QED BY <2>1, <3>1, <3>2, <3>3, <3>4 DEF TradingTypeOK
  <2> QED BY <1>7, <2>2, <2>3 DEF Commit
<1>8. CASE UNCHANGED vars
  BY <1>8 DEF vars, TradingTypeOK
<1> QED
  BY <1>1, <1>2, <1>3, <1>4, <1>5, <1>6, <1>7, <1>8 DEF Next

\* The variables keep their types.
THEOREM TradingTypeCorrect == Spec => []TradingTypeOK
BY InitType, TypeStep, PTL DEF Spec

----------------------------------------------------------------------------
(* A key is executed once, however requests are interleaved.               *)

\* The plan's row lock lets one transaction at a time past Flush, and the
\* one that holds it has seen the key free.
KeyIsFree ==
  /\ \A p, q \in Request : req[p].pc = "commit" /\ req[q].pc = "commit"
                           /\ req[p].plan = req[q].plan => p = q
  /\ \A q \in Request : req[q].pc = "commit" => records[req[q].plan][req[q].key] = 0

KeyInv == TradingTypeOK /\ KeyIsFree /\ ExecutedOncePerKey

\* A request repeated with its Idempotency-Key adds no second execution of
\* the plan (the unique index of all_models.py:377), whatever the
\* environment.
THEOREM KeyExecutedOnce == Spec => []ExecutedOncePerKey
<1>1. Init => KeyInv
  <2> SUFFICES ASSUME Init PROVE KeyIsFree /\ ExecutedOncePerKey
    BY InitType DEF KeyInv
  <2>1. \A q \in Request : req[q].pc = "idle"
    BY DEF Init, Idle
  <2>2. \A p \in Plan, k \in Key : records[p][k] = 0
    BY DEF Init
  <2> QED BY <2>1, <2>2 DEF KeyIsFree, ExecutedOncePerKey
<1>2. KeyInv /\ [Next]_vars => KeyInv'
  <2> SUFFICES ASSUME KeyInv, [Next]_vars PROVE KeyIsFree' /\ ExecutedOncePerKey'
    BY TypeStep DEF KeyInv
  <2> USE DEF KeyInv
  <2>f. \A q \in Request : req[q].plan \in Plan /\ req[q].key \in Key
    BY Fields
  <2>1. CASE Publish \/ Expire
    BY <2>1 DEF Publish, Expire, KeyIsFree, ExecutedOncePerKey
  <2>2. ASSUME NEW q \in Request, NEW p \in Plan, NEW decision \in {"CONFIRMED", "SKIPPED"},
               ReadPlan(q, p, decision)
        PROVE  KeyIsFree' /\ ExecutedOncePerKey'
    <3>1. records' = records
      BY <2>2 DEF ReadPlan
    <3> QED BY <2>2, <3>1, Moves DEF KeyIsFree, ExecutedOncePerKey
  <2>3. ASSUME NEW q \in Request, NEW p \in Plan, NEW k \in Key, NEW n \in Quantity,
               NEW debit \in Debit, NEW date \in Date, NEW latest \in Date,
               ReadLedger(q, p, k, n, debit, date, latest)
        PROVE  KeyIsFree' /\ ExecutedOncePerKey'
    <3>1. records' = records
      BY <2>3 DEF ReadLedger
    <3> QED BY <2>3, <3>1, ReadsLedger DEF KeyIsFree, ExecutedOncePerKey
  <2>4. ASSUME NEW q \in Request, Decide(q)
        PROVE  KeyIsFree' /\ ExecutedOncePerKey'
    BY <2>4, Moves DEF Decide, KeyIsFree, ExecutedOncePerKey
  <2>5. ASSUME NEW q \in Request, Flush(q)
        PROVE  KeyIsFree' /\ ExecutedOncePerKey'
    <3>1. records' = records
      BY <2>5 DEF Flush
    <3>2. CASE End(q)
      BY <3>1, <3>2, Moves DEF KeyIsFree, ExecutedOncePerKey
    <3>3. CASE ~End(q)
      <4>1. \A p \in Request : req[p].pc = "commit" => req[p].plan # req[q].plan
        BY <2>5 DEF Flush, Locked
      <4>2. records[req[q].plan][req[q].key] \in Nat
        BY <2>f DEF TradingTypeOK
      <4>3. records[req[q].plan][req[q].key] = 0
        BY <2>5, <3>3, <4>2 DEF Flush, KeyTaken
      <4> QED BY <2>5, <3>1, <3>3, <4>1, <4>3, Moves DEF KeyIsFree, ExecutedOncePerKey
    <3> QED BY <3>2, <3>3
  <2>6. ASSUME NEW q \in Request, Commit(q)
        PROVE  KeyIsFree' /\ ExecutedOncePerKey'
    <3>1. req[q].pc = "commit" /\ End(q)
      BY <2>6 DEF Commit
    <3>2. CASE records' = records
      BY <3>1, <3>2, Moves DEF KeyIsFree, ExecutedOncePerKey
    <3>3. CASE records' = [records EXCEPT ![req[q].plan][req[q].key] = @ + 1]
      <4>1. \A p \in Plan, k \in Key :
              records'[p][k] = IF p = req[q].plan /\ k = req[q].key
                               THEN records[p][k] + 1 ELSE records[p][k]
        BY <3>3, RecordStored
      <4>2. KeyIsFree'
        BY <2>f, <3>1, <4>1, Moves DEF KeyIsFree
      <4>3. ExecutedOncePerKey'
        BY <2>f, <3>1, <4>1 DEF KeyIsFree, ExecutedOncePerKey
      <4> QED BY <4>2, <4>3
    <3> QED BY <2>6, <3>2, <3>3 DEF Commit
  <2>7. CASE UNCHANGED vars
    BY <2>7 DEF vars, KeyIsFree, ExecutedOncePerKey
  <2> QED BY <2>1, <2>2, <2>3, <2>4, <2>5, <2>6, <2>7 DEF Next
<1>3. KeyInv => ExecutedOncePerKey
  BY DEF KeyInv
<1> QED BY <1>1, <1>2, <1>3, PTL DEF Spec

----------------------------------------------------------------------------
(* Requests handled one at a time.                                         *)

OneRequest == \A p, q \in Request : InFlight(p) /\ InFlight(q) => p = q

\* What the request in hand has read is still so.
ReadsHold ==
  \A q \in Request :
    LET r == req[q] IN
    /\ r.pc = "decide" => /\ status[r.plan] = "PENDING_CONFIRMATION"
                          /\ r.status \in {"CONFIRMED", "SKIPPED"}
    /\ r.pc \in {"flush", "commit"} =>
         /\ IsLatest(r.latest) /\ r.latest <= r.date
         /\ r.cash = snaps[r.latest].cash /\ 0 < r.debit /\ r.debit <= r.cash
         /\ status[r.plan] = r.loaded /\ r.loaded \in {"CONFIRMED", "PARTIALLY_FILLED"}
         /\ 0 < r.quantity /\ r.quantity <= Planned - filled[r.plan]
         /\ r.status = StatusAfter(r.plan, r.quantity)
    /\ r.pc = "commit" => r.exists = snaps[r.date].present

\* Before the flow is published there is nothing; afterwards the latest
\* snapshot has the cash the ledger adds up to.
Books ==
  /\ snaps[0].present => \E d \in Date : IsLatest(d) /\ snaps[d].cash = ledger
  /\ ~snaps[0].present => /\ ledger = 0
                          /\ \A d \in Date : ~snaps[d].present
                          /\ \A p \in Plan : status[p] = "absent"
  /\ ledger >= 0

TradingInv == TradingTypeOK /\ OneRequest /\ ReadsHold /\ Books /\ StatusOfFills

\* There is one latest snapshot.
LEMMA LatestIsOne ==
  ASSUME NEW d \in Date, snaps[0].present, IsLatest(d)
  PROVE  CashNow = snaps[d].cash
<1>1. \A e \in Date : IsLatest(e) => e = d
  BY DEF IsLatest, Date
<1>2. (CHOOSE e \in Date : IsLatest(e)) = d
  BY <1>1
<1> QED BY <1>2 DEF CashNow

LEMMA LatestIsOnePrimed ==
  ASSUME NEW d \in Date, snaps'[0].present, IsLatest(d)'
  PROVE  CashNow' = snaps'[d].cash
<1>1. \A e \in Date : IsLatest(e)' => e = d
  BY DEF IsLatest, Date
<1>2. (CHOOSE e \in Date : IsLatest(e)') = d
  BY <1>1
<1> QED BY <1>2 DEF CashNow

LEMMA CashIsLedger == TradingInv => CashNow = ledger
BY LatestIsOne DEF TradingInv, Books, CashNow

\* A stored execution: the snapshot of its date is the latest one and has the
\* cash that is left.
LEMMA CommitStores ==
  ASSUME TradingInv, NEW q \in Request, NEW d \in Date, d = req[q].date,
         Commit(q), ~SnapshotClash(q)
  PROVE  /\ snaps[0].present /\ snaps'[0].present
         /\ req[q].plan \in Plan
         /\ IsLatest(d)'
         /\ req[q].cash = ledger
         /\ snaps'[d].cash = ledger'
         /\ ledger' = ledger - req[q].debit
         /\ 0 < req[q].debit /\ req[q].debit <= ledger
         /\ 0 < req[q].quantity /\ req[q].quantity <= Planned - filled[req[q].plan]
         /\ status[req[q].plan] \in {"CONFIRMED", "PARTIALLY_FILLED"}
         /\ filled' = [filled EXCEPT ![req[q].plan] = @ + req[q].quantity]
         /\ status' = [status EXCEPT ![req[q].plan] = StatusAfter(req[q].plan, req[q].quantity)]
<1> DEFINE r == req[q]
<1>1. /\ r.date \in Date /\ r.latest \in Date /\ r.plan \in Plan /\ r.debit \in Int
      /\ r.quantity \in Int /\ r.cash \in Int /\ r.exists \in BOOLEAN
      /\ filled[r.plan] \in Int /\ ledger \in Int /\ status[r.plan] \in Status
  BY Fields DEF TradingInv, TradingTypeOK
<1>2. r.pc = "commit" /\ StoreSnapshot(q) /\ StoreStatus(q) /\ ledger' = ledger - r.debit
      /\ filled' = [filled EXCEPT ![r.plan] = @ + r.quantity]
  BY DEF Commit
<1>3. /\ IsLatest(r.latest) /\ r.latest <= r.date
      /\ r.cash = snaps[r.latest].cash /\ 0 < r.debit /\ r.debit <= r.cash
      /\ status[r.plan] = r.loaded /\ r.loaded \in {"CONFIRMED", "PARTIALLY_FILLED"}
      /\ 0 < r.quantity /\ r.quantity <= Planned - filled[r.plan]
      /\ r.status = StatusAfter(r.plan, r.quantity)
      /\ r.exists = snaps[r.date].present
  BY <1>2 DEF TradingInv, ReadsHold
<1>4. snaps[0].present
  BY <1>1, <1>3 DEF TradingInv, Books, IsLatest
<1>5. r.cash = ledger
  BY <1>1, <1>3, <1>4, LatestIsOne, CashIsLedger
<1>6. /\ \A e \in Date : snaps'[e].present = (snaps[e].present \/ (e = r.date /\ ~r.exists))
      /\ snaps'[r.date].cash = r.cash - r.debit
  BY <1>2, SnapshotStored DEF TradingInv
<1>7. snaps'[0].present
  BY <1>4, <1>6, Names
<1>8. IsLatest(d)'
  <2>1. snaps'[d].present
    BY <1>1, <1>3, <1>6
  <2>2. \A e \in Date : snaps'[e].present => snaps[e].present \/ e = d
    BY <1>6
  <2>3. /\ r.latest \in Int /\ d \in Int /\ r.latest <= d
        /\ \A e \in Date : snaps[e].present => e <= r.latest
        /\ \A e \in Date : e \in Int
    BY <1>1, <1>3 DEF IsLatest, Date
  <2>4. ASSUME NEW e \in Date, snaps'[e].present PROVE e <= d
    <3>1. CASE e = d
      BY <2>3, <3>1
    <3>2. CASE snaps[e].present
      BY <2>3, <3>2
    <3> QED BY <2>2, <2>4, <3>1, <3>2
  <2> QED BY <2>1, <2>4 DEF IsLatest
<1>9. status' = [status EXCEPT ![r.plan] = StatusAfter(r.plan, r.quantity)]
  BY <1>1, <1>2, <1>3 DEF StoreStatus, TradingInv, TradingTypeOK
<1> QED BY <1>1, <1>2, <1>3, <1>4, <1>5, <1>6, <1>7, <1>8, <1>9

LEMMA TradingInit == Init => TradingInv
<1> SUFFICES ASSUME Init PROVE OneRequest /\ ReadsHold /\ Books /\ StatusOfFills
  BY InitType DEF TradingInv
<1>1. \A q \in Request : req[q].pc = "idle"
  BY DEF Init, Idle
<1>2. \A d \in Date : ~snaps[d].present
  BY DEF Init, NoSnapshot
<1>3. Books
  BY <1>2, Names DEF Init, Books
<1>4. StatusOfFills
  BY DEF Init, StatusOfFills
<1> QED BY <1>1, <1>3, <1>4 DEF OneRequest, InFlight, ReadsHold

\* Every step keeps the invariant, as long as requests do not overlap and no
\* execution is dated back.
LEMMA TradingStep ==
  ASSUME Orderly, TradingInv, [Next]_vars
  PROVE  TradingInv'
<1>o. "overlap" \notin env /\ "backdated" \notin env
  BY DEF Orderly
<1> DEFINE Goal == OneRequest' /\ ReadsHold' /\ Books' /\ StatusOfFills'
<1> SUFFICES Goal
  BY TypeStep DEF TradingInv
<1>f. \A q \in Request : /\ req[q].plan \in Plan /\ req[q].date \in Date /\ req[q].latest \in Date
                         /\ req[q].pc \in Pc
  BY Fields DEF TradingInv
<1>i. ASSUME NEW q \in Request, InFlight(q), NEW p \in Request \ {q} PROVE req[p].pc = "idle"
  BY <1>i DEF TradingInv, OneRequest, InFlight
<1>e. ASSUME NEW q \in Request, InFlight(q), End(q) PROVE OneRequest' /\ ReadsHold'
  <2>1. \A p \in Request : req'[p].pc = "idle"
    BY <1>e, <1>i, Moves DEF TradingInv
  <2> QED BY <2>1 DEF OneRequest, ReadsHold, InFlight
<1>b. ASSUME UNCHANGED <<status, filled, ledger, snaps>> PROVE Books' /\ StatusOfFills'
  BY <1>b DEF TradingInv, Books, StatusOfFills, IsLatest
<1>1. CASE Publish
  <2>1. ~snaps[0].present /\ req' = req /\ filled' = filled /\ ledger' = Opening
    BY <1>1 DEF Publish
  <2>2. /\ \A d \in Date : ~snaps[d].present
        /\ \A p \in Plan : status[p] = "absent"
    BY <2>1 DEF TradingInv, Books
  <2>3. \A q \in Request : req[q].pc = "idle"
    BY <2>2, <1>f DEF TradingInv, ReadsHold, IsLatest, Pc
  <2>4. OneRequest' /\ ReadsHold'
    BY <2>1, <2>3 DEF OneRequest, ReadsHold, InFlight
  <2>5. StatusOfFills'
    <3>1. \A p \in Plan : filled[p] = 0
      BY <2>2 DEF TradingInv, StatusOfFills
    <3> QED BY <1>1, <2>1, <3>1 DEF Publish, StatusOfFills
  <2>6. /\ snaps'[0].present /\ snaps'[0].cash = Opening
        /\ \A d \in Date : d # 0 => ~snaps'[d].present
    BY <1>1, <2>2, Names DEF Publish, TradingInv, TradingTypeOK
  <2>7. IsLatest(0)'
    BY <2>6, Names DEF IsLatest, Date
  <2>8. Books'
    BY <2>1, <2>6, <2>7, Names DEF Books
  <2> QED BY <2>4, <2>5, <2>8
<1>2. CASE Expire
  <2>1. OneRequest' /\ ReadsHold'
    BY <1>2 DEF Expire, TradingInv, OneRequest, ReadsHold, InFlight, IsLatest, StatusAfter
  <2> QED BY <1>2, <1>b, <2>1 DEF Expire
<1>3. ASSUME NEW q \in Request, NEW p \in Plan, NEW decision \in {"CONFIRMED", "SKIPPED"},
             ReadPlan(q, p, decision)
      PROVE  Goal
  <2>1. /\ \A t \in Request : req[t].pc = "idle"
        /\ status[p] = "PENDING_CONFIRMATION"
        /\ UNCHANGED <<status, filled, ledger, snaps>>
    BY <1>o, <1>3 DEF ReadPlan, MayStart, InFlight, Decidable
  <2>2. OneRequest' /\ ReadsHold'
    BY <1>3, <2>1, Moves DEF TradingInv, OneRequest, ReadsHold, InFlight
  <2> QED BY <1>b, <2>1, <2>2
<1>4. ASSUME NEW q \in Request, NEW p \in Plan, NEW k \in Key, NEW n \in Quantity,
             NEW debit \in Debit, NEW date \in Date, NEW latest \in Date,
             ReadLedger(q, p, k, n, debit, date, latest)
      PROVE  Goal
  <2>1. /\ \A t \in Request : req[t].pc = "idle"
        /\ status[p] \in {"CONFIRMED", "PARTIALLY_FILLED"}
        /\ n <= Planned - filled[p] /\ debit <= snaps[latest].cash
        /\ IsLatest(latest) /\ latest <= date
        /\ UNCHANGED <<status, filled, ledger, snaps>>
    BY <1>o, <1>4 DEF ReadLedger, MayStart, InFlight, Fits, Affordable, DateAllowed, Date
  <2>2. 0 < n /\ 0 < debit
    BY DEF Quantity
  <2>3. OneRequest'
    <3>1. \A t \in Request \ {q} : req'[t] = req[t]
      BY <1>4, ReadsLedger DEF TradingInv
    <3> QED BY <2>1, <3>1 DEF OneRequest, InFlight
  <2>4. ReadsHold'
    <3>1. /\ req'[q].pc = "flush" /\ req'[q].plan = p /\ req'[q].quantity = n
          /\ req'[q].debit = debit /\ req'[q].date = date
          /\ req'[q].loaded = status[p] /\ req'[q].status = StatusAfter(p, n)
          /\ req'[q].latest = latest /\ req'[q].cash = snaps[latest].cash
      BY <1>4, ReadsLedger DEF TradingInv
    <3>2. \A t \in Request \ {q} : req'[t].pc = "idle"
      BY <1>4, <2>1, ReadsLedger DEF TradingInv
    <3>3. /\ \A e \in Date : snaps'[e].present => e <= latest
          /\ snaps'[latest].present /\ filled' = filled /\ status' = status
          /\ snaps'[latest].cash = snaps[latest].cash
      BY <2>1 DEF IsLatest
    <3> QED BY <2>1, <2>2, <3>1, <3>2, <3>3 DEF ReadsHold, IsLatest, StatusAfter
  <2> QED BY <1>b, <2>1, <2>3, <2>4
<1>5. ASSUME NEW q \in Request, Decide(q) PROVE Goal
  <2>1. /\ InFlight(q) /\ End(q)
        /\ status[req[q].plan] = "PENDING_CONFIRMATION"
        /\ req[q].status \in {"CONFIRMED", "SKIPPED"}
        /\ status' = [status EXCEPT ![req[q].plan] = req[q].status]
        /\ UNCHANGED <<filled, ledger, snaps>>
    BY <1>5 DEF Decide, TradingInv, ReadsHold, InFlight
  <2>2. StatusOfFills'
    BY <1>f, <2>1 DEF TradingInv, TradingTypeOK, StatusOfFills
  <2>3. Books'
    BY <1>f, <2>1 DEF TradingInv, TradingTypeOK, Books, IsLatest
  <2> QED BY <1>e, <2>1, <2>2, <2>3
<1>6. ASSUME NEW q \in Request, Flush(q) PROVE Goal
  <2>1. req[q].pc = "flush" /\ InFlight(q) /\ UNCHANGED <<status, filled, ledger, snaps>>
    BY <1>6 DEF Flush, InFlight
  <2>2. CASE End(q)
    BY <1>b, <1>e, <2>1, <2>2
  <2>3. CASE ~End(q)
    <3>1. \A p \in Request \ {q} : req'[p].pc = "idle"
      BY <1>6, <1>i, <2>1, <2>3, Moves DEF TradingInv
    <3>2. OneRequest'
      BY <3>1 DEF OneRequest, InFlight
    <3>3. ReadsHold'
      BY <1>6, <2>1, <2>3, <3>1, Moves DEF TradingInv, ReadsHold, IsLatest, StatusAfter
    <3> QED BY <1>b, <2>1, <3>2, <3>3
  <2> QED BY <2>2, <2>3
<1>7. ASSUME NEW q \in Request, Commit(q) PROVE Goal
  <2>1. InFlight(q) /\ End(q)
    BY <1>7 DEF Commit, InFlight
  <2>2. CASE SnapshotClash(q)
    <3>1. UNCHANGED <<status, filled, ledger, snaps>>
      BY <1>7, <2>2 DEF Commit
    <3> QED BY <1>b, <1>e, <2>1, <3>1
  <2>3. CASE ~SnapshotClash(q)
    <3>1. PICK d \in Date : d = req[q].date
      BY <1>f
    <3>2. /\ snaps'[0].present /\ IsLatest(d)' /\ snaps'[d].cash = ledger'
          /\ ledger' = ledger - req[q].debit /\ req[q].debit <= ledger
      BY <1>7, <2>3, <3>1, CommitStores
    <3>3. ledger \in Int /\ req[q].debit \in Int
      BY Fields DEF TradingInv, TradingTypeOK
    <3>4. Books'
      BY <3>2, <3>3 DEF Books
    <3>5. /\ filled' = [filled EXCEPT ![req[q].plan] = @ + req[q].quantity]
          /\ status' = [status EXCEPT ![req[q].plan] = StatusAfter(req[q].plan, req[q].quantity)]
          /\ 0 < req[q].quantity /\ req[q].quantity <= Planned - filled[req[q].plan]
          /\ status[req[q].plan] \in {"CONFIRMED", "PARTIALLY_FILLED"}
      BY <1>7, <2>3, <3>1, CommitStores
    <3>6. req[q].quantity \in Int /\ filled[req[q].plan] \in Int
      BY <1>f, Fields DEF TradingInv, TradingTypeOK
    <3>7. StatusOfFills'
      <4> DEFINE p == req[q].plan
      <4>1. p \in Plan /\ filled[p] >= 0
        BY <1>f, <3>5, <3>6 DEF TradingInv, StatusOfFills
      <4>2. /\ filled'[p] = filled[p] + req[q].quantity
            /\ status'[p] = StatusAfter(p, req[q].quantity)
            /\ \A t \in Plan : t # p => filled'[t] = filled[t] /\ status'[t] = status[t]
        BY <3>5, <4>1 DEF TradingInv, TradingTypeOK
      <4>3. CASE req[q].quantity = Planned - filled[p]
        <5>1. status'[p] = "FILLED" /\ filled'[p] = Planned
          BY <3>6, <4>2, <4>3 DEF StatusAfter
        <5> QED BY <4>2, <5>1 DEF TradingInv, StatusOfFills
      <4>4. CASE req[q].quantity # Planned - filled[p]
        <5>1. status'[p] = "PARTIALLY_FILLED" /\ filled'[p] \in 1 .. (Planned - 1)
          BY <3>5, <3>6, <4>1, <4>2, <4>4 DEF StatusAfter
        <5> QED BY <4>2, <5>1 DEF TradingInv, StatusOfFills
      <4> QED BY <4>3, <4>4
    <3> QED BY <1>e, <2>1, <3>4, <3>7
  <2> QED BY <2>2, <2>3
<1>8. CASE UNCHANGED vars
  <2>1. OneRequest' /\ ReadsHold'
    BY <1>8 DEF vars, TradingInv, OneRequest, ReadsHold, InFlight, IsLatest, StatusAfter
  <2> QED BY <1>8, <1>b, <2>1 DEF vars
<1> QED BY <1>1, <1>2, <1>3, <1>4, <1>5, <1>6, <1>7, <1>8 DEF Next

\* The use that is made of the service does not change.
LEMMA EnvFixed ==
  ASSUME [Next]_vars
  PROVE  env' = env /\ (Orderly' <=> Orderly)
<1>1. env' = env
  <2>1. CASE Publish \/ Expire \/ UNCHANGED vars
    BY <2>1 DEF Publish, Expire, vars
  <2>2. ASSUME NEW q \in Request, NEW p \in Plan, NEW decision, ReadPlan(q, p, decision)
        PROVE  env' = env
    BY <2>2 DEF ReadPlan
  <2>3. ASSUME NEW q \in Request, NEW p \in Plan, NEW k, NEW n, NEW debit, NEW date, NEW latest,
               ReadLedger(q, p, k, n, debit, date, latest)
        PROVE  env' = env
    BY <2>3 DEF ReadLedger
  <2>4. ASSUME NEW q \in Request, Decide(q) \/ Flush(q) \/ Commit(q)
        PROVE  env' = env
    BY <2>4 DEF Decide, Flush, Commit
  <2> QED BY <2>1, <2>2, <2>3, <2>4 DEF Next
<1> QED BY <1>1 DEF Orderly

\* The inductive invariant of the orderly use.
THEOREM TradingInvariant == Spec => [](Orderly => TradingInv)
<1> DEFINE Kept == Orderly => TradingInv
<1>1. Init => Kept
  BY TradingInit
<1>2. Kept /\ [Next]_vars => Kept'
  BY TradingStep, EnvFixed
<1> QED BY <1>1, <1>2, PTL DEF Spec

\* Handled one at a time and in the order of their dates, the executions
\* leave the latest snapshot with the cash the ledger adds up to.
THEOREM CashAlwaysReconciles == Spec => []CashReconciles
<1>1. (Orderly => TradingInv) => CashReconciles
  BY CashIsLedger DEF CashReconciles
<1> QED BY <1>1, TradingInvariant, PTL

\* Under the same conditions the ledger never spends what is not there.
THEOREM FillsAreCovered == Spec => []SpendingIsCovered
<1>1. (Orderly => TradingInv) => SpendingIsCovered
  BY DEF TradingInv, Books, LedgerNotNegative, SpendingIsCovered
<1> QED BY <1>1, TradingInvariant, PTL

\* Under the same conditions a plan's status tells how much of it is executed.
THEOREM StatusTellsFills == Spec => []StatusMatchesFills
<1>1. (Orderly => TradingInv) => StatusMatchesFills
  BY DEF TradingInv, StatusMatchesFills
<1> QED BY <1>1, TradingInvariant, PTL

----------------------------------------------------------------------------
(* Holdings, when all executions carry the plans' execution date.          *)

\* The opening snapshot stays without positions, that of the execution date
\* has what is filled, there is no other; and the request in hand has read
\* what is filled of its plan.
DayInv ==
  /\ \A d \in Date : d > 1 => ~snaps[d].present
  /\ snaps[0].held = NoPositions
  /\ snaps[1].present => snaps[1].held = filled
  /\ ~snaps[1].present => filled = NoPositions
  /\ \A q \in Request : req[q].pc \in {"flush", "commit"} =>
       req[q].date = 1 /\ req[q].held = filled[req[q].plan]

\* What the latest snapshot holds is what is filled.
LEMMA LatestHolds ==
  ASSUME TradingTypeOK, DayInv, NEW d \in Date, IsLatest(d)
  PROVE  d \in {0, 1} /\ snaps[d].held = filled /\ (d = 0 => ~snaps[1].present)
<1>1. d \in Nat /\ snaps[d].present /\ ~(d > 1)
  BY DEF IsLatest, Date, DayInv
<1>2. d = 0 => ~snaps[1].present
  BY Names DEF IsLatest
<1> QED BY <1>1, <1>2 DEF DayInv

\* The positions StoreSnapshot leaves when the row it updates is of the date.
LEMMA PositionsStored ==
  ASSUME TradingTypeOK, NEW q \in Request, StoreSnapshot(q), NEW old \in [Plan -> Int],
         req[q].exists => old = snaps[req[q].date].held /\ (req[q].held # 0 => req[q].latest = req[q].date),
         ~req[q].exists => old = NoPositions
  PROVE  /\ snaps'[req[q].date].held = [old EXCEPT ![req[q].plan] = req[q].held + req[q].quantity]
         /\ \A d \in Date : d # req[q].date => snaps'[d] = snaps[d]
<1> DEFINE r == req[q]
           n == r.held + r.quantity
           c == r.cash - r.debit
           held == [old EXCEPT ![r.plan] = n]
<1>1. r.date \in Date /\ r.plan \in Plan /\ n \in Int /\ c \in Int
  BY Fields
<1>2. held \in [Plan -> Int] /\ snaps \in [Date -> Snapshot]
  BY <1>1 DEF TradingTypeOK
<1>3. CASE r.exists
  <2> DEFINE first == [snaps[r.date] EXCEPT !.cash = c]
             mid == [snaps EXCEPT ![r.date] = first]
             second == [first EXCEPT !.held = held]
  <2>1. first \in Snapshot /\ first.held = old
    BY <1>1, <1>3, Fields DEF Snapshot
  <2> HIDE DEF first
  <2>2. mid \in [Date -> Snapshot] /\ mid[r.date] = first
        /\ \A e \in Date : e # r.date => mid[e] = snaps[e]
    BY <1>1, <1>2, <2>1, PutRow
  <2> HIDE DEF mid
  <2>3. second = Holding(mid[r.date], r.plan, n)
    BY <2>1, <2>2 DEF Holding
  <2>4. second \in Snapshot /\ second.held = held
    BY <1>2, <2>1 DEF Snapshot
  <2>5. snaps' = [mid EXCEPT ![r.date] = Holding(mid[r.date], r.plan, n)]
    BY <1>3 DEF StoreSnapshot, mid, first
  <2> HIDE DEF second
  <2>6. snaps' = [mid EXCEPT ![r.date] = second]
    BY <2>3, <2>5
  <2>7. snaps'[r.date] = second /\ \A e \in Date : e # r.date => snaps'[e] = mid[e]
    BY <1>1, <2>2, <2>4, <2>6, PutRow
  <2> QED BY <2>2, <2>4, <2>7
<1>4. CASE ~r.exists
  <2> DEFINE new == [present |-> TRUE, cash |-> c, held |-> held]
  <2>1. new \in Snapshot /\ new.held = held
    BY <1>1, <1>2 DEF Snapshot
  <2>2. snaps' = [snaps EXCEPT ![r.date] = new]
    BY <1>4 DEF StoreSnapshot
  <2> HIDE DEF new
  <2> QED BY <1>1, <1>2, <2>1, <2>2, PutRow
<1>5. r.exists \in BOOLEAN
  BY Fields
<1> QED BY <1>3, <1>4, <1>5

\* An execution of the day adds its quantity to the position of its plan.
LEMMA DayCommit ==
  ASSUME TradingInv, DayInv, NEW q \in Request, Commit(q), ~SnapshotClash(q)
  PROVE  DayInv'
<1> DEFINE r == req[q]
<1>1. /\ r.pc = "commit" /\ StoreSnapshot(q) /\ End(q)
      /\ filled' = [filled EXCEPT ![r.plan] = @ + r.quantity]
  BY DEF Commit
<1>2. /\ r.plan \in Plan /\ r.latest \in Date /\ TradingTypeOK
      /\ filled \in [Plan -> Int] /\ NoPositions \in [Plan -> Int]
  BY Fields DEF TradingInv, TradingTypeOK, NoPositions
<1>3. r.date = 1 /\ r.held = filled[r.plan]
  BY <1>1 DEF DayInv
<1>4. IsLatest(r.latest) /\ r.exists = snaps[1].present
  BY <1>1, <1>3 DEF TradingInv, ReadsHold
<1>5. r.exists => r.latest = 1
  BY <1>2, <1>4, LatestHolds
<1>6. r.exists => filled = snaps[1].held
  BY <1>4 DEF DayInv
<1>7. ~r.exists => filled = NoPositions
  BY <1>4 DEF DayInv
<1>8. /\ snaps'[1].held = [filled EXCEPT ![r.plan] = r.held + r.quantity]
      /\ \A d \in Date : d # 1 => snaps'[d] = snaps[d]
  <2>1. r.exists => filled = snaps[r.date].held /\ (r.held # 0 => r.latest = r.date)
    BY <1>3, <1>5, <1>6
  <2>2. /\ snaps'[r.date].held = [filled EXCEPT ![r.plan] = r.held + r.quantity]
        /\ \A d \in Date : d # r.date => snaps'[d] = snaps[d]
    BY <1>1, <1>2, <1>7, <2>1, PositionsStored
  <2> QED BY <1>3, <2>2
<1>9. snaps'[1].held = filled'
  BY <1>1, <1>2, <1>3, <1>8
<1>10. snaps'[1].present
  BY <1>1, <1>2, <1>3, <1>4, SnapshotStored, Names
<1>11. \A p \in Request : req'[p].pc = "idle"
  BY <1>1, <1>2, Moves DEF TradingInv, OneRequest, InFlight
<1>12. snaps'[0] = snaps[0] /\ \A d \in Date : d > 1 => snaps'[d] = snaps[d]
  BY <1>8, Names DEF Date
<1> QED BY <1>9, <1>10, <1>11, <1>12 DEF DayInv

\* With requests one at a time and all executions on the execution date, the
\* positions of the latest snapshot are exactly what the plans have filled.
THEOREM HoldingsAreFills == Spec => []HoldingsOfTheDay
<1> DEFINE Kept == env = {} => DayInv
<1>1. Init => Kept
  <2> SUFFICES ASSUME Init PROVE DayInv
    OBVIOUS
  <2>1. \A d \in Date : snaps[d] = NoSnapshot
    BY DEF Init
  <2>2. filled = NoPositions /\ \A q \in Request : req[q].pc = "idle"
    BY DEF Init, NoPositions, Idle
  <2> QED BY <2>1, <2>2, Names DEF DayInv, NoSnapshot
<1>2. ASSUME env = {}, TradingInv, DayInv, [Next]_vars PROVE DayInv'
  <2>f. \A q \in Request : req[q].plan \in Plan /\ req[q].pc \in Pc
    BY <1>2, Fields DEF TradingInv
  <2>1. CASE Publish
    <3>1. /\ \A d \in Date : ~snaps[d].present
          /\ filled' = filled /\ req' = req
          /\ snaps' = [snaps EXCEPT ![0] = [present |-> TRUE, cash |-> Opening, held |-> NoPositions]]
      BY <1>2, <2>1 DEF Publish, TradingInv, Books
    <3>2. snaps'[0].held = NoPositions /\ \A d \in Date : d # 0 => snaps'[d] = snaps[d]
      BY <1>2, <3>1, Names DEF TradingInv, TradingTypeOK
    <3>3. ~snaps[1].present /\ snaps'[1] = snaps[1]
      BY <3>1, <3>2, Names
    <3>4. \A d \in Date : d > 1 => snaps'[d] = snaps[d]
      BY <3>2 DEF Date
    <3> QED BY <1>2, <3>1, <3>2, <3>3, <3>4 DEF DayInv
  <2>2. ASSUME UNCHANGED <<snaps, filled>>,
               \A q \in Request : req'[q].pc \in {"flush", "commit"} =>
                 req'[q].date = 1 /\ req'[q].held = filled[req'[q].plan]
        PROVE  DayInv'
    BY <1>2, <2>2 DEF DayInv
  <2>3. ASSUME NEW q \in Request, NEW p \in Plan, NEW k \in Key, NEW n \in Quantity,
               NEW debit \in Debit, NEW date \in Date, NEW latest \in Date,
               ReadLedger(q, p, k, n, debit, date, latest)
        PROVE  DayInv'
    <3>1. /\ IsLatest(latest) /\ date = 1 /\ UNCHANGED <<snaps, filled>>
      BY <1>2, <2>3 DEF ReadLedger, DateAllowed
    <3>2. snaps[latest].held = filled
      BY <1>2, <3>1, LatestHolds DEF TradingInv
    <3>3. /\ req'[q].plan = p /\ req'[q].date = date /\ req'[q].held = snaps[latest].held[p]
          /\ \A t \in Request \ {q} : req'[t] = req[t]
      BY <1>2, <2>3, ReadsLedger DEF TradingInv
    <3> QED BY <1>2, <2>2, <3>1, <3>2, <3>3 DEF DayInv
  <2>4. ASSUME NEW q \in Request, NEW p \in Plan, NEW decision \in {"CONFIRMED", "SKIPPED"},
               ReadPlan(q, p, decision)
        PROVE  DayInv'
    <3>1. UNCHANGED <<snaps, filled>>
      BY <2>4 DEF ReadPlan
    <3>2. req'[q].pc = "decide" /\ \A t \in Request \ {q} : req'[t] = req[t]
      BY <1>2, <2>4, Moves DEF TradingInv
    <3> QED BY <1>2, <2>2, <3>1, <3>2 DEF DayInv
  <2>5. ASSUME NEW q \in Request, UNCHANGED <<snaps, filled>>, End(q) PROVE DayInv'
    <3>1. req'[q].pc = "idle" /\ \A t \in Request \ {q} : req'[t] = req[t]
      BY <1>2, <2>5, Moves DEF TradingInv
    <3> QED BY <1>2, <2>2, <2>5, <3>1 DEF DayInv
  <2>6. ASSUME NEW q \in Request, Flush(q), ~End(q) PROVE DayInv'
    <3>1. req[q].pc = "flush" /\ UNCHANGED <<snaps, filled>>
      BY <2>6 DEF Flush
    <3>2. /\ req'[q].plan = req[q].plan /\ req'[q].date = req[q].date
          /\ req'[q].held = req[q].held
          /\ \A t \in Request \ {q} : req'[t] = req[t]
      BY <1>2, <2>6, Moves DEF TradingInv
    <3> QED BY <1>2, <2>2, <3>1, <3>2 DEF DayInv
  <2>7. ASSUME NEW q \in Request, Decide(q) \/ (Flush(q) /\ End(q)) \/ Commit(q) PROVE DayInv'
    <3>1. CASE Commit(q) /\ ~SnapshotClash(q)
      BY <1>2, <3>1, DayCommit
    <3>2. CASE ~(Commit(q) /\ ~SnapshotClash(q))
      BY <2>5, <2>7, <3>2 DEF Decide, Flush, Commit
    <3> QED BY <3>1, <3>2
  <2>8. CASE Expire \/ UNCHANGED vars
    BY <1>2, <2>8 DEF Expire, vars, DayInv
  <2> QED BY <1>2, <2>1, <2>3, <2>4, <2>6, <2>7, <2>8 DEF Next
<1>3. (Orderly => TradingInv) /\ Kept /\ [Next]_vars => Kept'
  <2> SUFFICES ASSUME Orderly => TradingInv, Kept, [Next]_vars, env' = {} PROVE DayInv'
    OBVIOUS
  <2>1. env = {}
    BY EnvFixed
  <2>2. Orderly
    BY <2>1 DEF Orderly
  <2> QED BY <1>2, <2>1, <2>2
<1>4. (Orderly => TradingInv) /\ Kept => HoldingsOfTheDay
  <2> SUFFICES ASSUME Orderly => TradingInv, Kept, env = {}, NEW d \in Date, IsLatest(d)
               PROVE  snaps[d].held = filled
    BY DEF HoldingsOfTheDay
  <2>1. Orderly
    BY DEF Orderly
  <2> QED BY <2>1, LatestHolds DEF TradingInv
<1> QED BY <1>1, <1>3, <1>4, TradingInvariant, PTL DEF Spec

----------------------------------------------------------------------------
(* Refinement.                                                             *)

\* The requests implement OrderAccount: a decision is one Decide step, an
\* execution that commits one Fill step, everything else is invisible.
THEOREM TradingImplementsAccount == Spec => ImplementsAccount
<1>1. Init => Account!AccountInit
  <2> SUFFICES ASSUME Init PROVE Account!AccountInit
    OBVIOUS
  <2>1. ~snaps[0].present
    BY Names DEF Init, NoSnapshot
  <2> QED BY <2>1 DEF Init, Account!AccountInit, CashNow
<1>2. (Orderly => TradingInv) /\ (Orderly => TradingInv)' /\ [Next]_vars
        => [Account!AccountNext]_(Account!avars)
  <2> SUFFICES ASSUME Orderly, TradingInv, TradingInv', [Next]_vars,
                      ~UNCHANGED <<status, filled, CashNow>>
               PROVE  Account!AccountNext
    BY EnvFixed DEF Account!avars, Account!AccountNext
  <2>1. snaps' = snaps => CashNow' = CashNow
    BY DEF CashNow, IsLatest
  <2>2. CashNow = ledger /\ ledger \in Int
    BY CashIsLedger DEF TradingInv, TradingTypeOK
  <2>3. CASE Publish
    <3>1. \A p \in Plan : status[p] = "absent"
      BY <2>3 DEF Publish, TradingInv, Books
    <3>2. snaps'[0].present /\ snaps'[0].cash = Opening
      BY <2>3, Names DEF Publish, TradingInv, TradingTypeOK
    <3>3. \A d \in Date : d # 0 => ~snaps'[d].present
      BY <2>3, Names DEF Publish, TradingInv, Books, TradingTypeOK
    <3>4. IsLatest(0)'
      BY <3>2, <3>3, Names DEF IsLatest, Date
    <3>5. CashNow' = Opening
      BY <3>2, <3>4, Names, LatestIsOnePrimed
    <3> QED BY <2>3, <3>1, <3>5 DEF Publish, Account!Publish, Account!AccountNext
  <2>4. ASSUME NEW q \in Request, Decide(q) PROVE Account!AccountNext
    <3>1. /\ req[q].plan \in Plan
          /\ status[req[q].plan] = "PENDING_CONFIRMATION"
          /\ req[q].status \in {"CONFIRMED", "SKIPPED"}
      BY <2>4, Fields DEF Decide, TradingInv, ReadsHold
    <3>2. /\ status' = [status EXCEPT ![req[q].plan] = req[q].status]
          /\ filled' = filled /\ CashNow' = CashNow
      BY <2>1, <2>4 DEF Decide
    <3>3. Account!Decide(req[q].plan)
      BY <3>1, <3>2 DEF Account!Decide
    <3> QED BY <3>1, <3>3 DEF Account!AccountNext
  <2>5. ASSUME NEW q \in Request, Commit(q) PROVE Account!AccountNext
    <3>1. ~SnapshotClash(q)
      BY <2>1, <2>5 DEF Commit
    <3>2. PICK d \in Date : d = req[q].date
      BY Fields DEF TradingInv
    <3>3. /\ snaps'[0].present /\ IsLatest(d)' /\ snaps'[d].cash = ledger'
          /\ ledger' = ledger - req[q].debit /\ 0 < req[q].debit /\ req[q].debit <= ledger
          /\ req[q].plan \in Plan
          /\ 0 < req[q].quantity /\ req[q].quantity <= Planned - filled[req[q].plan]
          /\ status[req[q].plan] \in {"CONFIRMED", "PARTIALLY_FILLED"}
          /\ filled' = [filled EXCEPT ![req[q].plan] = @ + req[q].quantity]
          /\ status' = [status EXCEPT ![req[q].plan] = StatusAfter(req[q].plan, req[q].quantity)]
      BY <2>5, <3>1, <3>2, CommitStores
    <3>4. CashNow' = CashNow - req[q].debit
      BY <2>2, <3>3, LatestIsOnePrimed
    <3>5. /\ req[q].quantity \in 1 .. (Planned - filled[req[q].plan])
          /\ req[q].debit \in 1 .. CashNow
      <4>1. req[q].quantity \in Int /\ req[q].debit \in Int /\ filled[req[q].plan] \in Int
        BY <3>3, Fields DEF TradingInv, TradingTypeOK
      <4> QED BY <2>2, <3>3, <4>1
    <3>6. Account!Fill(req[q].plan)
      BY <3>3, <3>4, <3>5 DEF Account!Fill, StatusAfter
    <3> QED BY <3>3, <3>6 DEF Account!AccountNext
  <2>6. ASSUME NEW q \in Request, NEW p \in Plan, NEW decision, ReadPlan(q, p, decision)
        PROVE  FALSE
    BY <2>1, <2>6 DEF ReadPlan
  <2>7. ASSUME NEW q \in Request, NEW p \in Plan, NEW k, NEW n, NEW debit, NEW date, NEW latest,
               ReadLedger(q, p, k, n, debit, date, latest)
        PROVE  FALSE
    BY <2>1, <2>7 DEF ReadLedger
  <2>8. ASSUME NEW q \in Request, Flush(q) PROVE FALSE
    BY <2>1, <2>8 DEF Flush
  <2>9. ~Expire /\ ~UNCHANGED vars
    BY <2>1 DEF Expire, vars
  <2> QED BY <2>3, <2>4, <2>5, <2>6, <2>7, <2>8, <2>9 DEF Next
<1> QED BY <1>1, <1>2, TradingInvariant, PTL DEF Spec, ImplementsAccount, Account!AccountSpec
=============================================================================
