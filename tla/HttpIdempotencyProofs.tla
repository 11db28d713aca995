----------------------- MODULE HttpIdempotencyProofs -----------------------
(***************************************************************************)
(* For any number of keys, intents and requests and for both stores: until *)
(* reservations begin to expire a key's handler runs once and every replay *)
(* is the response of that one execution (IdempotencyInv); the process-    *)
(* local store separates the executions of a key for good (MemoryInv).     *)
(***************************************************************************)
EXTENDS HttpIdempotency, TLAPS

Client == [pc : Pc, key : Key, wants : Record, seen : Record]

\* A request that holds the reservation of its key, or has held it.
Owner(q) == q \in executed \/ client[q].pc \in {"handle", "complete"}

\* No record has expired.
Unexpired ==
  /\ clock <= Lifetime
  /\ \A k \in Key : Missing(records[k]) \/ records[k].expires > Lifetime

\* A request about to reserve saw no record and asks for a fresh one.
ReservesFresh ==
  \A q \in Request :
    client[q].pc = "reserve" =>
      /\ Missing(client[q].seen)
      /\ client[q].wants.expires > Lifetime
      /\ client[q].wants.result = NoResult

\* Owners of one key are one request, and the key has a record.
OneOwner ==
  /\ \A q \in Request : Owner(q) => ~Missing(records[client[q].key])
  /\ \A p, q \in Request :
       Owner(p) /\ Owner(q) /\ client[p].key = client[q].key => p = q
  /\ \A q \in executed : client[q].pc \in {"complete", "done"}
  /\ \A q \in Request : client[q].pc = "complete" => q \in executed

\* A stored or replayed response belongs to a finished request.
ResultIsOwn(p, k, i) ==
  /\ p \in executed
  /\ client[p].pc = "done"
  /\ client[p].key = k
  /\ client[p].wants.intent = i

StoredIsOwn ==
  \A k \in Key :
    records[k].result # NoResult => ResultIsOwn(records[k].result, k, records[k].intent)

ReplayedIsOwn ==
  \A q \in Request :
    replayed[q] # NoResult =>
      /\ client[q].pc = "done"
      /\ ResultIsOwn(replayed[q], client[q].key, client[q].wants.intent)

IdempotencyInv ==
  /\ IdempotencyTypeOK
  /\ Unexpired
  /\ ReservesFresh
  /\ OneOwner
  /\ StoredIsOwn
  /\ ReplayedIsOwn

----------------------------------------------------------------------------
\* What moving one request's program counter does to the client function.
LEMMA GotoFacts ==
  ASSUME IdempotencyTypeOK, NEW q \in Request, NEW pc \in Pc, Goto(q, pc)
  PROVE  /\ client' \in [Request -> Client]
         /\ client'[q].pc = pc
         /\ client'[q].key = client[q].key
         /\ client'[q].wants = client[q].wants
         /\ client'[q].seen = client[q].seen
         /\ \A p \in Request \ {q} : client'[p] = client[p]
BY DEF Goto, IdempotencyTypeOK, Client

\* While nothing expires, a free key is one without a record.
LEMMA FreeIsMissing ==
  ASSUME IdempotencyTypeOK, Unexpired, NEW k \in Key
  PROVE  Free(records[k]) <=> Missing(records[k])
BY TimeAssumption DEF IdempotencyTypeOK, Unexpired, Free, Expired, Missing, Record

\* A step of one request that makes it no owner leaves the owners alone.
LEMMA OwnersKeep ==
  ASSUME IdempotencyInv, NEW q \in Request,
         \A p \in Request \ {q} : client'[p] = client[p],
         executed' = executed,
         q \in executed => client[q].pc = "complete" /\ client'[q].key = client[q].key,
         client'[q].pc = "done",
         \A k \in Key : records'[k].expires = records[k].expires
  PROVE  OneOwner'
<1>1. \A p \in Request : Owner(p)' => Owner(p) /\ client'[p].key = client[p].key
  BY DEF Owner, IdempotencyInv, OneOwner
<1>2. \A p \in Request : client[p].key \in Key
  BY DEF IdempotencyInv, IdempotencyTypeOK
<1>3. \A p \in Request : Owner(p)' => ~Missing(records[client[p].key])'
  BY <1>1, <1>2 DEF IdempotencyInv, OneOwner, Missing
<1>4. \A p, r \in Request : Owner(p)' /\ Owner(r)' /\ client'[p].key = client'[r].key => p = r
  BY <1>1 DEF IdempotencyInv, OneOwner
<1>5. /\ \A p \in executed' : client'[p].pc \in {"complete", "done"}
      /\ \A p \in Request : client'[p].pc = "complete" => p \in executed'
  BY DEF IdempotencyInv, IdempotencyTypeOK, OneOwner
<1> QED
  BY <1>3, <1>4, <1>5 DEF OneOwner

\* A step of a request that has not finished leaves every stored and
\* replayed response with its owner, as long as it stores none itself.
LEMMA OthersKeepOwn ==
  ASSUME IdempotencyInv, NEW q \in Request, client[q].pc # "done",
         \A p \in Request \ {q} : client'[p] = client[p],
         replayed' = replayed, executed \subseteq executed',
         \A k \in Key : \/ records'[k] = records[k]
                        \/ records'[k].result = NoResult
  PROVE  StoredIsOwn' /\ ReplayedIsOwn'
<1>1. ASSUME NEW p \in Request, NEW k, NEW i, ResultIsOwn(p, k, i)
      PROVE  ResultIsOwn(p, k, i)'
  BY <1>1 DEF ResultIsOwn
<1>2. StoredIsOwn'
  BY <1>1 DEF IdempotencyInv, IdempotencyTypeOK, Record, StoredIsOwn
<1>3. ReplayedIsOwn'
  BY <1>1 DEF IdempotencyInv, IdempotencyTypeOK, ReplayedIsOwn
<1> QED
  BY <1>2, <1>3

LEMMA AcquireKeeps ==
  ASSUME IdempotencyInv, NEW q \in Request, NEW k \in Key, NEW i \in Intent,
         Acquire(q, k, i)
  PROVE  IdempotencyInv'
<1> DEFINE wants == [intent |-> i, expires |-> clock + Lifetime, result |-> NoResult]
           pc == IF store = "sql" THEN "reserve" ELSE "handle"
<1> USE TimeAssumption
<1>1. Missing(records[k]) /\ client[q].pc = "idle" /\ q \notin executed
  BY FreeIsMissing DEF Acquire, IdempotencyInv, OneOwner
<1>2. wants \in Record /\ wants.expires > Lifetime /\ records[k] \in Record
  BY DEF IdempotencyInv, IdempotencyTypeOK, Record
<1>3. client' = [client EXCEPT ![q] =
        [pc |-> pc, key |-> k, wants |-> wants, seen |-> records[k]]]
  BY DEF Acquire
<1>4. /\ client' \in [Request -> Client]
      /\ client'[q] = [pc |-> pc, key |-> k, wants |-> wants, seen |-> records[k]]
      /\ \A p \in Request \ {q} : client'[p] = client[p]
  BY <1>2, <1>3 DEF IdempotencyInv, IdempotencyTypeOK, Client, Pc
<1>5. CASE store = "sql"
  <2>1. records' = records /\ pc = "reserve"
    BY <1>5 DEF Acquire
  <2> QED
    BY <1>1, <1>2, <1>4, <2>1 DEF Acquire, IdempotencyInv, IdempotencyTypeOK,
       Unexpired, ReservesFresh, OneOwner, Owner, StoredIsOwn, ReplayedIsOwn,
       ResultIsOwn, Missing, Client
<1>6. CASE store # "sql"
  <2>1. records' = [records EXCEPT ![k] = wants] /\ pc = "handle"
    <3>1. Reserved(records[k], wants) = wants
      BY <1>1 DEF Reserved
    <3>2. records' = [records EXCEPT ![k] = Reserved(records[k], wants)]
      BY <1>6 DEF Acquire
    <3> QED
      BY <1>6, <3>1, <3>2, Zenon
  <2> QED
    BY <1>1, <1>2, <1>4, <2>1 DEF Acquire, IdempotencyInv, IdempotencyTypeOK,
       Unexpired, ReservesFresh, OneOwner, Owner, StoredIsOwn, ReplayedIsOwn,
       ResultIsOwn, Missing, Client
<1> QED
  BY <1>5, <1>6

LEMMA ReserveKeeps ==
  ASSUME IdempotencyInv, NEW q \in Request, Reserve(q)
  PROVE  IdempotencyInv'
<1> DEFINE k == client[q].key
<1>1. /\ client[q].pc = "reserve" /\ Missing(client[q].seen)
      /\ client[q].wants \in Record /\ client[q].wants.expires > Lifetime
      /\ client[q].wants.result = NoResult /\ k \in Key /\ q \notin executed
  BY DEF Reserve, IdempotencyInv, IdempotencyTypeOK, ReservesFresh, OneOwner
<1>2. CASE Missing(records[k])
  <2>1. /\ Goto(q, "handle") /\ records' = [records EXCEPT ![k] = client[q].wants]
        /\ UNCHANGED <<store, clock, executed, replayed>>
    BY <1>1, <1>2 DEF Reserve, InsertFails
  <2>2. /\ client' \in [Request -> Client]
        /\ client'[q].pc = "handle" /\ client'[q].key = k
        /\ \A p \in Request \ {q} : client'[p] = client[p]
    BY <2>1, GotoFacts DEF Pc, IdempotencyInv
  <2> QED
    <3>1. IdempotencyTypeOK' /\ Unexpired' /\ ReservesFresh'
      BY <1>1, <2>1, <2>2, TimeAssumption DEF IdempotencyInv,
         IdempotencyTypeOK, Unexpired, ReservesFresh, Missing, Client
    <3>2. OneOwner'
      <4>1. \A p \in Request : Owner(p)' => client'[p].key = client[p].key
                                           /\ (p = q \/ Owner(p))
        BY <2>1, <2>2 DEF Owner
      <4>2. \A p \in Request : client[p].key \in Key
        BY DEF IdempotencyInv, IdempotencyTypeOK
      <4>3. \A p \in Request \ {q} : Owner(p) => client[p].key # k
        BY <1>2 DEF IdempotencyInv, OneOwner
      <4>4. /\ ~Missing(records'[k])
            /\ \A l \in Key \ {k} : records'[l] = records[l]
        BY <1>1, <2>1, TimeAssumption DEF IdempotencyInv, IdempotencyTypeOK, Missing
      <4>5. \A p \in Request : Owner(p)' => ~Missing(records'[client'[p].key])
        BY <4>1, <4>2, <4>4 DEF IdempotencyInv, OneOwner
      <4>6. \A p, r \in Request :
              Owner(p)' /\ Owner(r)' /\ client'[p].key = client'[r].key => p = r
        BY <4>1, <4>3 DEF IdempotencyInv, OneOwner
      <4>7. /\ \A p \in executed' : client'[p].pc \in {"complete", "done"}
            /\ \A p \in Request : client'[p].pc = "complete" => p \in executed'
        BY <1>1, <2>1, <2>2 DEF IdempotencyInv, IdempotencyTypeOK, OneOwner
      <4> QED
        BY <4>5, <4>6, <4>7 DEF OneOwner, Missing
    <3>3. StoredIsOwn' /\ ReplayedIsOwn'
      BY <1>1, <2>1, <2>2, OthersKeepOwn DEF IdempotencyInv, IdempotencyTypeOK
    <3> QED
      BY <3>1, <3>2, <3>3 DEF IdempotencyInv
<1>3. CASE ~Missing(records[k])
  <2>1. Goto(q, "done") /\ UNCHANGED <<store, clock, records, executed, replayed>>
    BY <1>1, <1>3 DEF Reserve, InsertFails
  <2>2. /\ client' \in [Request -> Client]
        /\ client'[q].pc = "done" /\ client'[q].key = k
        /\ \A p \in Request \ {q} : client'[p] = client[p]
    BY <2>1, GotoFacts DEF Pc, IdempotencyInv
  <2> QED
    <3>1. IdempotencyTypeOK' /\ Unexpired' /\ ReservesFresh'
      BY <1>1, <2>1, <2>2 DEF IdempotencyInv, IdempotencyTypeOK, Unexpired,
         ReservesFresh, Client
    <3>2. OneOwner'
      BY <1>1, <2>1, <2>2, OwnersKeep
    <3>3. StoredIsOwn' /\ ReplayedIsOwn'
      BY <1>1, <2>1, <2>2, OthersKeepOwn DEF IdempotencyInv, IdempotencyTypeOK
    <3> QED
      BY <3>1, <3>2, <3>3 DEF IdempotencyInv
<1> QED
  BY <1>2, <1>3

LEMMA ReplayKeeps ==
  ASSUME IdempotencyInv, NEW q \in Request, NEW k \in Key, NEW i \in Intent,
         Replay(q, k, i)
  PROVE  IdempotencyInv'
<1>1. /\ client[q].pc = "idle" /\ q \notin executed /\ client[q] \in Client
      /\ records[k].result # NoResult
      /\ ResultIsOwn(records[k].result, k, i)
      /\ records[k].result \in Request
      /\ UNCHANGED <<store, clock, records, executed>>
      /\ replayed' = [replayed EXCEPT ![q] = records[k].result]
  BY DEF Replay, Matches, IdempotencyInv, IdempotencyTypeOK, OneOwner,
     StoredIsOwn, Client, Record
<1>2. /\ client' \in [Request -> Client]
      /\ client'[q].pc = "done" /\ client'[q].key = k /\ client'[q].wants.intent = i
      /\ \A p \in Request \ {q} : client'[p] = client[p]
  <2> DEFINE new == [pc |-> "done", key |-> k,
                     wants |-> [client[q].wants EXCEPT !.intent = i],
                     seen |-> client[q].seen]
  <2>1. client' = [client EXCEPT ![q] = new]
    BY DEF Replay
  <2>2. new \in Client /\ new.pc = "done" /\ new.key = k /\ new.wants.intent = i
    BY <1>1 DEF Client, Record, Pc
  <2> HIDE DEF new
  <2> QED
    BY <2>1, <2>2 DEF IdempotencyInv, IdempotencyTypeOK, Client
<1>3. IdempotencyTypeOK' /\ Unexpired' /\ ReservesFresh'
  BY <1>1, <1>2 DEF IdempotencyInv, IdempotencyTypeOK, Unexpired,
     ReservesFresh, Client
<1>4. OneOwner'
  BY <1>1, <1>2, OwnersKeep
<1>5. ASSUME NEW p \in Request, NEW l, NEW j, ResultIsOwn(p, l, j)
      PROVE  ResultIsOwn(p, l, j)'
  BY <1>1, <1>2, <1>5 DEF ResultIsOwn
<1>6. StoredIsOwn'
  BY <1>1, <1>5 DEF IdempotencyInv, IdempotencyTypeOK, Record, StoredIsOwn
<1>7. ReplayedIsOwn'
  <2> SUFFICES ASSUME NEW p \in Request, replayed'[p] # NoResult
               PROVE  /\ client'[p].pc = "done"
                      /\ ResultIsOwn(replayed[p], client[p].key, client[p].wants.intent)'
    BY DEF ReplayedIsOwn
  <2>1. CASE p = q
    BY <1>1, <1>2, <1>5, <2>1 DEF IdempotencyInv, IdempotencyTypeOK, ResultIsOwn
  <2>2. CASE p # q
    BY <1>1, <1>2, <1>5, <2>2 DEF IdempotencyInv, IdempotencyTypeOK,
       ReplayedIsOwn, ResultIsOwn
  <2> QED
    BY <2>1, <2>2
<1> QED
  BY <1>3, <1>4, <1>6, <1>7 DEF IdempotencyInv

LEMMA HandleKeeps ==
  ASSUME IdempotencyInv, NEW q \in Request, Handle(q)
  PROVE  IdempotencyInv'
<1>1. /\ client' \in [Request -> Client]
      /\ client'[q].pc = "complete" /\ client'[q].key = client[q].key
      /\ \A p \in Request \ {q} : client'[p] = client[p]
  BY GotoFacts DEF Handle, Pc, IdempotencyInv
<1>2. client[q].pc = "handle" /\ executed' = executed \cup {q}
      /\ UNCHANGED <<store, clock, records, replayed>>
  BY DEF Handle
<1>3. IdempotencyTypeOK' /\ Unexpired' /\ ReservesFresh'
  BY <1>1, <1>2 DEF IdempotencyInv, IdempotencyTypeOK, Unexpired, ReservesFresh, Client
<1>4. OneOwner'
  <2>1. \A p \in Request : Owner(p)' <=> Owner(p)
    BY <1>1, <1>2 DEF Owner
  <2>2. \A p \in Request : client'[p].key = client[p].key
    BY <1>1
  <2> QED BY <1>1, <1>2, <2>1, <2>2 DEF IdempotencyInv, IdempotencyTypeOK, OneOwner
<1>5. ASSUME NEW p, NEW k, NEW i, ResultIsOwn(p, k, i)
      PROVE  p \in executed' /\ client'[p] = client[p]
  BY <1>1, <1>2, <1>5 DEF IdempotencyInv, IdempotencyTypeOK, ResultIsOwn
<1>6. StoredIsOwn'
  BY <1>2, <1>5 DEF IdempotencyInv, StoredIsOwn, ResultIsOwn
<1>7. ReplayedIsOwn'
  <2> SUFFICES ASSUME NEW p \in Request, replayed'[p] # NoResult
               PROVE  /\ client'[p].pc = "done"
                      /\ ResultIsOwn(replayed[p], client[p].key, client[p].wants.intent)'
    BY DEF ReplayedIsOwn
  <2>1. /\ client[p].pc = "done"
        /\ ResultIsOwn(replayed[p], client[p].key, client[p].wants.intent)
    BY <1>2 DEF IdempotencyInv, ReplayedIsOwn
  <2>2. client'[p] = client[p]
    BY <1>1, <1>2, <2>1
  <2> QED BY <1>2, <1>5, <2>1, <2>2 DEF ResultIsOwn
<1> QED
  BY <1>3, <1>4, <1>6, <1>7 DEF IdempotencyInv

LEMMA CompleteKeeps ==
  ASSUME IdempotencyInv, NEW q \in Request, Complete(q)
  PROVE  IdempotencyInv'
<1> DEFINE k == client[q].key
<1>0. k \in Key /\ records[k] \in Record /\ client[q].pc = "complete"
  BY DEF Complete, IdempotencyInv, IdempotencyTypeOK
<1>1. /\ client' \in [Request -> Client]
      /\ client'[q].pc = "done" /\ client'[q].key = k
      /\ client'[q].wants = client[q].wants
      /\ \A p \in Request \ {q} : client'[p] = client[p]
  BY GotoFacts DEF Complete, Pc, IdempotencyInv
<1>2. /\ UNCHANGED <<store, clock, executed, replayed>> /\ q \in executed
      /\ \/ records' = records
         \/ /\ records' = [records EXCEPT ![k].result = q]
            /\ records[k].intent = client[q].wants.intent
  BY <1>0 DEF Complete, StillOwner, IdempotencyInv, OneOwner
<1>3. /\ records' \in [Key -> Record]
      /\ \A l \in Key : /\ records'[l].expires = records[l].expires
                        /\ records'[l].intent = records[l].intent
                        /\ \/ records'[l].result = records[l].result
                           \/ /\ l = k /\ records'[l].result = q
                              /\ records[k].intent = client[q].wants.intent
  <2>1. CASE records' = records
    BY <2>1 DEF IdempotencyInv, IdempotencyTypeOK
  <2>2. CASE /\ records' = [records EXCEPT ![k].result = q]
             /\ records[k].intent = client[q].wants.intent
    <3> DEFINE new == [records[k] EXCEPT !.result = q]
    <3>1. /\ new \in Record /\ new.expires = records[k].expires
          /\ new.intent = records[k].intent /\ new.result = q
      BY <1>0 DEF Record
    <3>2. records' = [records EXCEPT ![k] = new]
      BY <2>2
    <3> HIDE DEF new
    <3> QED BY <1>0, <2>2, <3>1, <3>2 DEF IdempotencyInv, IdempotencyTypeOK
  <2> QED BY <1>2, <2>1, <2>2
<1>4. IdempotencyTypeOK' /\ Unexpired' /\ ReservesFresh'
  <2>1. IdempotencyTypeOK'
    BY <1>1, <1>2, <1>3 DEF IdempotencyInv, IdempotencyTypeOK, Client
  <2>2. Unexpired'
    BY <1>2, <1>3 DEF IdempotencyInv, Unexpired, Missing
  <2>3. ReservesFresh'
    BY <1>1 DEF IdempotencyInv, ReservesFresh
  <2> QED BY <2>1, <2>2, <2>3
<1>5. OneOwner'
  BY <1>0, <1>1, <1>2, <1>3, OwnersKeep
<1>6. ASSUME NEW p \in Request, NEW l, NEW j, ResultIsOwn(p, l, j)
      PROVE  ResultIsOwn(p, l, j)'
  BY <1>0, <1>1, <1>2, <1>6 DEF ResultIsOwn
<1>7. ResultIsOwn(q, k, client[q].wants.intent)'
  BY <1>1, <1>2 DEF ResultIsOwn
<1>8. StoredIsOwn'
  <2> SUFFICES ASSUME NEW l \in Key, records'[l].result # NoResult
               PROVE  ResultIsOwn(records[l].result, l, records[l].intent)'
    BY DEF StoredIsOwn
  <2>1. CASE records'[l].result = records[l].result
    BY <1>3, <1>6, <2>1 DEF IdempotencyInv, IdempotencyTypeOK, Record,
       StoredIsOwn, ResultIsOwn
  <2>2. CASE l = k /\ records'[l].result = q /\ records[k].intent = client[q].wants.intent
    BY <1>1, <1>2, <1>3, <2>2 DEF ResultIsOwn
  <2> QED
    BY <1>3, <2>1, <2>2
<1>9. ReplayedIsOwn'
  BY <1>0, <1>1, <1>2, <1>6 DEF IdempotencyInv, IdempotencyTypeOK,
     ReplayedIsOwn, ResultIsOwn
<1> QED
  BY <1>4, <1>5, <1>8, <1>9 DEF IdempotencyInv

\* Refusing and abandoning only end a request.
LEMMA EndKeeps ==
  ASSUME IdempotencyInv, NEW q \in Request, Goto(q, "done"),
         client[q].pc \in {"idle", "handle", "complete"},
         UNCHANGED <<store, clock, records, executed, replayed>>
  PROVE  IdempotencyInv'
<1>1. /\ client' \in [Request -> Client]
      /\ client'[q].pc = "done" /\ client'[q].key = client[q].key
      /\ \A p \in Request \ {q} : client'[p] = client[p]
  BY GotoFacts DEF Pc, IdempotencyInv
<1>2. IdempotencyTypeOK' /\ Unexpired' /\ ReservesFresh'
  BY <1>1 DEF IdempotencyInv, IdempotencyTypeOK, Unexpired, ReservesFresh, Client
<1>3. OneOwner'
  BY <1>1 DEF IdempotencyInv, IdempotencyTypeOK, OneOwner, Owner
<1>4. StoredIsOwn' /\ ReplayedIsOwn'
  BY <1>1, OthersKeepOwn DEF IdempotencyInv, IdempotencyTypeOK
<1> QED
  BY <1>2, <1>3, <1>4 DEF IdempotencyInv

\* The clock passing, or nothing happening.
LEMMA TickKeeps ==
  ASSUME IdempotencyInv, clock' <= Lifetime,
         Tick \/ UNCHANGED vars
  PROVE  IdempotencyInv'
<1>1. /\ UNCHANGED <<store, records, client, executed, replayed>>
      /\ clock' \in Nat \ {0} /\ clock' <= Lifetime
  BY TimeAssumption DEF Tick, vars, IdempotencyInv, IdempotencyTypeOK, Unexpired
<1> QED
  BY <1>1 DEF IdempotencyInv, IdempotencyTypeOK, Unexpired, ReservesFresh,
     OneOwner, Owner, StoredIsOwn, ReplayedIsOwn, ResultIsOwn, Missing

LEMMA InitKeeps ==
  ASSUME Init
  PROVE  IdempotencyInv
<1>1. Empty \in Record /\ Empty.expires = 0 /\ Empty.result = NoResult
  BY KeyAssumption DEF Empty, Record
<1>2. (CHOOSE k \in Key : TRUE) \in Key
  BY KeyAssumption
<1>3. /\ \A q \in Request : client[q].pc = "idle"
      /\ client \in [Request -> Client]
      /\ \A k \in Key : records[k] = Empty
      /\ records \in [Key -> Record]
  BY <1>1, <1>2 DEF Init, Client, Pc
<1>4. store \in Stores /\ clock = 1 /\ executed = {} /\ replayed = [q \in Request |-> NoResult]
  BY Zenon DEF Init
<1>5. IdempotencyTypeOK
  BY <1>3, <1>4 DEF IdempotencyTypeOK, Client
<1>6. Unexpired /\ ReservesFresh /\ OneOwner
  BY <1>1, <1>3, <1>4, TimeAssumption DEF Unexpired, ReservesFresh, OneOwner,
     Owner, Missing
<1>7. StoredIsOwn /\ ReplayedIsOwn
  BY <1>1, <1>3, <1>4 DEF StoredIsOwn, ReplayedIsOwn
<1> QED
  BY <1>5, <1>6, <1>7 DEF IdempotencyInv

----------------------------------------------------------------------------
\* Every step keeps the types, also after reservations have expired.
LEMMA TypeStep ==
  ASSUME IdempotencyTypeOK, [Next]_vars
  PROVE  IdempotencyTypeOK'
<1> USE TimeAssumption
<1>1. ASSUME NEW q \in Request, NEW k \in Key, NEW i \in Intent, Acquire(q, k, i)
      PROVE  IdempotencyTypeOK'
  <2> DEFINE wants == [intent |-> i, expires |-> clock + Lifetime, result |-> NoResult]
             pc == IF store = "sql" THEN "reserve" ELSE "handle"
  <2>1. wants \in Record /\ records[k] \in Record /\ pc \in Pc
    BY DEF IdempotencyTypeOK, Record, Pc
  <2>2. Reserved(records[k], wants) \in Record
    BY <2>1 DEF Reserved, Record
  <2>3. client' = [client EXCEPT ![q] =
          [pc |-> pc, key |-> k, wants |-> wants, seen |-> records[k]]]
    BY <1>1 DEF Acquire
  <2>4. client' \in [Request -> [pc : Pc, key : Key, wants : Record, seen : Record]]
    <3> HIDE DEF wants, pc
    <3> QED BY <2>1, <2>3 DEF IdempotencyTypeOK
  <2>5. records' \in [Key -> Record]
    <3>1. \/ records' = records
          \/ records' = [records EXCEPT ![k] = Reserved(records[k], wants)]
      BY <1>1 DEF Acquire
    <3> HIDE DEF wants
    <3> QED BY <2>2, <3>1 DEF IdempotencyTypeOK
  <2> QED BY <1>1, <2>4, <2>5 DEF Acquire, IdempotencyTypeOK
<1>2. ASSUME NEW q \in Request, Reserve(q) PROVE IdempotencyTypeOK'
  <2>1. client' \in [Request -> Client]
    BY <1>2, GotoFacts DEF Reserve, Pc
  <2>2. /\ client[q].key \in Key /\ records[client[q].key] \in Record
        /\ client[q].wants \in Record
    BY DEF IdempotencyTypeOK
  <2>3. Updated(records[client[q].key], client[q].seen, client[q].wants) \in Record
    BY <2>2 DEF Updated, Record
  <2>4. records' \in [Key -> Record]
    BY <1>2, <2>2, <2>3 DEF Reserve, IdempotencyTypeOK
  <2> QED BY <1>2, <2>1, <2>4 DEF Reserve, IdempotencyTypeOK, Client
<1>3. ASSUME NEW q \in Request, NEW k \in Key, NEW i \in Intent, Replay(q, k, i)
      PROVE  IdempotencyTypeOK'
  <2> DEFINE new == [pc |-> "done", key |-> k,
                     wants |-> [client[q].wants EXCEPT !.intent = i],
                     seen |-> client[q].seen]
  <2>1. new \in [pc : Pc, key : Key, wants : Record, seen : Record]
    BY DEF IdempotencyTypeOK, Record, Pc
  <2>2. client' = [client EXCEPT ![q] = new]
    BY <1>3 DEF Replay
  <2>3. records[k].result \in Request \cup {NoResult}
    BY DEF IdempotencyTypeOK, Record
  <2> HIDE DEF new
  <2> QED BY <1>3, <2>1, <2>2, <2>3 DEF Replay, IdempotencyTypeOK
<1>4. ASSUME NEW q \in Request,
             Handle(q) \/ Abandon(q) \/ \E k \in Key, i \in Intent : Refuse(q, k, i)
      PROVE  IdempotencyTypeOK'
  <2>1. client' \in [Request -> Client]
    BY <1>4, GotoFacts DEF Handle, Abandon, Refuse, Pc
  <2> QED BY <1>4, <2>1 DEF Handle, Abandon, Refuse, IdempotencyTypeOK, Client
<1>5. ASSUME NEW q \in Request, Complete(q) PROVE IdempotencyTypeOK'
  <2>1. client' \in [Request -> Client]
    BY <1>5, GotoFacts DEF Complete, Pc
  <2>2. records' \in [Key -> Record]
    BY <1>5 DEF Complete, IdempotencyTypeOK, Record
  <2> QED BY <1>5, <2>1, <2>2 DEF Complete, IdempotencyTypeOK, Client
<1>6. CASE Tick \/ Finished \/ UNCHANGED vars
  BY <1>6 DEF Tick, Finished, vars, IdempotencyTypeOK
<1> QED
  BY <1>1, <1>2, <1>3, <1>4, <1>5, <1>6 DEF Next

\* Time does not run backwards.
LEMMA ClockGrows ==
  ASSUME IdempotencyTypeOK, [Next]_vars
  PROVE  clock <= clock' /\ store' = store
<1>1. CASE Tick
  BY <1>1 DEF Tick, IdempotencyTypeOK
<1>2. ASSUME clock' = clock, store' = store
      PROVE  clock <= clock' /\ store' = store
  BY <1>2 DEF IdempotencyTypeOK
<1>3. ASSUME NEW q \in Request, NEW k \in Key, NEW i \in Intent,
             Acquire(q, k, i) \/ Replay(q, k, i) \/ Refuse(q, k, i)
      PROVE  clock' = clock /\ store' = store
  BY <1>3 DEF Acquire, Replay, Refuse
<1>4. ASSUME NEW q \in Request, Reserve(q) \/ Handle(q) \/ Complete(q) \/ Abandon(q)
      PROVE  clock' = clock /\ store' = store
  BY <1>4 DEF Reserve, Handle, Complete, Abandon
<1>5. ASSUME Finished \/ UNCHANGED vars
      PROVE  clock' = clock /\ store' = store
  BY <1>5 DEF Finished, vars
<1> QED
  BY <1>1, <1>2, <1>3, <1>4, <1>5 DEF Next

\* Steps taken before the first reservation can expire keep the invariant.
LEMMA InvStep ==
  ASSUME IdempotencyInv, [Next]_vars, clock' <= Lifetime
  PROVE  IdempotencyInv'
<1>1. ASSUME NEW q \in Request, NEW k \in Key, NEW i \in Intent,
             Acquire(q, k, i) \/ Replay(q, k, i) \/ Refuse(q, k, i)
      PROVE  IdempotencyInv'
  BY <1>1, AcquireKeeps, ReplayKeeps, EndKeeps DEF Refuse
<1>2. ASSUME NEW q \in Request,
             Reserve(q) \/ Handle(q) \/ Complete(q) \/ Abandon(q)
      PROVE  IdempotencyInv'
  BY <1>2, ReserveKeeps, HandleKeeps, CompleteKeeps, EndKeeps DEF Abandon
<1>3. CASE Tick \/ Finished \/ UNCHANGED vars
  BY <1>3, TickKeeps DEF Finished
<1> QED
  BY <1>1, <1>2, <1>3 DEF Next

WithinLifetime == IdempotencyTypeOK /\ (clock <= Lifetime => IdempotencyInv)

\* The inductive invariant of both stores until reservations expire.
THEOREM IdempotencyInvariant == Spec => []WithinLifetime
<1>1. Init => WithinLifetime
  BY InitKeeps DEF WithinLifetime, IdempotencyInv
<1>2. WithinLifetime /\ [Next]_vars => WithinLifetime'
  <2> SUFFICES ASSUME WithinLifetime, [Next]_vars PROVE WithinLifetime'
    OBVIOUS
  <2>1. IdempotencyTypeOK'
    BY TypeStep DEF WithinLifetime
  <2>2. ASSUME clock' <= Lifetime PROVE IdempotencyInv'
    <3>1. clock <= Lifetime
      BY <2>1, <2>2, ClockGrows, TimeAssumption DEF WithinLifetime, IdempotencyTypeOK
    <3> QED BY <2>2, <3>1, InvStep DEF WithinLifetime
  <2> QED BY <2>1, <2>2 DEF WithinLifetime
<1> QED
  BY <1>1, <1>2, PTL DEF Spec

----------------------------------------------------------------------------
(* The process-local store, through expiry.                                *)

\* Two reservations, the later one made after the earlier had expired.
Apart(p, q) ==
  \/ client[p].wants.expires + Lifetime <= client[q].wants.expires
  \/ client[q].wants.expires + Lifetime <= client[p].wants.expires

\* A key's record carries the latest reservation, and the owners of a key
\* came one lifetime after another.
MemoryInv ==
  /\ \A q \in Request : client[q].pc # "reserve"
  /\ \A q \in executed : client[q].pc \in {"complete", "done"}
  /\ \A q \in Request :
       Owner(q) => client[q].wants.expires <= records[client[q].key].expires
  /\ \A p, q \in Request :
       Owner(p) /\ Owner(q) /\ p # q /\ client[p].key = client[q].key => Apart(p, q)

LEMMA MemoryStep ==
  ASSUME IdempotencyTypeOK, MemoryInv, store = "memory", [Next]_vars
  PROVE  MemoryInv'
<1> USE TimeAssumption
<1>1. ASSUME NEW q \in Request, NEW k \in Key, NEW i \in Intent, Acquire(q, k, i)
      PROVE  MemoryInv'
  <2> DEFINE wants == [intent |-> i, expires |-> clock + Lifetime, result |-> NoResult]
  <2>1. /\ client[q].pc = "idle" /\ q \notin executed /\ executed' = executed
        /\ records[k].expires \in Nat /\ records[k].expires <= clock /\ clock \in Nat
    BY <1>1 DEF Acquire, MemoryInv, Free, Missing, Expired, IdempotencyTypeOK, Record
  <2>2. /\ client'[q] = [pc |-> "handle", key |-> k, wants |-> wants, seen |-> records[k]]
        /\ \A p \in Request \ {q} : client'[p] = client[p]
    BY <1>1 DEF Acquire, IdempotencyTypeOK
  <2>3. /\ records'[k].expires = clock + Lifetime
        /\ \A l \in Key \ {k} : records'[l] = records[l]
    <3>1. records' = [records EXCEPT ![k] = Reserved(records[k], wants)]
      BY <1>1 DEF Acquire
    <3>2. Reserved(records[k], wants).expires = clock + Lifetime
      BY DEF Reserved
    <3> HIDE DEF wants
    <3> QED BY <3>1, <3>2 DEF IdempotencyTypeOK
  <2>4. \A p \in Request : client[p].key \in Key /\ client[p].wants.expires \in Nat
    BY DEF IdempotencyTypeOK, Record
  <2>5. \A p \in Request \ {q} : Owner(p)' => Owner(p)
    BY <2>1, <2>2 DEF Owner
  <2>6. \A p \in Request :
          Owner(p)' => client'[p].wants.expires <= records'[client'[p].key].expires
    <3> SUFFICES ASSUME NEW p \in Request, Owner(p)'
                 PROVE  client'[p].wants.expires <= records'[client'[p].key].expires
      OBVIOUS
    <3>1. CASE p = q
      BY <2>1, <2>2, <2>3, <3>1
    <3>2. CASE p # q
      BY <2>1, <2>2, <2>3, <2>4, <2>5, <3>2 DEF MemoryInv
    <3> QED BY <3>1, <3>2
  <2>7. \A p \in Request \ {q} :
          Owner(p)' /\ client'[p].key = k =>
            client'[p].wants.expires + Lifetime <= client'[q].wants.expires
    BY <2>1, <2>2, <2>4, <2>5 DEF MemoryInv
  <2>8. \A p, r \in Request :
          Owner(p)' /\ Owner(r)' /\ p # r /\ client'[p].key = client'[r].key => Apart(p, r)'
    <3> SUFFICES ASSUME NEW p \in Request, NEW r \in Request, Owner(p)', Owner(r)', p # r,
                        client'[p].key = client'[r].key
                 PROVE  Apart(p, r)'
      OBVIOUS
    <3>1. CASE p = q \/ r = q
      BY <2>2, <2>7, <3>1 DEF Apart
    <3>2. CASE p # q /\ r # q
      BY <2>2, <2>5, <3>2 DEF Apart, MemoryInv
    <3> QED BY <3>1, <3>2
  <2>9. /\ \A p \in Request : client'[p].pc # "reserve"
        /\ \A p \in executed' : client'[p].pc \in {"complete", "done"}
    BY <2>1, <2>2 DEF MemoryInv, IdempotencyTypeOK
  <2> QED BY <2>6, <2>8, <2>9 DEF MemoryInv
<1>2. ASSUME NEW q \in Request, NEW k \in Key, NEW i \in Intent, Replay(q, k, i)
      PROVE  MemoryInv'
  <2>1. client[q].pc = "idle" /\ q \notin executed
    BY <1>2 DEF Replay, MemoryInv
  <2>2. client'[q].pc = "done" /\ \A p \in Request \ {q} : client'[p] = client[p]
    BY <1>2 DEF Replay, IdempotencyTypeOK
  <2> QED BY <1>2, <2>1, <2>2 DEF Replay, MemoryInv, Owner, Apart, IdempotencyTypeOK
<1>3. ASSUME NEW q \in Request,
             Abandon(q) \/ Complete(q) \/ \E k \in Key, i \in Intent : Refuse(q, k, i)
      PROVE  MemoryInv'
  <2>1. Goto(q, "done") /\ executed' = executed
    BY <1>3 DEF Abandon, Complete, Refuse
  <2>2. /\ client'[q].pc = "done"
        /\ \A p \in Request : /\ client'[p].key = client[p].key
                              /\ client'[p].wants = client[p].wants
        /\ \A p \in Request \ {q} : client'[p] = client[p]
    BY <2>1, GotoFacts DEF Pc
  <2>3. \A l \in Key : records'[l].expires = records[l].expires
    BY <1>3 DEF Abandon, Complete, Refuse, IdempotencyTypeOK, Record
  <2>4. \A p \in Request : client[p].key \in Key
    BY DEF IdempotencyTypeOK
  <2>5. \A p \in Request : Owner(p)' => Owner(p)
    BY <2>1, <2>2 DEF Owner
  <2> QED BY <2>1, <2>2, <2>3, <2>4, <2>5 DEF MemoryInv, Apart, IdempotencyTypeOK
<1>4. ASSUME NEW q \in Request, Handle(q)
      PROVE  MemoryInv'
  <2>1. /\ client[q].pc = "handle" /\ Goto(q, "complete")
        /\ executed' = executed \cup {q} /\ records' = records
    BY <1>4 DEF Handle
  <2>2. /\ client'[q].pc = "complete"
        /\ \A p \in Request : /\ client'[p].key = client[p].key
                              /\ client'[p].wants = client[p].wants
        /\ \A p \in Request \ {q} : client'[p] = client[p]
    BY <2>1, GotoFacts DEF Pc
  <2>3. \A p \in Request : Owner(p)' => Owner(p)
    BY <2>1, <2>2 DEF Owner
  <2> QED BY <2>1, <2>2, <2>3 DEF MemoryInv, Apart, IdempotencyTypeOK
<1>5. ASSUME NEW q \in Request, Reserve(q) PROVE FALSE
  BY <1>5 DEF Reserve, MemoryInv
<1>6. CASE Tick \/ Finished \/ UNCHANGED vars
  BY <1>6 DEF Tick, Finished, vars, MemoryInv, Owner, Apart
<1> QED
  BY <1>1, <1>2, <1>3, <1>4, <1>5, <1>6 DEF Next

\* The inductive invariant of the process-local store.
THEOREM MemoryInvariant == Spec => [](store = "memory" => MemoryInv)
<1> DEFINE Kept == store = "memory" => MemoryInv
<1>1. Init => Kept
  <2> SUFFICES ASSUME Init PROVE MemoryInv
    OBVIOUS
  <2>1. executed = {} /\ \A q \in Request : client[q].pc = "idle"
    BY DEF Init
  <2> QED BY <2>1 DEF MemoryInv, Owner
<1>2. IdempotencyTypeOK /\ Kept /\ [Next]_vars => Kept'
  BY MemoryStep, ClockGrows
<1>3. Spec => []IdempotencyTypeOK
  BY IdempotencyInvariant, PTL DEF WithinLifetime
<1> QED
  BY <1>1, <1>2, <1>3, PTL DEF Spec

----------------------------------------------------------------------------
\* A reservation lets one handler run within its lifetime: in the process-
\* local store always, in the durable one until reservations begin to expire.
THEOREM ExecutedOnce == Spec => []ExecutedOncePerLifetime
<1>1. WithinLifetime /\ (store = "memory" => MemoryInv) => ExecutedOncePerLifetime
  <2>1. ASSUME IdempotencyInv PROVE ExecutedOncePerLifetime
    BY <2>1 DEF IdempotencyInv, IdempotencyTypeOK, OneOwner, Owner, ExecutedOncePerLifetime
  <2>2. ASSUME IdempotencyTypeOK, MemoryInv PROVE ExecutedOncePerLifetime
    BY <2>2 DEF MemoryInv, Owner, Apart, IdempotencyTypeOK, ExecutedOncePerLifetime
  <2> QED BY <2>1, <2>2 DEF WithinLifetime, ExecutedOncePerLifetime
<1> QED
  BY <1>1, IdempotencyInvariant, MemoryInvariant, PTL

\* Until reservations begin to expire, a request is answered by its own
\* response only.
THEOREM ReplaysOwn == Spec => []ReplayIsOwn
<1>1. WithinLifetime => ReplayIsOwn
  BY DEF WithinLifetime, IdempotencyInv, ReplayedIsOwn, ResultIsOwn, ReplayIsOwn
<1> QED
  BY <1>1, IdempotencyInvariant, PTL
============================================================================
