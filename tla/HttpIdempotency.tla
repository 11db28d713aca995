-------------------------- MODULE HttpIdempotency --------------------------
(***************************************************************************)
(* The Idempotency-Key protocol of every mutating HTTP request: the        *)
(* request_context middleware (main.py) around acquire and complete of the *)
(* idempotency store, durable (repositories/runtime.py) or process-local   *)
(* (core/contracts.py).                                                    *)
(*                                                                         *)
(* An intent stands for what request_hash, actor_id and path tell apart.   *)
(* A stored result is named by the request whose handler produced it.  The *)
(* durable acquire is a SELECT and, in the same transaction but without a  *)
(* row lock, an INSERT or UPDATE; the process-local one holds a lock.      *)
(***************************************************************************)
EXTENDS Naturals

CONSTANTS
  Key, Intent, Request,
  NoResult,    \* a reservation without a response
  Stores,      \* the stores considered: "sql", "memory"
  Lifetime,    \* how long a reservation lives
  MaxClock     \* bound on time

ASSUME KeyAssumption == Key # {} /\ Intent # {}
ASSUME StoreAssumption == Stores \subseteq {"sql", "memory"}
ASSUME ResultAssumption == NoResult \notin Request
ASSUME TimeAssumption == Lifetime \in Nat \ {0} /\ MaxClock \in Nat

VARIABLES
  store,      \* the store the application was configured with
  clock,
  records,    \* per key: what is reserved and stored
  client,     \* per request: where its middleware stands and what it holds
  executed,   \* history: requests whose handler ran
  replayed    \* history: per request, the request whose result it was given

vars == <<store, clock, records, client, executed, replayed>>

\* expires 0 marks a key without a record.
Record == [intent : Intent, expires : Nat, result : Request \cup {NoResult}]
Empty == [intent |-> CHOOSE i \in Intent : TRUE, expires |-> 0, result |-> NoResult]

Pc == {"idle", "reserve", "handle", "complete", "done"}

Init ==
  /\ store \in Stores
  /\ clock = 1
  /\ records = [k \in Key |-> Empty]
  /\ client = [q \in Request |->
       [pc |-> "idle", key |-> CHOOSE k \in Key : TRUE, wants |-> Empty, seen |-> Empty]]
  /\ executed = {}
  /\ replayed = [q \in Request |-> NoResult]

Goto(q, pc) == client' = [client EXCEPT ![q].pc = pc]

----------------------------------------------------------------------------
(* acquire                                                                 *)

Missing(rec) == rec.expires = 0
ExpiredEarly(rec) == rec.expires <= clock + 1
Expired(rec) == rec.expires <= clock
Free(rec) == Missing(rec) \/ Expired(rec)
AnyIntent(rec, i) == TRUE
Matches(rec, i) == rec.intent = i

\* The process-local store keeps the old result under the key.
Reserved(rec, wants) ==
  [wants EXCEPT !.result = IF Missing(rec) THEN NoResult ELSE rec.result]

\* A request finds its key free.  expires_at is set before the store is
\* asked; the process-local store reserves at once.
Acquire(q, k, i) ==
  LET wants == [intent |-> i, expires |-> clock + Lifetime, result |-> NoResult]
      pc == IF store = "sql" THEN "reserve" ELSE "handle"
  IN
  /\ client[q].pc = "idle"
  /\ Free(records[k])
  /\ client' = [client EXCEPT ![q] =
       [pc |-> pc, key |-> k, wants |-> wants, seen |-> records[k]]]
  /\ records' = IF store = "sql" THEN records
                ELSE [records EXCEPT ![k] = Reserved(@, wants)]
  /\ UNCHANGED <<store, clock, executed, replayed>>

\* The flush and commit of the durable acquire.  A second INSERT fails on
\* the primary key and ends the request; an UPDATE writes the columns whose
\* value differs from the one that was read, whatever the row holds now.
Updated(row, seen, wants) ==
  [wants EXCEPT !.result = IF seen.result = NoResult THEN row.result ELSE NoResult]

InsertNeverFails(k) == FALSE
InsertFails(k) == ~Missing(records[k])

Reserve(q) ==
  LET c == client[q] IN
  /\ c.pc = "reserve"
  /\ IF Missing(c.seen)
     THEN IF InsertFails(c.key)
          THEN Goto(q, "done") /\ UNCHANGED records
          ELSE Goto(q, "handle") /\ records' = [records EXCEPT ![c.key] = c.wants]
     ELSE /\ Goto(q, "handle")
          /\ records' = [records EXCEPT ![c.key] = Updated(@, c.seen, c.wants)]
  /\ UNCHANGED <<store, clock, executed, replayed>>

\* The key is reserved by the same intent and its response is stored.
Replay(q, k, i) ==
  /\ client[q].pc = "idle"
  /\ ~Free(records[k])
  /\ Matches(records[k], i)
  /\ records[k].result # NoResult
  /\ client' = [client EXCEPT ![q] =
       [pc |-> "done", key |-> k, wants |-> [@.wants EXCEPT !.intent = i], seen |-> @.seen]]
  /\ replayed' = [replayed EXCEPT ![q] = records[k].result]
  /\ UNCHANGED <<store, clock, records, executed>>

\* Refused: reserved by another intent, or still in progress.
Refuse(q, k, i) ==
  /\ client[q].pc = "idle"
  /\ ~Free(records[k])
  /\ ~Matches(records[k], i) \/ records[k].result = NoResult
  /\ Goto(q, "done")
  /\ UNCHANGED <<store, clock, records, executed, replayed>>

----------------------------------------------------------------------------
(* call_next and complete                                                  *)

Handle(q) ==
  /\ client[q].pc = "handle"
  /\ executed' = executed \cup {q}
  /\ Goto(q, "complete")
  /\ UNCHANGED <<store, clock, records, replayed>>

\* The durable store raises when the record is another intent's; the
\* process-local one ignores a response whose reservation was replaced.
StillOwner(q) ==
  LET row == records[client[q].key]
      wants == client[q].wants
  IN /\ row.intent = wants.intent
     /\ store = "memory" => row.expires = wants.expires

Complete(q) ==
  /\ client[q].pc = "complete"
  /\ records' = IF StillOwner(q)
                THEN [records EXCEPT ![client[q].key].result = q]
                ELSE records
  /\ Goto(q, "done")
  /\ UNCHANGED <<store, clock, executed, replayed>>

\* The process dies, or the request is cancelled, after its reservation; or
\* the handler raises: its 500 response has no body_iterator, so the
\* middleware fails before complete and the key stays reserved.
Abandon(q) ==
  /\ client[q].pc \in {"handle", "complete"}
  /\ Goto(q, "done")
  /\ UNCHANGED <<store, clock, records, executed, replayed>>

\* No request is still running when its own reservation expires.
InFlight(q) == client[q].pc \in {"reserve", "handle", "complete"}
Tick ==
  /\ clock < MaxClock
  /\ \A q \in Request : InFlight(q) => client[q].wants.expires > clock + 1
  /\ clock' = clock + 1
  /\ UNCHANGED <<store, records, client, executed, replayed>>

Finished ==
  /\ \A q \in Request : client[q].pc = "done"
  /\ UNCHANGED vars

Next ==
  \/ \E q \in Request, k \in Key, i \in Intent :
       Acquire(q, k, i) \/ Replay(q, k, i) \/ Refuse(q, k, i)
  \/ \E q \in Request : Reserve(q) \/ Handle(q) \/ Complete(q) \/ Abandon(q)
  \/ Tick
  \/ Finished

Spec == Init /\ [][Next]_vars

----------------------------------------------------------------------------
IdempotencyTypeOK ==
  /\ store \in Stores
  /\ clock \in Nat \ {0}
  /\ records \in [Key -> Record]
  /\ client \in [Request -> [pc : Pc, key : Key, wants : Record, seen : Record]]
  /\ executed \subseteq Request
  /\ replayed \in [Request -> Request \cup {NoResult}]

\* contracts.py:59, "Reserves a write once": two handlers run for one key
\* only if the reservation of the first had expired when the second began.
\* The process-local store keeps this throughout, the durable one until
\* reservations begin to expire (two requests may take over one expired row).
ExecutedOncePerLifetime ==
  store = "memory" \/ clock <= Lifetime =>
    \A p, q \in executed :
      p # q /\ client[p].key = client[q].key =>
        \/ client[p].wants.expires + Lifetime <= client[q].wants.expires
        \/ client[q].wants.expires + Lifetime <= client[p].wants.expires

\* contracts.py:59, "retains its original result": a replayed response is the
\* one a handler gave to the same intent under the same key, until
\* reservations begin to expire (the process-local store then keeps the old
\* response under the new reservation).
ReplayIsOwn ==
  clock <= Lifetime =>
    \A q \in Request :
      LET p == replayed[q] IN
      p # NoResult =>
        /\ p \in executed
        /\ client[p].key = client[q].key
        /\ client[p].wants.intent = client[q].wants.intent
============================================================================
