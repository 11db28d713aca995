--------------------------- MODULE ManualTrading ---------------------------
(***************************************************************************)
(* Order plans and manual executions of one daily flow run                 *)
(* (infrastructure/repositories/research.py): run_daily_flow publishes the *)
(* plans and the opening balance, confirm_plan decides a plan,             *)
(* create_execution records a fill in the execution table, the ledger and  *)
(* the dated portfolio snapshots.                                          *)
(*                                                                         *)
(* Every plan buys one security of its own (daily_flow_service.py:196), so *)
(* a plan also names its security.  Transactions are READ COMMITTED; a row *)
(* lock is taken by the first write only, and an ORM update does not look  *)
(* at the row it overwrites.  expected_version is left out: a plan that is *)
(* PENDING_CONFIRMATION still has version 1.  A request that is refused,   *)
(* or answered from its earlier execution, changes nothing and has no step.*)
(* env describes the use that is made of the service, fixed from the start:*)
(*   "overlap"    two requests are handled at the same time                *)
(*   "days"       executions of other days than the plans' execution date  *)
(*   "backdated"  executions dated before the latest snapshot              *)
(***************************************************************************)
EXTENDS Integers

CONSTANTS
  Plan,      \* plans of the run
  Planned,   \* planned_quantity of each
  Key,       \* Idempotency-Key headers
  Request,   \* handler threads
  MaxDate,   \* trade dates 0 (as_of_date), 1 (execution_date), ..., MaxDate
  Opening,   \* initial_equity
  Debit,     \* what a fill may cost: price times quantity plus fees
  Environments  \* the uses considered, each a set of the above

ASSUME PlanAssumption == Plan # {}
ASSUME KeyAssumption == Key # {}
ASSUME QuantityAssumption == Planned \in Nat \ {0}
ASSUME OpeningAssumption == Opening \in Nat
ASSUME DebitAssumption == Debit \subseteq Nat \ {0}
ASSUME DateAssumption == MaxDate \in Nat \ {0}
ASSUME EnvAssumption == Environments \subseteq SUBSET {"overlap", "days", "backdated"}

VARIABLES
  status,   \* order_plan.status, "absent" without a row
  expired,  \* 01:25 UTC of the execution date has passed
  filled,   \* execution_record: the sum of quantity per plan
  records,  \* execution_record: rows per plan and idempotency key
  ledger,   \* ledger_entry: the sum of cash_delta
  snaps,    \* portfolio_snapshot with its position_snapshot rows, per date
  req,      \* per handler: where it stands and what it has read
  env       \* what happens in this behaviour

vars == <<status, expired, filled, records, ledger, snaps, req, env>>

Date == 0 .. MaxDate
Quantity == 1 .. Planned
Status == {"absent", "PENDING_CONFIRMATION", "CONFIRMED", "SKIPPED",
           "PARTIALLY_FILLED", "FILLED"}
Pc == {"idle", "decide", "flush", "commit"}
NoPositions == [p \in Plan |-> 0]

\* held is 0 where the snapshot has no position row of the security.
Snapshot == [present : BOOLEAN, cash : Int, held : [Plan -> Int]]
NoSnapshot == [present |-> FALSE, cash |-> 0, held |-> NoPositions]

\* A request: what it asks for, and what it has read.
Handler == [pc : Pc, plan : Plan, key : Key, quantity : Int, debit : Int, date : Date,
            loaded : Status, status : Status, latest : Date, cash : Int, held : Int,
            exists : BOOLEAN]

Idle == [pc |-> "idle", plan |-> CHOOSE p \in Plan : TRUE, key |-> CHOOSE k \in Key : TRUE,
         quantity |-> 0, debit |-> 0, date |-> 0, loaded |-> "absent", status |-> "absent",
         latest |-> 0, cash |-> 0, held |-> 0, exists |-> FALSE]

Init ==
  /\ status = [p \in Plan |-> "absent"]
  /\ expired = FALSE
  /\ filled = [p \in Plan |-> 0]
  /\ records = [p \in Plan |-> [k \in Key |-> 0]]
  /\ ledger = 0
  /\ snaps = [d \in Date |-> NoSnapshot]
  /\ req = [q \in Request |-> Idle]
  /\ env \in Environments

InFlight(q) == req[q].pc # "idle"
End(q) == req' = [req EXCEPT ![q] = Idle]
MayStart(q) ==
  /\ req[q].pc = "idle"
  /\ "overlap" \in env \/ \A p \in Request : ~InFlight(p)

----------------------------------------------------------------------------
\* The plans, the opening snapshot and the OPENING_BALANCE entry are stored in
\* one transaction; a second flow of the same day returns the first.
Publish ==
  /\ ~snaps[0].present
  /\ \E planned \in SUBSET Plan :
       status' = [p \in Plan |-> IF p \in planned THEN "PENDING_CONFIRMATION" ELSE "absent"]
  /\ snaps' = [snaps EXCEPT ![0] = [present |-> TRUE, cash |-> Opening, held |-> NoPositions]]
  /\ ledger' = Opening
  /\ UNCHANGED <<expired, filled, records, req, env>>

Expire ==
  /\ ~expired
  /\ expired' = TRUE
  /\ UNCHANGED <<status, filled, records, ledger, snaps, req, env>>

\* A row lock on the plan is held from the first write of a transaction on.
Locked(p) == \E q \in Request : req[q].pc = "commit" /\ req[q].plan = p

----------------------------------------------------------------------------
(* confirm_plan                                                            *)

\* Plans are published in risk state NORMAL, which the risk check lets pass.
DecidableAny(p, decision) == status[p] \in {"PENDING_CONFIRMATION", "CONFIRMED"}
Decidable(p, decision) ==
  /\ status[p] = "PENDING_CONFIRMATION"
  /\ decision = "CONFIRMED" => ~expired

ReadPlan(q, p, decision) ==
  /\ MayStart(q)
  /\ Decidable(p, decision)
  /\ req' = [req EXCEPT ![q] = [Idle EXCEPT !.pc = "decide", !.plan = p, !.status = decision]]
  /\ UNCHANGED <<status, expired, filled, records, ledger, snaps, env>>

Decide(q) ==
  /\ req[q].pc = "decide"
  /\ ~Locked(req[q].plan)
  /\ status' = [status EXCEPT ![req[q].plan] = req[q].status]
  /\ End(q)
  /\ UNCHANGED <<expired, filled, records, ledger, snaps, env>>

----------------------------------------------------------------------------
(* create_execution                                                        *)

\* The snapshot of the run with the latest trade date.
IsLatest(d) == snaps[d].present /\ \A e \in Date : snaps[e].present => e <= d

DateAllowed(d, latest) ==
  /\ "days" \in env \/ d = 1
  /\ "backdated" \in env \/ d >= latest

\* quantity and unfilled_quantity add up to what is left of the plan.
Fits(p, quantity) == quantity <= Planned - filled[p]
Affordable(debit, cash) == debit <= cash

StatusAfter(p, quantity) ==
  IF quantity = Planned - filled[p] THEN "FILLED" ELSE "PARTIALLY_FILLED"

ReadLedger(q, p, k, quantity, debit, date, latest) ==
  /\ MayStart(q)
  /\ IsLatest(latest) /\ DateAllowed(date, latest)
  /\ records[p][k] = 0
  /\ status[p] \in {"CONFIRMED", "PARTIALLY_FILLED"}
  /\ Fits(p, quantity)
  /\ Affordable(debit, snaps[latest].cash)
  /\ req' = [req EXCEPT ![q] =
       [pc |-> "flush", plan |-> p, key |-> k, quantity |-> quantity, debit |-> debit,
        date |-> date, loaded |-> status[p], status |-> StatusAfter(p, quantity),
        latest |-> latest, cash |-> snaps[latest].cash, held |-> snaps[latest].held[p],
        exists |-> FALSE]]
  /\ UNCHANGED <<status, expired, filled, records, ledger, snaps, env>>

\* The execution row is unique per plan and key; a duplicate rolls back.
\* Then the snapshot of the execution's date is looked up.
KeyNeverTaken(q) == FALSE
KeyTaken(q) == records[req[q].plan][req[q].key] > 0

Flush(q) ==
  /\ req[q].pc = "flush"
  /\ ~Locked(req[q].plan)
  /\ \/ KeyTaken(q) /\ End(q)
     \/ /\ ~KeyTaken(q)
        /\ req' = [req EXCEPT ![q] =
             [@ EXCEPT !.pc = "commit", !.exists = snaps[req[q].date].present]]
  /\ UNCHANGED <<status, expired, filled, records, ledger, snaps, env>>

\* Two transactions that both saw no snapshot of the date insert it twice, and
\* a position row may exist that the one read from the latest snapshot is
\* not.
SnapshotClash(q) ==
  LET r == req[q] IN
  IF r.exists THEN r.held = 0 /\ snaps[r.date].held[r.plan] > 0
              ELSE snaps[r.date].present

\* A snapshot whose position row of p is inserted or updated.
Holding(s, p, quantity) == [s EXCEPT !.held = [s.held EXCEPT ![p] = quantity]]

\* A new snapshot starts from the latest cash and holds the executed security
\* alone; an existing one is updated in place, and with it the position row
\* that was read, whichever snapshot that row belongs to.
StoreSnapshotInserts(q) ==
  LET r == req[q] IN
  snaps' = IF r.exists
           THEN [snaps EXCEPT ![r.date].held[r.plan] = r.held + r.quantity]
           ELSE [snaps EXCEPT ![r.date] = [present |-> TRUE, cash |-> r.cash - r.debit,
                                           held |-> [NoPositions EXCEPT ![r.plan] = r.quantity]]]
StoreSnapshotFill(q) ==
  LET r == req[q] IN
  snaps' = IF r.exists
           THEN [snaps EXCEPT ![r.date].cash = r.cash - r.debit,
                              ![r.date].held[r.plan] = r.quantity]
           ELSE [snaps EXCEPT ![r.date] = [present |-> TRUE, cash |-> r.cash - r.debit,
                                           held |-> [NoPositions EXCEPT ![r.plan] = r.quantity]]]
StoreSnapshot(q) ==
  LET r == req[q]
      quantity == r.held + r.quantity
      row == IF r.held = 0 THEN r.date ELSE r.latest
      paid == [snaps EXCEPT ![r.date] = [@ EXCEPT !.cash = r.cash - r.debit]]
  IN snaps' =
       IF r.exists
       THEN [paid EXCEPT ![row] = Holding(paid[row], r.plan, quantity)]
       ELSE [snaps EXCEPT ![r.date] = [present |-> TRUE, cash |-> r.cash - r.debit,
                                       held |-> [NoPositions EXCEPT ![r.plan] = quantity]]]

\* The status column is written only if it differs from the loaded one.
StoreStatus(q) ==
  LET r == req[q] IN
  status' = [status EXCEPT ![r.plan] = IF r.status = r.loaded THEN @ ELSE r.status]

Commit(q) ==
  LET r == req[q] IN
  /\ r.pc = "commit"
  /\ \/ SnapshotClash(q) /\ UNCHANGED <<status, filled, records, ledger, snaps>>
     \/ /\ ~SnapshotClash(q)
        /\ filled' = [filled EXCEPT ![r.plan] = @ + r.quantity]
        /\ records' = [records EXCEPT ![r.plan][r.key] = @ + 1]
        /\ ledger' = ledger - r.debit
        /\ StoreSnapshot(q)
        /\ StoreStatus(q)
  /\ End(q)
  /\ UNCHANGED <<expired, env>>

----------------------------------------------------------------------------
Next ==
  \/ Publish
  \/ Expire
  \/ \E q \in Request, p \in Plan :
       \/ \E decision \in {"CONFIRMED", "SKIPPED"} : ReadPlan(q, p, decision)
       \/ \E k \in Key, quantity \in Quantity, debit \in Debit, date, latest \in Date :
            ReadLedger(q, p, k, quantity, debit, date, latest)
  \/ \E q \in Request : Decide(q) \/ Flush(q) \/ Commit(q)

Spec == Init /\ [][Next]_vars

----------------------------------------------------------------------------
(* Properties.                                                             *)

TradingTypeOK ==
  /\ status \in [Plan -> Status]
  /\ expired \in BOOLEAN
  /\ filled \in [Plan -> Int]
  /\ records \in [Plan -> [Key -> Nat]]
  /\ ledger \in Int
  /\ snaps \in [Date -> Snapshot]
  /\ req \in [Request -> Handler]
  /\ env \in Environments

\* Requests come one at a time and executions in the order of their dates.
Orderly == "overlap" \notin env /\ "backdated" \notin env

CashNow ==
  IF snaps[0].present THEN snaps[CHOOSE d \in Date : IsLatest(d)].cash ELSE 0

\* The cash of the latest snapshot, which the next execution is checked
\* against, is what the ledger entries add up to (05-数据库设计.md:71).
CashReconciles == Orderly => CashNow = ledger

\* 02-需求规格说明书.md:102, the account's ledger does not go negative: no sequence of
\* executions spends more than the opening balance.
LedgerNotNegative == ledger >= 0

\* In an orderly use it does not: an execution is checked against all the
\* cash that earlier ones have left (research.py:2567).
SpendingIsCovered == Orderly => LedgerNotNegative

\* 08-测试计划与测试用例.md:89, the positions of the latest snapshot are the
\* quantities executed, as long as all executions carry the plans' execution
\* date.
HoldingsOfTheDay ==
  env = {} => \A d \in Date : IsLatest(d) => snaps[d].held = filled

StatusOfFills ==
  \A p \in Plan :
    /\ status[p] \in {"absent", "PENDING_CONFIRMATION", "CONFIRMED", "SKIPPED"} => filled[p] = 0
    /\ status[p] = "PARTIALLY_FILLED" => filled[p] \in 1 .. (Planned - 1)
    /\ status[p] = "FILLED" => filled[p] = Planned

\* In an orderly use the status of a plan tells how much of it is executed,
\* and no plan is executed beyond its quantity (research.py:2519 to 2534).
StatusMatchesFills == Orderly => StatusOfFills

\* 06-API接口设计.md:198, a request repeated with its Idempotency-Key is never
\* executed twice, however the two are interleaved.
ExecutedOncePerKey == \A p \in Plan, k \in Key : records[p][k] <= 1

\* The service implements the account that OrderAccount promises: decided
\* once, filled within the plan, paid from cash that is there.
Account == INSTANCE OrderAccount WITH cash <- CashNow, orderly <- Orderly
ImplementsAccount == Account!AccountSpec
=============================================================================
