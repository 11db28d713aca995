---------------------------- MODULE OrderAccount ----------------------------
(***************************************************************************)
(* What the manual trading service promises about the plans of one run and *)
(* the account behind them: each plan is decided once, only a confirmed    *)
(* plan is filled, never beyond its quantity, and every fill is paid from  *)
(* cash that is there.  The promise is made to an orderly use only.        *)
(***************************************************************************)
EXTENDS Integers

CONSTANTS Plan, Planned, Opening

VARIABLES
  status,  \* per plan
  filled,  \* per plan, the quantity executed
  cash,    \* of the account
  orderly  \* requests come one at a time, executions in the order of dates

avars == <<status, filled, cash>>

AccountInit ==
  /\ status = [p \in Plan |-> "absent"]
  /\ filled = [p \in Plan |-> 0]
  /\ cash = 0

Publish ==
  \E planned \in SUBSET Plan :
    /\ \A p \in Plan : status[p] = "absent"
    /\ status' = [p \in Plan |-> IF p \in planned THEN "PENDING_CONFIRMATION" ELSE "absent"]
    /\ cash' = Opening
    /\ UNCHANGED filled

Decide(p) ==
  \E decision \in {"CONFIRMED", "SKIPPED"} :
    /\ status[p] = "PENDING_CONFIRMATION"
    /\ status' = [status EXCEPT ![p] = decision]
    /\ UNCHANGED <<filled, cash>>

Fill(p) ==
  \E quantity \in 1 .. (Planned - filled[p]), debit \in 1 .. cash :
    /\ status[p] \in {"CONFIRMED", "PARTIALLY_FILLED"}
    /\ filled' = [filled EXCEPT ![p] = @ + quantity]
    /\ status' = [status EXCEPT ![p] =
         IF quantity = Planned - filled[p] THEN "FILLED" ELSE "PARTIALLY_FILLED"]
    /\ cash' = cash - debit

AccountNext == orderly => Publish \/ \E p \in Plan : Decide(p) \/ Fill(p)

AccountSpec == AccountInit /\ [][AccountNext]_avars
=============================================================================
