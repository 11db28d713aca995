-------------------------- MODULE PortfolioLedger --------------------------
(***************************************************************************)
(* Cash and positions of one account (domain/portfolio/ledger.py) and the  *)
(* cost model its fills are charged with (domain/execution/costs.py).      *)
(*                                                                         *)
(* Money is counted in whole units: where Decimal rounds at its 28th       *)
(* digit the model truncates to a unit.  A symbol without an entry in      *)
(* _positions has quantity, availability and cost basis zero.              *)
(***************************************************************************)
EXTENDS Integers, FiniteSetsExt

CONSTANTS
  Symbol,
  InitialCash,
  CommissionPct,      \* commission_rate, in percent
  MinimumCommission,
  StampPct,           \* sell_stamp_duty_rate, in percent
  OtherPct            \* transfer_fee_rate and those of the regulatory and handling
                      \* fees the commission does not include, in percent

ASSUME SymbolAssumption == IsFiniteSet(Symbol)
ASSUME CashAssumption == InitialCash \in Nat \ {0}
ASSUME CostAssumption ==
  /\ CommissionPct \in Nat
  /\ MinimumCommission \in Nat
  /\ StampPct \in Nat
  /\ OtherPct \in Nat

VARIABLES
  cash,
  qty,        \* quantity per symbol
  avail,      \* available_quantity per symbol: what may be sold today
  basis,      \* cost_basis per symbol
  highWater   \* _high_water_mark

ledgerVars == <<cash, qty, avail, basis, highWater>>

Larger(a, b) == IF a >= b THEN a ELSE b

\* CostModel.calculate(...).total
Costs(side, notional) ==
  Larger((notional * CommissionPct) \div 100, MinimumCommission)
  + (IF side = "SELL" THEN (notional * StampPct) \div 100 ELSE 0)
  + (notional * OtherPct) \div 100

LedgerInit ==
  /\ cash = InitialCash
  /\ qty = [s \in Symbol |-> 0]
  /\ avail = [s \in Symbol |-> 0]
  /\ basis = [s \in Symbol |-> 0]
  /\ highWater = InitialCash

Held == {s \in Symbol : qty[s] > 0}

----------------------------------------------------------------------------
\* What a snapshot values a position at: the caller's price, else its cost.
\* mark[s] = 0 stands for a symbol the price mapping does not hold.
ValueOf(q, b, mark) == IF mark > 0 THEN q * mark ELSE b
PositionValue(s, mark) == ValueOf(qty[s], basis[s], mark[s])
NoPrices == [s \in Symbol |-> 0]

\* snapshot(): equity, and the mark it leaves behind.  Called by apply_fill
\* on the new cash and positions without prices, by the loops with closes.
EquityOf(c, q, b, mark) ==
  c + SumFunction([s \in Symbol |-> ValueOf(q[s], b[s], mark[s])])

\* apply_fill refuses a fill that overdraws cash or sells unsettled shares.
BuyTotal(q, price) == q * price + Costs("BUY", q * price)
SellProceeds(q, price) == q * price - Costs("SELL", q * price)
BuyAccepted(q, price) == BuyTotal(q, price) <= cash
SellAccepted(s, q, price) ==
  /\ q <= avail[s]
  /\ cash + SellProceeds(q, price) >= 0

\* Every accepted fill ends in entries.append(self.snapshot()).
RecordSnapshot ==
  highWater' = Larger(highWater, EquityOf(cash', qty', basis', NoPrices))

ApplyBuy(s, q, price) ==
  /\ cash' = cash - BuyTotal(q, price)
  /\ qty' = [qty EXCEPT ![s] = @ + q]
  /\ basis' = [basis EXCEPT ![s] = @ + BuyTotal(q, price)]
  /\ avail' = avail
  /\ RecordSnapshot

ApplySell(s, q, price) ==
  /\ cash' = cash + SellProceeds(q, price)
  /\ qty' = [qty EXCEPT ![s] = @ - q]
  /\ basis' = [basis EXCEPT ![s] = Larger(0, @ - (@ * q) \div qty[s])]
  /\ avail' = [avail EXCEPT ![s] = @ - q]
  /\ RecordSnapshot

SettleNothing == avail' = avail
\* settle_all: yesterday's buys become sellable.
SettleAll == avail' = qty
============================================================================
