--------------------------- MODULE BacktestProofs ---------------------------
(***************************************************************************)
(* What holds of backtests for every market, any number of symbols, days,  *)
(* runs and requests, and every setting of the limits.                     *)
(*                                                                         *)
(* The day loop.  LoopInv joins the properties of the runs with what makes *)
(* them inductive: an exit order is for the whole settled position, entry  *)
(* orders are only for symbols that are not held, quantities are whole     *)
(* lots, and an alarm leaves no entry order pending.  ExitsOrdered says    *)
(* from which day on a held position has its exit order, OrdersTold what   *)
(* is left of cash while the evening's entries are ordered.                *)
(*                                                                         *)
(* The drawdown monitor is used by the loop and has an interface of its    *)
(* own, DrawdownReview; ReviewInv is its invariant.                        *)
(*                                                                         *)
(* The durable runs that such a backtest is executed for, BacktestRuns:    *)
(* what an execution in flight has read, and what the stages of its run    *)
(* say at each of its steps.                                               *)
(***************************************************************************)
EXTENDS BacktestLoop, DrawdownReview, BacktestRuns, SumTheorems

Lots == {n * LotSize : n \in Nat \ {0}}

\* Selling any number of whole lots at any price a bar can fill at covers
\* the fees of the sale.
FeesCovered ==
  \A q \in Lots, bar \in Bar :
    LET price == ExecutionPrice("SELL", bar.open)
    IN price > 0 => Costs("SELL", q * price) <= q * price

LoopShape ==
  /\ cash \in Nat
  /\ qty \in [Symbol -> Nat] /\ avail \in [Symbol -> Nat]
  /\ sells \in [Symbol -> Nat] /\ buys \in [Symbol -> Nat]
  /\ entry \in [Symbol -> Nat]
  /\ day \in Nat \ {0}
  /\ phase \in Phase

ExitsWhole ==
  \A s \in Symbol :
    /\ sells[s] = 0 \/ sells[s] = qty[s]
    /\ phase = "orders" /\ sells[s] > 0 => avail[s] = qty[s]

EntriesNew == \A s \in Symbol : buys[s] > 0 => qty[s] = 0

WholeLots ==
  \A s \in Symbol : /\ qty[s] > 0 => qty[s] \in Lots
                    /\ buys[s] > 0 => buys[s] \in Lots

StopClearsEntries == risk # "NORMAL" => \A s \in Symbol : buys[s] = 0

LoopInv ==
  /\ LoopShape
  /\ ExitsWhole
  /\ EntriesNew
  /\ WholeLots
  /\ StopClearsEntries
  /\ EntriesMatchHoldings
  /\ PositionLimit

----------------------------------------------------------------------------
(* Facts about the operators.                                              *)

\* Fees are whole and never negative.
LEMMA CostsType ==
  ASSUME NEW side, NEW n \in Int, n >= 0
  PROVE  Costs(side, n) \in Nat
<1>1. (n * CommissionPct) \div 100 \in Int
  BY CostAssumption
<1>2. (n * StampPct) \div 100 \in Nat
  <2>1. n * StampPct \in Nat
    BY CostAssumption
  <2> QED
    BY <2>1
<1>3. (n * OtherPct) \div 100 \in Nat
  <2>1. n * OtherPct \in Nat
    BY CostAssumption
  <2> QED
    BY <2>1
<1>4. Larger((n * CommissionPct) \div 100, MinimumCommission) \in Nat
  BY <1>1, CostAssumption DEF Larger
<1> QED
  BY <1>2, <1>3, <1>4 DEF Costs

\* A fill has an integer price, and that of the simulator's rule.
LEMMA FillPriceType ==
  ASSUME NEW side, NEW q, NEW bar \in Bar
  PROVE  /\ FillPrice(side, q, bar) \in Int
         /\ FillPrice(side, q, bar) > 0
              => FillPrice(side, q, bar) = ExecutionPrice(side, bar.open)
<1>1. bar.open \in Nat /\ SlippagePct \in Int
  BY LoopAssumption
<1>2. (bar.open * SlippagePct) \div 100 \in Int
  BY <1>1
<1>3. ExecutionPrice(side, bar.open) \in Int
  BY <1>1, <1>2 DEF ExecutionPrice
<1> QED
  BY <1>3 DEF FillPrice

\* An allocation is whole lots, needs a NORMAL state and a free position.
LEMMA AllocationFacts ==
  ASSUME NEW price, NEW m, NEW e, NEW i, NEW j, NEW others \in Nat, NEW r,
         NEW q \in AllocateQuantity(price, m, e, i, j, others, r)
  PROVE  q \in Lots /\ r = "NORMAL" /\ others + 1 <= MaxPositions
<1>1. r = "NORMAL" /\ others + 1 <= MaxPositions
  BY LimitAssumption DEF AllocateQuantity
<1>2. PICK n : n \in Nat \ {0} /\ q = n * LotSize
  <2> DEFINE top == Notional(m, e, i, j) \div (100 * price * LotSize)
  <2>1. \E n \in 1 .. top : q = n * LotSize
    BY DEF AllocateQuantity
  <2> HIDE DEF top
  <2> QED
    BY <2>1
<1> QED
  BY <1>1, <1>2 DEF Lots

\* Whole units within a total.
LEMMA MultipleUpTo ==
  ASSUME NEW total \in Nat, NEW unit \in Nat \ {0}, NEW n \in 1 .. (total \div unit)
  PROVE  n * unit <= total
<1> DEFINE top == total \div unit
<1>1. top \in Nat /\ top * unit <= total
  OBVIOUS
<1> HIDE DEF top
<1>2. n \in Nat /\ n <= top
  BY <1>1 DEF top
<1>3. n * unit <= top * unit
  BY <1>1, <1>2
<1>4. n * unit \in Nat /\ top * unit \in Nat
  BY <1>1, <1>2
<1> QED
  BY <1>1, <1>3, <1>4

\* What an allocation stays within.
LEMMA AllocationLimits ==
  ASSUME NEW price \in Nat, NEW m \in Int, NEW e \in Int, NEW i \in Int, NEW j \in Int,
         NEW others, NEW r, NEW q \in AllocateQuantity(price, m, e, i, j, others, r)
  PROVE  /\ price > 0 /\ q \in Nat \ {0}
         /\ BuyTotal(q, price) <= m
         /\ 100 * (q * price) <= e * PositionPct
         /\ 100 * (q * price) <= e * IndustryPct - 100 * j
         /\ 100 * (q * price) <= e * InvestmentPct - 100 * i
<1> DEFINE limits == {100 * TargetValue, Larger(0, e * PositionPct),
                      Larger(0, e * IndustryPct - 100 * j),
                      Larger(0, e * InvestmentPct - 100 * i), 100 * m}
           unit == 100 * price * LotSize
           total == Notional(m, e, i, j)
           top == total \div unit
<1>1. price > 0 /\ m > 0 /\ e > 0
  BY DEF AllocateQuantity
<1>2. PICK n \in 1 .. top : q = n * LotSize /\ BuyTotal(n * LotSize, price) <= m
  BY DEF AllocateQuantity
<1>3. limits \in SUBSET Nat
  BY <1>1, LimitAssumption DEF Larger
<1>4. total \in limits /\ \A x \in limits : total <= x
  <2>1. limits # {}
    OBVIOUS
  <2>2. total = Min(limits)
    BY DEF Notional
  <2> HIDE DEF limits, total
  <2>3. \E x \in limits : \A y \in limits : x <= y
    BY <1>3, <2>1, LeastNatural
  <2> QED
    BY <2>2, <2>3 DEF Min
<1>5. /\ total \in Nat
      /\ total <= Larger(0, e * PositionPct)
      /\ total <= Larger(0, e * IndustryPct - 100 * j)
      /\ total <= Larger(0, e * InvestmentPct - 100 * i)
  <2> HIDE DEF total
  <2> QED
    BY <1>3, <1>4
<1>6. unit \in Nat \ {0} /\ top \in Int
  BY <1>1, <1>5, LimitAssumption
<1> HIDE DEF total, unit
<1>7. n * unit <= total
  BY <1>5, <1>6, MultipleUpTo
<1>8. n \in Nat \ {0}
  BY <1>6
<1>9. q \in Nat \ {0} /\ n * unit = 100 * (q * price) /\ q * price \in Nat \ {0}
  BY <1>1, <1>2, <1>8, LimitAssumption DEF unit
<1>10. 100 * (q * price) <= total /\ 100 * (q * price) > 0
  BY <1>7, <1>9
<1>11. e * PositionPct \in Int /\ e * IndustryPct - 100 * j \in Int /\ e * InvestmentPct - 100 * i \in Int
  BY LimitAssumption
<1>12. 100 * (q * price) \in Nat
  BY <1>9
<1> QED
  BY <1>1, <1>2, <1>5, <1>9, <1>10, <1>11, <1>12 DEF Larger

\* Whole lots are positive quantities.
LEMMA LotsPositive ==
  ASSUME NEW q \in Lots
  PROVE  q \in Nat /\ q > 0
<1>1. PICK n \in Nat \ {0} : q = n * LotSize
  BY DEF Lots
<1> QED
  BY <1>1, LimitAssumption

----------------------------------------------------------------------------
(* Each step keeps the invariant.                                          *)

\* Fewer symbols held or ordered keep within the limit.
LEMMA FewerPositions ==
  ASSUME PositionLimit, (Held \cup Buying)' \subseteq Held \cup Buying
  PROVE  PositionLimit'
<1>1. IsFiniteSet(Held \cup Buying)
  BY SymbolAssumption, FS_Subset DEF Held, Buying
<1>2. Cardinality((Held \cup Buying)') <= Cardinality(Held \cup Buying)
  BY <1>1, FS_Subset
<1>3. /\ Cardinality(Held \cup Buying) \in Nat
      /\ Cardinality((Held \cup Buying)') \in Nat
  BY <1>1, FS_Subset, FS_CardinalityType
<1> QED
  BY <1>2, <1>3, LimitAssumption DEF PositionLimit

\* The morning settles what was bought and keeps the invariant.
LEMMA OpenDayKeeps ==
  ASSUME LoopInv, OpenDay
  PROVE  LoopInv'
<1>1. PositionLimit'
  BY FewerPositions DEF LoopInv, OpenDay, Held, Buying, orderVars
<1> QED
  BY <1>1 DEF LoopInv, LoopShape, ExitsWhole, EntriesNew, WholeLots,
     StopClearsEntries, EntriesMatchHoldings, OpenDay, SettleAll,
     Held, Phase, monitorVars, orderVars

\* What a sell order does when it is executed: nothing, or it empties the
\* position, or the ledger refuses it and the run fails.
LEMMA SellOutcome ==
  ASSUME LoopInv, NEW s \in Symbol, ExecuteSell(s)
  PROVE  /\ phase = "orders" /\ sells[s] > 0
         /\ sells[s] = qty[s] /\ avail[s] = qty[s] /\ qty[s] \in Lots
         /\ sells' = [sells EXCEPT ![s] = 0]
         /\ buys' = buys /\ day' = day /\ risk' = risk
         /\ \E bar \in Bar :
              LET price == FillPrice("SELL", sells[s], bar)
              IN \/ /\ UNCHANGED <<cash, qty, avail, entry>>
                    /\ IF price > 0
                       THEN ~SellAccepted(s, sells[s], price) /\ phase' = "failed"
                       ELSE phase' = phase
                 \/ /\ price > 0 /\ SellAccepted(s, sells[s], price)
                    /\ ApplySell(s, sells[s], price)
                    /\ entry' = EntryAfterSell(s)
                    /\ phase' = phase
<1>1. phase = "orders" /\ sells[s] > 0
  BY DEF ExecuteSell
<1>2. sells[s] = qty[s] /\ avail[s] = qty[s] /\ qty[s] \in Lots
  BY <1>1 DEF LoopInv, LoopShape, ExitsWhole, WholeLots
<1> QED
  BY <1>1, <1>2, Zenon DEF ExecuteSell, Drop, monitorVars, ledgerVars

\* A sale ends the whole position, or leaves it with its order gone.
LEMMA ExecuteSellKeeps ==
  ASSUME LoopInv, NEW s \in Symbol, ExecuteSell(s)
  PROVE  LoopInv'
<1> USE DEF LoopInv, LoopShape
<1>1. /\ phase = "orders" /\ sells[s] > 0
      /\ sells[s] = qty[s] /\ avail[s] = qty[s]
      /\ sells' = [sells EXCEPT ![s] = 0]
      /\ buys' = buys /\ day' = day /\ risk' = risk
  BY SellOutcome
<1>2. CASE /\ UNCHANGED <<cash, qty, avail, entry>>
           /\ phase' = phase \/ phase' = "failed"
  <2>1. PositionLimit'
    BY <1>1, <1>2, FewerPositions DEF Held, Buying
  <2> QED
    BY <1>1, <1>2, <2>1 DEF ExitsWhole, EntriesNew, WholeLots,
       StopClearsEntries, EntriesMatchHoldings, Held, Phase
<1>3. ASSUME NEW price \in Int, price > 0, SellAccepted(s, sells[s], price),
             ApplySell(s, sells[s], price), phase' = phase,
             entry' = EntryAfterSell(s)
      PROVE  LoopInv'
  <2>1. sells[s] * price \in Int /\ sells[s] * price >= 0
    BY <1>3
  <2>2. Costs("SELL", sells[s] * price) \in Nat
    BY <2>1, CostsType
  <2>3. /\ cash' = cash + (sells[s] * price - Costs("SELL", sells[s] * price))
        /\ cash' >= 0
        /\ qty' = [qty EXCEPT ![s] = 0] /\ avail' = [avail EXCEPT ![s] = 0]
        /\ entry' = [entry EXCEPT ![s] = 0]
    <3>1. /\ cash' = cash + (sells[s] * price - Costs("SELL", sells[s] * price))
          /\ cash' >= 0
      BY <1>3, Zenon DEF ApplySell, SellAccepted, SellProceeds
    <3>2. /\ qty' = [qty EXCEPT ![s] = qty[s] - sells[s]]
          /\ avail' = [avail EXCEPT ![s] = avail[s] - sells[s]]
      BY <1>3 DEF ApplySell
    <3>3. qty[s] - sells[s] = 0 /\ avail[s] - sells[s] = 0
      BY <1>1
    <3>4. qty' = [qty EXCEPT ![s] = 0] /\ avail' = [avail EXCEPT ![s] = 0]
      BY <3>2, <3>3, Zenon
    <3>5. entry' = [entry EXCEPT ![s] = 0]
      BY <1>3, <3>4 DEF EntryAfterSell
    <3> QED
      BY <3>1, <3>4, <3>5
  <2>4. LoopShape'
    BY <1>1, <1>3, <2>1, <2>2, <2>3
  <2>5. PositionLimit'
    BY <1>1, <2>3, FewerPositions DEF Held, Buying
  <2>6. EntriesMatchHoldings'
    BY <2>3 DEF EntriesMatchHoldings, Held
  <2>7. ExitsWhole' /\ EntriesNew' /\ WholeLots'
    BY <1>1, <1>3, <2>3 DEF ExitsWhole, EntriesNew, WholeLots
  <2> QED
    BY <1>1, <2>4, <2>5, <2>6, <2>7 DEF StopClearsEntries
<1> QED
  BY <1>2, <1>3, SellOutcome, FillPriceType

\* A purchase opens a position for a symbol that was not held.
LEMMA ExecuteBuyKeeps ==
  ASSUME LoopInv, NEW s \in Symbol, ExecuteBuy(s)
  PROVE  LoopInv'
<1> USE DEF LoopInv, LoopShape
<1>1. PICK bar \in Bar : ExecuteBuy(s)!(bar)
  BY DEF ExecuteBuy
<1> DEFINE price == FillPrice("BUY", buys[s], bar)
<1>2. /\ phase = "orders" /\ phase' = phase /\ day' = day /\ risk' = risk
      /\ buys[s] > 0 /\ buys' = [buys EXCEPT ![s] = 0]
      /\ sells' = sells /\ \A t \in Symbol : sells[t] = 0
      /\ \/ /\ price > 0
            /\ BuyAccepted(buys[s], price)
            /\ ApplyBuy(s, buys[s], price)
            /\ entry' = [entry EXCEPT ![s] = day]
         \/ UNCHANGED <<cash, qty, avail, entry>>
  BY <1>1 DEF Drop, Selling, monitorVars, ledgerVars
<1>3. price \in Int
  BY FillPriceType
<1> HIDE DEF price
<1>4. buys[s] \in Lots /\ qty[s] = 0
  BY <1>2 DEF WholeLots, EntriesNew
<1>5. CASE UNCHANGED <<cash, qty, avail, entry>>
  <2>1. PositionLimit'
    BY <1>2, <1>5, FewerPositions DEF Held, Buying
  <2> QED
    BY <1>2, <1>5, <2>1 DEF ExitsWhole, EntriesNew, WholeLots,
       StopClearsEntries, EntriesMatchHoldings, Held
<1>6. CASE /\ price > 0
           /\ BuyAccepted(buys[s], price)
           /\ ApplyBuy(s, buys[s], price)
           /\ entry' = [entry EXCEPT ![s] = day]
  <2>1. buys[s] * price \in Int /\ buys[s] * price >= 0
    BY <1>3, <1>6
  <2>2. BuyTotal(buys[s], price) \in Int
    BY <2>1, CostsType DEF BuyTotal
  <2>3. /\ cash' = cash - BuyTotal(buys[s], price) /\ cash' >= 0
        /\ qty' = [qty EXCEPT ![s] = buys[s]] /\ avail' = avail
    <3>1. /\ cash' = cash - BuyTotal(buys[s], price)
          /\ BuyTotal(buys[s], price) <= cash
          /\ qty' = [qty EXCEPT ![s] = qty[s] + buys[s]]
          /\ avail' = avail
      BY <1>6 DEF ApplyBuy, BuyAccepted
    <3>2. qty[s] + buys[s] = buys[s]
      BY <1>4
    <3>3. cash \in Nat /\ cash' >= 0
      BY <2>2, <3>1
    <3>4. qty' = [qty EXCEPT ![s] = buys[s]]
      BY <3>1, <3>2, Zenon
    <3> QED
      BY <3>1, <3>3, <3>4
  <2>4. LoopShape'
    BY <1>2, <1>6, <2>2, <2>3
  <2>5. PositionLimit'
    BY <1>2, <2>3, FewerPositions DEF Held, Buying
  <2>6. EntriesMatchHoldings'
    BY <1>2, <1>6, <2>3 DEF EntriesMatchHoldings, Held
  <2>7. ExitsWhole' /\ EntriesNew' /\ WholeLots'
    BY <1>2, <1>4, <2>3 DEF ExitsWhole, EntriesNew, WholeLots
  <2> QED
    BY <1>2, <2>4, <2>5, <2>6, <2>7 DEF StopClearsEntries
<1> QED
  BY <1>2, <1>5, <1>6

\* Marking the day and observing its drawdown keep the invariant.
LEMMA CloseDayKeeps ==
  ASSUME LoopInv, CloseDay
  PROVE  LoopInv'
<1>1. PositionLimit'
  BY FewerPositions DEF LoopInv, CloseDay, Held, Buying, orderVars
<1>2. /\ UNCHANGED <<cash, qty, avail, sells, buys, entry, day>>
      /\ \A s \in Symbol : sells[s] = 0 /\ buys[s] = 0
      /\ phase' \in {"done", "exits"}
  BY DEF CloseDay, orderVars, Selling, Buying, LoopInv, LoopShape
<1> QED
  BY <1>1, <1>2 DEF LoopInv, LoopShape, ExitsWhole, EntriesNew, WholeLots,
     StopClearsEntries, EntriesMatchHoldings, Held, Phase

\* Exits are ordered for whole settled positions.
LEMMA OrderExitsKeeps ==
  ASSUME LoopInv, OrderExits
  PROVE  LoopInv'
<1>1. PositionLimit'
  BY FewerPositions DEF LoopInv, OrderExits, Held, Buying, ledgerVars
<1>2. /\ UNCHANGED <<cash, qty, avail, buys, entry, day, risk>>
      /\ phase' = "entries"
      /\ \E exiting \in SUBSET Symbol :
           sells' = [s \in Symbol |-> IF s \in exiting THEN qty[s] ELSE 0]
  BY DEF OrderExits, ledgerVars, monitorVars, Held
<1> QED
  BY <1>1, <1>2 DEF LoopInv, LoopShape, ExitsWhole, EntriesNew, WholeLots,
     StopClearsEntries, EntriesMatchHoldings, Held, Phase

\* An entry is ordered for a symbol that is not held, within the limit.
LEMMA OrderEntryKeeps ==
  ASSUME LoopInv, NEW s \in Symbol, OrderEntry(s)
  PROVE  LoopInv'
<1> USE DEF LoopInv, LoopShape
<1>1. IsFiniteSet(Projected) /\ Cardinality(Projected) \in Nat
  BY SymbolAssumption, FS_Subset, FS_CardinalityType DEF Projected, Held, Buying
<1>2. PICK q \in Quantity(s) : buys' = [buys EXCEPT ![s] = q]
  BY DEF OrderEntry
<1>3. q \in Lots /\ risk = "NORMAL" /\ Cardinality(Projected) + 1 <= MaxPositions
  BY <1>1, <1>2, AllocationFacts DEF Quantity
<1>4. q \in Nat /\ q > 0
  BY <1>3, LotsPositive
<1>5. /\ UNCHANGED <<cash, qty, avail, sells, entry, day, risk, phase>>
      /\ phase = "entries" /\ s \notin Projected
  BY DEF OrderEntry, ledgerVars, monitorVars
<1>6. qty[s] = 0
  BY <1>5 DEF Projected, Held
<1>7. PositionLimit'
  <2>1. (Held \cup Buying)' = Projected \cup {s}
    BY <1>2, <1>4, <1>5 DEF Projected, Held, Buying
  <2>2. Cardinality(Projected \cup {s}) = Cardinality(Projected) + 1
    BY <1>1, <1>5, FS_AddElement
  <2> QED
    BY <1>3, <2>1, <2>2 DEF PositionLimit
<1>8. EntriesNew' /\ WholeLots' /\ LoopShape'
  BY <1>2, <1>3, <1>4, <1>5, <1>6 DEF EntriesNew, WholeLots
<1> QED
  BY <1>3, <1>5, <1>7, <1>8 DEF ExitsWhole, StopClearsEntries,
     EntriesMatchHoldings, Held

\* PassOver, EndDay and stuttering leave everything the invariant speaks of
\* alone, but for the day and the phase.
LEMMA QuietStepKeeps ==
  ASSUME LoopInv,
         UNCHANGED <<cash, qty, avail, sells, buys, entry, risk>>,
         \/ UNCHANGED <<day, phase>>
         \/ day' = day + 1 /\ phase = "entries" /\ phase' = "open"
  PROVE  LoopInv'
<1>1. PositionLimit'
  BY FewerPositions DEF LoopInv, Held, Buying
<1> QED
  BY <1>1 DEF LoopInv, LoopShape, ExitsWhole, EntriesNew, WholeLots,
     StopClearsEntries, EntriesMatchHoldings, Held, Phase

\* Every step keeps the invariant.
LEMMA NextKeeps ==
  ASSUME LoopInv, [Next]_vars
  PROVE  LoopInv'
<1> USE DEF ledgerVars, monitorVars, orderVars, loopVars
<1>1. ASSUME NEW s \in Symbol, PassOver(s) PROVE LoopInv'
  BY <1>1, QuietStepKeeps DEF PassOver
<1>2. CASE EndDay
  BY <1>2, QuietStepKeeps DEF EndDay
<1>3. CASE UNCHANGED vars
  BY <1>3, QuietStepKeeps DEF vars
<1> QED
  BY <1>1, <1>2, <1>3, OpenDayKeeps, ExecuteSellKeeps, ExecuteBuyKeeps,
     CloseDayKeeps, OrderExitsKeeps, OrderEntryKeeps DEF Next, Finished

\* It holds before the first day.
LEMMA InitHolds == Init => LoopInv
<1> SUFFICES ASSUME Init PROVE LoopInv
  OBVIOUS
<1>1. Held \cup Buying = {}
  BY DEF Init, LedgerInit, Held, Buying
<1>2. PositionLimit
  BY <1>1, FS_EmptySet, LimitAssumption DEF PositionLimit
<1> QED
  BY <1>2, CashAssumption DEF Init, LedgerInit, MonitorInit, LoopInv,
     LoopShape, ExitsWhole, EntriesNew, WholeLots, StopClearsEntries,
     EntriesMatchHoldings, Held, Phase

----------------------------------------------------------------------------
(* The theorems.                                                           *)

\* The inductive invariant holds of every run.
THEOREM LoopInvariant == Spec => []LoopInv
<1>1. LoopInv /\ [Next]_vars => LoopInv'
  BY NextKeeps
<1> QED
  BY <1>1, InitHolds, PTL DEF Spec

\* No market makes the account hold, or be about to hold, more symbols than
\* max_positions.
THEOREM PositionsLimited == Spec => []PositionLimit
<1>1. LoopInv => PositionLimit
  BY DEF LoopInv
<1> QED
  BY <1>1, LoopInvariant, PTL

\* The ledger never refuses a fill of the loop, provided that what a sale
\* brings in covers its fees.
THEOREM LoopNeverFails ==
  ASSUME FeesCovered
  PROVE  Spec => []NeverFails
<1>1. Init => NeverFails
  BY DEF Init, NeverFails
<1>2. ASSUME LoopInv, NEW s \in Symbol, ExecuteSell(s) PROVE phase' = phase
  <2> USE DEF LoopInv, LoopShape
  <2>1. ASSUME NEW bar \in Bar, FillPrice("SELL", sells[s], bar) > 0
        PROVE  SellAccepted(s, sells[s], FillPrice("SELL", sells[s], bar))
    <3> DEFINE price == FillPrice("SELL", sells[s], bar)
    <3>1. price \in Int /\ price > 0 /\ price = ExecutionPrice("SELL", bar.open)
      BY <2>1, FillPriceType
    <3> HIDE DEF price
    <3>2. sells[s] = qty[s] /\ avail[s] = qty[s] /\ qty[s] \in Lots
      BY <1>2, SellOutcome
    <3>3. Costs("SELL", sells[s] * price) <= sells[s] * price
      BY <3>1, <3>2 DEF FeesCovered
    <3>4. sells[s] * price \in Int /\ sells[s] * price >= 0
      BY <1>2, <3>1
    <3>5. Costs("SELL", sells[s] * price) \in Nat
      BY <3>4, CostsType
    <3>6. SellAccepted(s, sells[s], price)
      BY <1>2, <3>2, <3>3, <3>4, <3>5 DEF SellAccepted, SellProceeds
    <3> QED
      BY <3>6 DEF price
  <2> QED
    BY <1>2, <2>1, SellOutcome, Zenon
<1>3. LoopInv /\ NeverFails /\ [Next]_vars => NeverFails'
  <2> SUFFICES ASSUME LoopInv, NeverFails, [Next]_vars PROVE NeverFails'
    OBVIOUS
  <2> USE DEF NeverFails
  <2>1. ASSUME NEW s \in Symbol,
               ExecuteSell(s) \/ ExecuteBuy(s) \/ OrderEntry(s) \/ PassOver(s)
        PROVE  NeverFails'
    BY <1>2, <2>1 DEF ExecuteBuy, OrderEntry, PassOver
  <2>2. CASE OpenDay \/ CloseDay \/ OrderExits \/ EndDay
    BY <2>2 DEF OpenDay, CloseDay, OrderExits, EndDay
  <2>3. CASE Finished \/ UNCHANGED vars
    BY <2>3 DEF Finished, vars
  <2> QED
    BY <2>1, <2>2, <2>3 DEF Next
<1> QED
  BY <1>1, <1>3, LoopInvariant, PTL DEF Spec

\* A symbol has an entry state exactly while it is held.
THEOREM EntriesTrackHoldings == Spec => []EntriesMatchHoldings
<1>1. LoopInv => EntriesMatchHoldings
  BY DEF LoopInv
<1> QED
  BY <1>1, LoopInvariant, PTL

\* After the monitor has left NORMAL no position grows.
THEOREM StopEndsExposure == Spec => NoNewExposureAfterStop
<1>1. LoopInv /\ [Next]_vars
        => [risk # "NORMAL" => \A s \in Symbol : qty'[s] <= qty[s]]_vars
  <2> SUFFICES ASSUME LoopInv, Next, risk # "NORMAL", NEW t \in Symbol
               PROVE  qty'[t] <= qty[t]
    OBVIOUS
  <2> USE DEF LoopInv, LoopShape, ledgerVars
  <2>1. ASSUME NEW s \in Symbol, ExecuteBuy(s) PROVE FALSE
    BY <2>1 DEF ExecuteBuy, StopClearsEntries
  <2>2. ASSUME NEW s \in Symbol, ExecuteSell(s) PROVE qty'[t] <= qty[t]
    <3>1. \/ qty' = qty
          \/ qty' = [qty EXCEPT ![s] = qty[s] - sells[s]]
      BY <2>2 DEF ExecuteSell, ApplySell
    <3> QED
      BY <3>1
  <2>3. CASE OpenDay \/ CloseDay \/ OrderExits \/ EndDay \/ Finished
    BY <2>3 DEF OpenDay, CloseDay, OrderExits, EndDay, Finished, vars
  <2>4. ASSUME NEW s \in Symbol, OrderEntry(s) \/ PassOver(s)
        PROVE  qty'[t] <= qty[t]
    BY <2>4 DEF OrderEntry, PassOver
  <2> QED
    BY <2>1, <2>2, <2>3, <2>4 DEF Next
<1> QED
  BY <1>1, LoopInvariant, PTL DEF Spec, NoNewExposureAfterStop

\* From the evening that orders the exits to the next open, a position that
\* will then have been held for max_holding_days has its exit order.
ExitsOrdered ==
  \A s \in Held :
    /\ phase = "entries" /\ HeldDays(s) >= MaxHoldingDays => sells[s] = qty[s]
    /\ phase = "open" /\ day - entry[s] >= MaxHoldingDays => sells[s] = qty[s]

\* A position held for max_holding_days meets the open with an order to sell
\* all of it, in any market and however often earlier exits stayed unfilled.
THEOREM OverdueExits == Spec => []OverdueIsExiting
<1>1. Init => ExitsOrdered
  BY DEF Init, LedgerInit, ExitsOrdered, Held
<1>2. LoopInv /\ ExitsOrdered /\ [Next]_vars => ExitsOrdered'
  <2> SUFFICES ASSUME LoopInv, ExitsOrdered, [Next]_vars PROVE ExitsOrdered'
    OBVIOUS
  <2> USE DEF LoopInv, LoopShape, Held
  <2>1. CASE OrderExits
    <3>1. ASSUME NEW s \in Symbol, qty[s] > 0, HeldDays(s) >= MaxHoldingDays
          PROVE  sells'[s] = qty[s]
      BY <2>1, <3>1 DEF OrderExits, EntriesMatchHoldings
    <3>2. phase' = "entries" /\ UNCHANGED <<qty, entry, day>>
      BY <2>1 DEF OrderExits, ledgerVars
    <3> QED
      BY <3>1, <3>2 DEF ExitsOrdered, HeldDays
  <2>2. CASE EndDay
    <3>1. phase = "entries" /\ phase' = "open" /\ day' = day + 1 /\ UNCHANGED <<qty, sells, entry>>
      BY <2>2 DEF EndDay, ledgerVars, orderVars
    <3> QED
      BY <3>1 DEF ExitsOrdered, HeldDays
  <2>3. ASSUME NEW s \in Symbol, OrderEntry(s) \/ PassOver(s) PROVE ExitsOrdered'
    <3>1. UNCHANGED <<qty, sells, entry, day, phase>>
      BY <2>3 DEF OrderEntry, PassOver, ledgerVars, orderVars
    <3> QED
      BY <3>1 DEF ExitsOrdered, HeldDays
  <2>4. ASSUME NEW s \in Symbol, ExecuteSell(s) \/ ExecuteBuy(s) PROVE ExitsOrdered'
    <3>1. phase' \in {"orders", "failed"}
      BY <2>4 DEF ExecuteSell, ExecuteBuy
    <3> QED
      BY <3>1 DEF ExitsOrdered
  <2>5. CASE OpenDay \/ CloseDay
    <3>1. phase' \in {"orders", "exits", "done"}
      BY <2>5 DEF OpenDay, CloseDay
    <3> QED
      BY <3>1 DEF ExitsOrdered
  <2>6. CASE Finished \/ UNCHANGED vars
    <3>1. UNCHANGED <<qty, sells, entry, day, phase>>
      BY <2>6 DEF Finished, vars, ledgerVars, orderVars
    <3> QED
      BY <3>1 DEF ExitsOrdered, HeldDays
  <2> QED
    BY <2>1, <2>2, <2>3, <2>4, <2>5, <2>6 DEF Next
<1>3. ExitsOrdered => OverdueIsExiting
  BY DEF ExitsOrdered, OverdueIsExiting
<1> QED
  BY <1>1, <1>2, <1>3, LoopInvariant, PTL DEF Spec

----------------------------------------------------------------------------
(* The evening's entry orders.                                             *)

\* What the orders of the evening would cost at the close.
Spent == SumFunction([s \in Buying |-> BuyTotal(buys[s], lastClose[s])])

\* Every evening starts without entry orders; what is left of cash is what
\* the ordered entries do not need.
OrdersTold ==
  /\ lastClose \in [Symbol -> Nat] /\ basis \in [Symbol -> Int]
  /\ equity \in Int /\ money \in Int
  /\ phase = "exits" => Buying = {}
  /\ phase = "entries" => /\ money = cash - Spent /\ money >= 0
                          /\ \A s \in Buying : lastClose[s] > 0

OrdersInv == LoopInv /\ OrdersTold /\ OrdersWithinLimits

\* A set of symbols is finite, and what is invested in it is a whole amount.
LEMMA InvestedType ==
  ASSUME LoopInv, OrdersTold, NEW S \in SUBSET Symbol
  PROVE  /\ IsFiniteSet(S)
         /\ [s \in S |-> ProjectedValue(s)] \in [S -> Int]
         /\ Invested(S) \in Int
<1>1. IsFiniteSet(S)
  BY SymbolAssumption, FS_Subset
<1>2. ASSUME NEW s \in S
      PROVE  ProjectedValue(s) \in Int
  <2>1. /\ qty[s] \in Nat /\ buys[s] \in Nat /\ lastClose[s] \in Nat /\ basis[s] \in Int
    BY DEF LoopInv, LoopShape, OrdersTold
  <2>2. qty[s] * lastClose[s] \in Int /\ buys[s] * lastClose[s] \in Int
    BY <2>1
  <2> QED
    BY <2>1, <2>2 DEF ProjectedValue, PositionValue, ValueOf
<1>3. [s \in S |-> ProjectedValue(s)] \in [S -> Int]
  BY <1>2
<1> QED
  BY <1>1, <1>3, SumAdds DEF Invested

\* The cost of a purchase is a whole amount.
LEMMA BuyTotalType ==
  ASSUME NEW q \in Nat, NEW price \in Nat
  PROVE  BuyTotal(q, price) \in Nat
<1>1. q * price \in Nat
  OBVIOUS
<1> QED
  BY <1>1, CostsType DEF BuyTotal

\* What a step leaves behind that does not order entries.
LEMMA OrdersRest ==
  ASSUME OrdersTold, basis' \in [Symbol -> Int],
         UNCHANGED <<lastClose, equity, money>>, phase' \notin {"exits", "entries"}
  PROVE  OrdersTold' /\ OrdersWithinLimits'
BY DEF OrdersTold, OrdersWithinLimits

\* A fill belongs to the day: the limits are of the evening that orders.
LEMMA ExecutionRest ==
  ASSUME OrdersInv, NEW s \in Symbol, ExecuteSell(s) \/ ExecuteBuy(s)
  PROVE  OrdersTold' /\ OrdersWithinLimits'
<1>1. /\ UNCHANGED <<lastClose, equity, money>>
      /\ phase' \in {"orders", "failed"}
  BY DEF ExecuteSell, ExecuteBuy, loopVars
<1>2. /\ basis \in [Symbol -> Int] /\ qty \in [Symbol -> Nat] /\ sells \in [Symbol -> Nat]
      /\ buys \in [Symbol -> Nat]
  BY DEF OrdersInv, OrdersTold, LoopInv, LoopShape
<1>3. ASSUME NEW bar \in Bar, ApplyBuy(s, buys[s], FillPrice("BUY", buys[s], bar)),
             FillPrice("BUY", buys[s], bar) > 0
      PROVE  basis' \in [Symbol -> Int]
  <2> DEFINE price == FillPrice("BUY", buys[s], bar)
  <2>1. price \in Nat
    BY <1>3, FillPriceType
  <2> HIDE DEF price
  <2>2. BuyTotal(buys[s], price) \in Nat
    BY <1>2, <2>1, BuyTotalType
  <2>3. basis' = [basis EXCEPT ![s] = basis[s] + BuyTotal(buys[s], price)]
    BY <1>3 DEF ApplyBuy, price
  <2>4. basis[s] + BuyTotal(buys[s], price) \in Int
    BY <1>2, <2>2
  <2> QED
    BY <1>2, <2>3, <2>4
<1>4. ASSUME NEW price, ApplySell(s, sells[s], price), sells[s] > 0
      PROVE  basis' \in [Symbol -> Int]
  <2>1. qty[s] \in Nat /\ qty[s] > 0
    BY <1>2, <1>4 DEF OrdersInv, LoopInv, ExitsWhole
  <2> DEFINE sold == (basis[s] * sells[s]) \div qty[s]
  <2>2. sold \in Int
    <3>1. basis[s] * sells[s] \in Int
      BY <1>2
    <3> QED
      BY <2>1, <3>1
  <2>3. basis' = [basis EXCEPT ![s] = Larger(0, basis[s] - sold)]
    BY <1>4 DEF ApplySell
  <2> HIDE DEF sold
  <2>4. Larger(0, basis[s] - sold) \in Int
    BY <1>2, <2>2 DEF Larger
  <2> QED
    BY <1>2, <2>3, <2>4
<1>5. basis' \in [Symbol -> Int]
  <2>1. CASE ExecuteSell(s)
    <3>1. PICK bar \in Bar : ExecuteSell(s)!(bar)
      BY <2>1 DEF ExecuteSell
    <3> QED
      BY <1>2, <1>4, <3>1 DEF ledgerVars
  <2>2. CASE ExecuteBuy(s)
    <3>1. PICK bar \in Bar : ExecuteBuy(s)!(bar)
      BY <2>2 DEF ExecuteBuy
    <3> QED
      BY <1>2, <1>3, <3>1 DEF ledgerVars
  <2> QED
    BY <2>1, <2>2
<1> QED
  BY <1>1, <1>5, OrdersRest DEF OrdersInv

\* The close finds no order pending and values the account anew.
LEMMA CloseRest ==
  ASSUME OrdersInv, CloseDay
  PROVE  OrdersTold' /\ OrdersWithinLimits'
<1>1. /\ UNCHANGED <<cash, qty, basis, buys, money>> /\ Buying = {}
      /\ phase' \in {"exits", "done"}
      /\ equity' = EquityOf(cash, qty, basis, lastClose')
  BY DEF CloseDay, orderVars
<1>2. /\ cash \in Nat /\ qty \in [Symbol -> Nat] /\ basis \in [Symbol -> Int] /\ money \in Int
      /\ lastClose \in [Symbol -> Nat]
  BY DEF OrdersInv, OrdersTold, LoopInv, LoopShape
<1>3. lastClose' \in [Symbol -> Nat]
  <2>1. PICK price \in [traded' -> ClosePrice] :
          lastClose' = [s \in Symbol |-> IF s \in traded' THEN price[s] ELSE lastClose[s]]
    BY DEF CloseDay
  <2>2. \A s \in traded' : price[s] \in Nat
    BY LoopAssumption
  <2> QED
    BY <1>2, <2>1, <2>2
<1>4. equity' \in Int
  <2> DEFINE value == [s \in Symbol |-> ValueOf(qty[s], basis[s], lastClose'[s])]
  <2>1. \A s \in Symbol : ValueOf(qty[s], basis[s], lastClose'[s]) \in Int
    <3> SUFFICES ASSUME NEW s \in Symbol PROVE ValueOf(qty[s], basis[s], lastClose'[s]) \in Int
      OBVIOUS
    <3>1. qty[s] \in Nat /\ basis[s] \in Int /\ lastClose'[s] \in Nat
      BY <1>2, <1>3
    <3>2. qty[s] * lastClose'[s] \in Int
      BY <3>1
    <3> QED
      BY <3>1, <3>2 DEF ValueOf
  <2>2. value \in [Symbol -> Int]
    BY <2>1
  <2>3. equity' = cash + SumFunction(value)
    BY <1>1 DEF EquityOf
  <2> HIDE DEF value
  <2>4. SumFunction(value) \in Int
    BY <2>2, SymbolAssumption, SumAdds
  <2> QED
    BY <1>2, <2>3, <2>4
<1>5. Buying' = {}
  BY <1>1 DEF Buying
<1> QED
  BY <1>1, <1>2, <1>3, <1>4, <1>5 DEF OrdersTold, OrdersWithinLimits

\* When the exits are ordered the evening has all of its cash.
LEMMA ExitsRest ==
  ASSUME OrdersInv, OrderExits
  PROVE  OrdersTold' /\ OrdersWithinLimits'
<1>1. /\ UNCHANGED <<cash, basis, buys, lastClose, equity>> /\ money' = cash
      /\ phase = "exits" /\ phase' = "entries"
  BY DEF OrderExits, ledgerVars
<1>2. Buying = {} /\ Buying' = {} /\ cash \in Nat
  BY <1>1 DEF OrdersInv, OrdersTold, Buying, LoopInv, LoopShape
<1>3. Spent' = 0
  <2> DEFINE cost == [s \in {} |-> BuyTotal(buys'[s], lastClose'[s])]
  <2>1. Spent' = SumFunction(cost)
    BY <1>2 DEF Spent
  <2>2. cost \in [{} -> Int] /\ IsFiniteSet({})
    BY FS_EmptySet
  <2> HIDE DEF cost
  <2> QED
    BY <2>1, <2>2, SumAdds
<1> QED
  BY <1>1, <1>2, <1>3 DEF OrdersInv, OrdersTold, OrdersWithinLimits

\* One more entry order: cash still covers the evening's orders, and every
\* limit has been asked with all the earlier ones counted.
LEMMA EntryRest ==
  ASSUME OrdersInv, NEW s \in Symbol, OrderEntry(s)
  PROVE  OrdersTold' /\ OrdersWithinLimits'
<1> DEFINE price == lastClose[s]
           industry == Projected \cap SameIndustry(s)
<1>1. LoopInv /\ OrdersTold /\ OrdersWithinLimits
  BY DEF OrdersInv
<1>2. /\ UNCHANGED <<cash, qty, basis, lastClose, equity, phase>>
      /\ phase = "entries" /\ s \notin Projected
  BY DEF OrderEntry, ledgerVars
<1>3. PICK q \in Quantity(s) : buys' = [buys EXCEPT ![s] = q] /\ money' = money - BuyTotal(q, price)
  BY DEF OrderEntry
<1>4. /\ qty \in [Symbol -> Nat] /\ buys \in [Symbol -> Nat] /\ lastClose \in [Symbol -> Nat]
      /\ basis \in [Symbol -> Int] /\ cash \in Nat /\ equity \in Int /\ money \in Int
      /\ money = cash - Spent /\ \A t \in Buying : lastClose[t] > 0
  BY <1>1, <1>2 DEF OrdersTold, LoopInv, LoopShape
<1>5. Projected \in SUBSET Symbol /\ industry \in SUBSET Symbol /\ Buying \in SUBSET Symbol
  BY DEF Projected, Held, Buying
<1>6. Invested(Projected) \in Int /\ Invested(industry) \in Int
  BY <1>1, <1>5, InvestedType
<1>7. /\ price \in Nat /\ price > 0 /\ q \in Nat \ {0}
      /\ BuyTotal(q, price) <= money
      /\ 100 * (q * price) <= equity * PositionPct
      /\ 100 * (q * price) <= equity * IndustryPct - 100 * Invested(industry)
      /\ 100 * (q * price) <= equity * InvestmentPct - 100 * Invested(Projected)
  <2>1. q \in AllocateQuantity(price, money, equity, Invested(Projected), Invested(industry),
                               Cardinality(Projected), risk) /\ price \in Nat
    BY <1>3, <1>4 DEF Quantity
  <2> HIDE DEF price, industry
  <2> QED
    BY <1>4, <1>6, <2>1, AllocationLimits
<1>8. q * price \in Nat /\ BuyTotal(q, price) \in Nat
  <2> HIDE DEF price
  <2>1. q \in Nat /\ price \in Nat
    BY <1>7
  <2>2. BuyTotal(q, price) \in Nat
    BY <2>1, BuyTotalType
  <2>3. q * price \in Nat
    BY <2>1
  <2> QED
    BY <2>2, <2>3
<1>9. qty[s] = 0 /\ buys[s] = 0 /\ s \notin Buying
  BY <1>2, <1>4 DEF Projected, Held, Buying
<1>10. /\ buys'[s] = q /\ \A t \in Symbol : t # s => buys'[t] = buys[t]
       /\ Buying' = Buying \cup {s} /\ Projected' = Projected \cup {s}
  <2>1. buys'[s] = q /\ \A t \in Symbol : t # s => buys'[t] = buys[t]
    BY <1>3, <1>4
  <2>2. Buying' = Buying \cup {s}
    BY <1>7, <2>1 DEF Buying
  <2>3. Held' = Held
    BY <1>2 DEF Held
  <2> QED
    BY <2>1, <2>2, <2>3 DEF Projected
<1>11. /\ ProjectedValue(s)' = q * price
       /\ \A t \in Symbol : t # s => ProjectedValue(t)' = ProjectedValue(t)
  <2>1. ASSUME NEW t \in Symbol, t # s
        PROVE  ProjectedValue(t)' = ProjectedValue(t)
    BY <1>2, <1>10, <2>1 DEF ProjectedValue, PositionValue, ValueOf
  <2>2. ProjectedValue(s)' = 0 * price + q * price
    BY <1>2, <1>7, <1>9, <1>10 DEF ProjectedValue, PositionValue, ValueOf
  <2>3. 0 * price + q * price = q * price
    BY <1>7, <1>8
  <2> QED
    BY <2>1, <2>2, <2>3
<1> HIDE DEF price, industry
<1> DEFINE Later(S) == SumFunction([t \in S |-> ProjectedValue(t)'])
<1>12. ASSUME NEW S \in SUBSET Symbol, s \notin S
       PROVE  /\ Later(S \cup {s}) = Invested(S) + q * price
              /\ Later(S) = Invested(S)
  <2> DEFINE f == [t \in S |-> ProjectedValue(t)]
             g == [t \in S \cup {s} |-> IF t = s THEN q * price ELSE f[t]]
  <2>1. IsFiniteSet(S) /\ f \in [S -> Int] /\ q * price \in Int
    BY <1>1, <1>8, InvestedType
  <2>2. [t \in S \cup {s} |-> ProjectedValue(t)'] = g
    BY <1>11, <1>12
  <2>3. [t \in S |-> ProjectedValue(t)'] = f
    BY <1>11, <1>12
  <2> HIDE DEF f
  <2>4. SumFunction(g) = SumFunction(f) + q * price
    BY <1>12, <2>1, SumGrows
  <2> HIDE DEF g
  <2>5. Later(S \cup {s}) = SumFunction(g) /\ Later(S) = SumFunction(f)
    BY <2>2, <2>3
  <2>6. Invested(S) = SumFunction(f)
    BY DEF Invested, f
  <2> QED
    BY <2>4, <2>5, <2>6
<1>13. Spent' = Spent + BuyTotal(q, price) /\ Spent \in Int
  <2> DEFINE f == [t \in Buying |-> BuyTotal(buys[t], lastClose[t])]
             g == [t \in Buying \cup {s} |-> IF t = s THEN BuyTotal(q, price) ELSE f[t]]
  <2>1. IsFiniteSet(Buying)
    BY <1>5, SymbolAssumption, FS_Subset
  <2>2. f \in [Buying -> Int]
    <3>1. ASSUME NEW t \in Buying PROVE BuyTotal(buys[t], lastClose[t]) \in Int
      <4>1. buys[t] \in Nat /\ lastClose[t] \in Nat
        BY <1>4, <1>5
      <4>2. BuyTotal(buys[t], lastClose[t]) \in Nat
        BY <4>1, BuyTotalType
      <4> QED
        BY <4>2
    <3> QED
      BY <3>1
  <2>3. [t \in Buying' |-> BuyTotal(buys'[t], lastClose'[t])] = g
    <3>1. \A t \in Buying : t \in Symbol /\ t # s
      BY <1>5, <1>9
    <3>2. BuyTotal(buys'[s], lastClose'[s]) = BuyTotal(q, price)
      BY <1>2, <1>10 DEF price
    <3>3. \A t \in Buying : BuyTotal(buys'[t], lastClose'[t]) = f[t]
      BY <1>2, <1>10, <3>1
    <3> HIDE DEF f
    <3> QED
      BY <1>10, <3>1, <3>2, <3>3
  <2>4. BuyTotal(q, price) \in Int
    BY <1>8
  <2> HIDE DEF f
  <2>5. SumFunction(g) = SumFunction(f) + BuyTotal(q, price) /\ SumFunction(f) \in Int
    BY <1>9, <2>1, <2>2, <2>4, SumGrows
  <2> HIDE DEF g
  <2>6. Spent' = SumFunction(g) /\ Spent = SumFunction(f)
    BY <2>3 DEF Spent, f
  <2> QED
    BY <2>5, <2>6
<1>14. OrdersTold'
  <2>1. money' \in Int /\ money' = cash' - Spent' /\ money' >= 0
    BY <1>2, <1>3, <1>4, <1>7, <1>8, <1>13
  <2>2. \A t \in Buying' : lastClose'[t] > 0
    BY <1>2, <1>4, <1>7, <1>10 DEF price
  <2> QED
    BY <1>2, <1>4, <2>1, <2>2 DEF OrdersTold
<1>15. OrdersWithinLimits'
  <2> HIDE DEF Later
  <2>1. Spent' <= cash'
    BY <1>2, <1>4, <1>13, <1>14 DEF OrdersTold
  <2>2. 100 * Later(Projected') <= InvestmentPct * equity'
    <3>1. Later(Projected') = Invested(Projected) + q * price
      BY <1>2, <1>5, <1>10, <1>12
    <3>2. equity * InvestmentPct = InvestmentPct * equity /\ InvestmentPct * equity \in Int
      BY <1>4, LimitAssumption
    <3> QED
      BY <1>2, <1>6, <1>7, <1>8, <3>1, <3>2
  <2>3. ASSUME NEW u \in Buying'
        PROVE  /\ 100 * Later(Projected' \cap SameIndustry(u)) <= IndustryPct * equity'
               /\ 100 * ProjectedValue(u)' <= PositionPct * equity'
    <3>1. u \in Symbol /\ (u = s \/ (u \in Buying /\ u # s))
      <4>1. u = s \/ u \in Buying
        BY <1>10, <2>3
      <4> QED
        BY <1>5, <4>1
    <3>2. equity * IndustryPct = IndustryPct * equity /\ IndustryPct * equity \in Int
      BY <1>4, LimitAssumption
    <3>3. equity * PositionPct = PositionPct * equity
      BY <1>4, LimitAssumption
    <3>4. ASSUME s \in SameIndustry(u)
          PROVE  100 * Later(Projected' \cap SameIndustry(u)) <= IndustryPct * equity'
      <4>1. SameIndustry(u) = SameIndustry(s)
        BY <3>4 DEF SameIndustry
      <4>2. Projected' \cap SameIndustry(u) = industry \cup {s} /\ s \notin industry
        BY <1>2, <1>10, <3>4, <4>1 DEF industry
      <4>3. Later(Projected' \cap SameIndustry(u)) = Invested(industry) + q * price
        BY <1>5, <1>12, <4>2
      <4> QED
        BY <1>2, <1>6, <1>7, <1>8, <3>2, <4>3
    <3>5. ASSUME s \notin SameIndustry(u)
          PROVE  100 * Later(Projected' \cap SameIndustry(u)) <= IndustryPct * equity'
      <4>1. u \in Buying /\ u # s
        BY <3>1, <3>5 DEF SameIndustry
      <4>2. Projected' \cap SameIndustry(u) = Projected \cap SameIndustry(u)
        BY <1>10, <3>5
      <4>3. Projected \cap SameIndustry(u) \in SUBSET Symbol /\ s \notin Projected \cap SameIndustry(u)
        BY <1>5, <3>5
      <4>4. Later(Projected' \cap SameIndustry(u)) = Invested(Projected \cap SameIndustry(u))
        BY <1>12, <4>2, <4>3
      <4>5. 100 * Invested(Projected \cap SameIndustry(u)) <= IndustryPct * equity
        BY <1>1, <1>2, <4>1 DEF OrdersWithinLimits
      <4> QED
        BY <1>2, <4>4, <4>5
    <3>6. 100 * ProjectedValue(u)' <= PositionPct * equity'
      <4>1. CASE u = s
        BY <1>2, <1>7, <1>8, <1>11, <3>3, <4>1
      <4>2. CASE u \in Buying /\ u # s
        <5>1. 100 * ProjectedValue(u) <= PositionPct * equity
          BY <1>1, <1>2, <4>2 DEF OrdersWithinLimits
        <5> QED
          BY <1>2, <1>11, <3>1, <4>2, <5>1
      <4> QED
        BY <3>1, <4>1, <4>2
    <3>7. 100 * Later(Projected' \cap SameIndustry(u)) <= IndustryPct * equity'
      BY <3>4, <3>5
    <3> QED
      BY <3>6, <3>7
  <2> QED
    BY <1>2, <2>1, <2>2, <2>3 DEF OrdersWithinLimits, Spent, Invested, Later
<1> QED
  BY <1>14, <1>15

\* The entry orders of one evening together stay within cash and within the
\* total, industry and single-position limits, however many are ordered and
\* whatever is held.
THEOREM OrdersLimited == Spec => []OrdersWithinLimits
<1>1. Init => OrdersTold /\ OrdersWithinLimits
  <2> SUFFICES ASSUME Init PROVE OrdersTold /\ OrdersWithinLimits
    OBVIOUS
  <2>1. InitialCash \in Int /\ phase = "open"
    BY CashAssumption DEF Init
  <2> QED
    BY <2>1 DEF Init, LedgerInit, OrdersTold, OrdersWithinLimits
<1>2. OrdersInv /\ [Next]_vars => OrdersTold' /\ OrdersWithinLimits'
  <2> SUFFICES ASSUME OrdersInv, [Next]_vars PROVE OrdersTold' /\ OrdersWithinLimits'
    OBVIOUS
  <2>1. OrdersTold /\ basis \in [Symbol -> Int]
    BY DEF OrdersInv, OrdersTold
  <2>2. CASE OpenDay
    <3>1. UNCHANGED <<basis, lastClose, equity, money>> /\ phase' = "orders"
      BY <2>2 DEF OpenDay, loopVars
    <3> QED
      BY <2>1, <3>1, OrdersRest
  <2>3. CASE EndDay
    <3>1. UNCHANGED <<basis, lastClose, equity, money>> /\ phase' = "open"
      BY <2>3 DEF EndDay, ledgerVars, loopVars
    <3> QED
      BY <2>1, <3>1, OrdersRest
  <2>4. ASSUME NEW s \in Symbol, ExecuteSell(s) \/ ExecuteBuy(s)
        PROVE  OrdersTold' /\ OrdersWithinLimits'
    BY <2>4, ExecutionRest
  <2>5. ASSUME UNCHANGED <<cash, qty, basis, buys, lastClose, equity, money, phase>>
        PROVE  OrdersTold' /\ OrdersWithinLimits'
    BY <2>5 DEF OrdersInv, OrdersTold, OrdersWithinLimits, Spent, Buying, Invested,
       Projected, Held, ProjectedValue, PositionValue
  <2>6. ASSUME NEW s \in Symbol, PassOver(s) PROVE OrdersTold' /\ OrdersWithinLimits'
    BY <2>5, <2>6 DEF PassOver, ledgerVars, orderVars
  <2>7. CASE UNCHANGED vars
    BY <2>5, <2>7 DEF vars, ledgerVars, orderVars, loopVars
  <2> QED
    BY <2>2, <2>3, <2>4, <2>6, <2>7, CloseRest, ExitsRest, EntryRest DEF Next, Finished
<1> QED
  BY <1>1, <1>2, LoopInvariant, PTL DEF Spec, OrdersInv

----------------------------------------------------------------------------
(* The drawdown monitor under its full interface (ReviewSpec): the alarm   *)
(* and the recovery.                                                       *)

\* Observing keeps the inductive invariant.
LEMMA ObserveKeepsInv ==
  ASSUME ReviewInv, NEW value \in Equity, ObserveStep(value)
  PROVE  ReviewInv'
<1> USE ThresholdAssumption, EquityRangeAssumption
    DEF ReviewInv, ReviewTypeOK, ObserveStep, Observe, RiskState
<1>1. peak' \in Nat \ {0}
  OBVIOUS
<1>2. DownBy(StopPct, value, peak') => DownBy(WarningPct, value, peak')
  <2>1. \A w, s, n \in Nat : w < s => w * n <= s * n
    OBVIOUS
  <2>2. WarningPct * peak' <= StopPct * peak'
    BY <1>1, <2>1
  <2>3. value \in Nat
    OBVIOUS
  <2> QED
    BY <1>1, <2>2, <2>3 DEF DownBy
<1>3. /\ risk' \in RiskState
      /\ risk = "REVIEW_REQUIRED" => risk' = risk
      /\ risk' # risk => risk # "REVIEW_REQUIRED"
  BY DEF NextRisk
<1>4. worst' \in 0 .. 2 /\ AlarmReflectsWorst'
  BY <1>2 DEF NextRisk, Level, AlarmReflectsWorst, Severity
<1>5. ConfirmedInReview'
  BY <1>3 DEF ConfirmedInReview
<1> QED
  BY <1>1, <1>3, <1>4, <1>5

\* So does confirming.
LEMMA ConfirmKeepsInv ==
  ASSUME ReviewInv, NEW value \in Equity, NEW id \in Confirmation,
         ConfirmStep(id, value)
  PROVE  ReviewInv'
BY DEF ReviewInv, ReviewTypeOK, AlarmReflectsWorst, Severity,
       ConfirmedInReview, ConfirmStep, ConfirmRecovery, RiskState

\* The inductive invariant of the monitor, for all thresholds and equities.
THEOREM ReviewInvariant == ReviewSpec => []ReviewInv
<1>1. ReviewInit => ReviewInv
  BY EquityAssumption DEF ReviewInit, MonitorInit, ReviewInv, ReviewTypeOK,
     AlarmReflectsWorst, Severity, ConfirmedInReview, RiskState
<1>2. ReviewInv /\ [ReviewNext]_reviewVars => ReviewInv'
  <2> SUFFICES ASSUME ReviewInv, [ReviewNext]_reviewVars PROVE ReviewInv'
    OBVIOUS
  <2>1. CASE ReviewNext
    BY <2>1, ObserveKeepsInv, ConfirmKeepsInv DEF ReviewNext
  <2>2. CASE UNCHANGED reviewVars
    BY <2>2 DEF reviewVars, monitorVars, ReviewInv, ReviewTypeOK,
       AlarmReflectsWorst, ConfirmedInReview
  <2> QED
    BY <2>1, <2>2
<1> QED
  BY <1>1, <1>2, PTL DEF ReviewSpec

\* An alarm is as severe as the worst drawdown since the last recovery.
THEOREM AlarmIsWorst == ReviewSpec => []AlarmReflectsWorst
<1>1. ReviewInv => AlarmReflectsWorst
  BY DEF ReviewInv
<1> QED
  BY <1>1, ReviewInvariant, PTL

\* A review ends only after two different ids were accepted since it began.
THEOREM RecoveryNeedsTwo == ReviewSpec => RecoveryConfirmedTwice
<1>1. ReviewInv /\ [ReviewNext]_reviewVars
        => [risk = "REVIEW_REQUIRED" /\ risk' # "REVIEW_REQUIRED"
              => \E i, j \in given' : i # j]_reviewVars
  <2> SUFFICES ASSUME ReviewInv, ReviewNext, risk = "REVIEW_REQUIRED",
                      risk' # "REVIEW_REQUIRED"
               PROVE  \E i, j \in given' : i # j
    OBVIOUS
  <2>1. PICK value \in Equity :
          ObserveStep(value) \/ \E id \in Confirmation : ConfirmStep(id, value)
    BY DEF ReviewNext
  <2>2. ~ObserveStep(value)
    BY DEF ObserveStep, Observe, NextRisk
  <2>3. PICK id \in Confirmation : ConfirmStep(id, value)
    BY <2>1, <2>2
  <2>4. confirmed # {} /\ id \notin confirmed
    BY <2>3 DEF ConfirmStep, ConfirmRecovery
  <2>5. PICK first \in confirmed : first # id
    BY <2>4
  <2> QED
    BY <2>3, <2>5 DEF ConfirmStep, ReviewInv, ConfirmedInReview
<1> QED
  BY <1>1, ReviewInvariant, PTL DEF ReviewSpec, RecoveryConfirmedTwice

----------------------------------------------------------------------------
(* Durable runs.                                                           *)

\* The names of states and stages are names of states and stages.
LEMMA Names ==
  /\ {"absent", "QUEUED", "RUNNING", "SUCCEEDED", "FAILED", "UNAVAILABLE"} \subseteq Status
  /\ {"none", "RUNNING", "SUCCEEDED", "FAILED", "UNAVAILABLE"} \subseteq StageStatus
  /\ {"idle", "verify", "load", "claim", "refuse", "compute", "succeed", "fail"} \subseteq Pc
BY DEF Status, StageStatus, Pc

\* The stage rows stay stage rows.
LEMMA StageUpdates ==
  ASSUME stages \in [Run -> [Stage -> StageStatus]], NEW r \in Run,
         NEW new, \A s \in Stage : s \in DOMAIN new => new[s] \in StageStatus, SetStages(r, new)
  PROVE  stages' \in [Run -> [Stage -> StageStatus]]
BY DEF SetStages

\* The fields of well-typed state.
LEMMA Fields ==
  ASSUME RunsTypeOK
  PROVE  /\ \A r \in Run : /\ runs[r] \in RunRow
                           /\ runs[r].status \in Status
         /\ \A q \in Request : /\ job[q] \in Job
                               /\ job[q].run \in Run
                               /\ job[q].pc \in Pc
                               /\ job[q].data \in Version \cup {NoVersion}
         /\ inputs.version \in Version
BY DEF RunsTypeOK, RunRow, Job

\* Every step keeps the types.
LEMMA TypeStep == RunsTypeOK /\ [RunsNext]_runsVars => RunsTypeOK'
<1> SUFFICES ASSUME RunsTypeOK, [RunsNext]_runsVars PROVE RunsTypeOK'
  OBVIOUS
<1> USE Fields, Names
<1>0. Idle \in Job
  BY RunAssumption DEF Idle, Job
<1>a. ASSUME NEW q \in Request, NEW pc \in Pc, Goto(q, pc) PROVE job' \in [Request -> Job]
  <2>1. [job[q] EXCEPT !.pc = pc] \in Job
    BY DEF Job
  <2> QED BY <1>a, <2>1 DEF Goto, RunsTypeOK
<1>b. ASSUME NEW q \in Request, End(q) PROVE job' \in [Request -> Job]
  BY <1>0, <1>b DEF End, RunsTypeOK
<1>1. CASE ChangeInputs
  BY <1>1 DEF ChangeInputs, RunsTypeOK
<1>2. ASSUME NEW r \in Run, CreateRun(r) PROVE RunsTypeOK'
  <2>1. [runs[r] EXCEPT !.status = "QUEUED", !.bound = inputs.version] \in RunRow
    BY DEF RunRow
  <2> QED BY <1>2, <2>1 DEF CreateRun, RunsTypeOK
<1>3. ASSUME NEW q \in Request, NEW r \in Run, SelectRun(q, r) PROVE RunsTypeOK'
  <2>1. RowsOf(r) \in SUBSET Stage
    BY DEF RowsOf
  <2>2. [job[q] EXCEPT !.pc = "verify", !.run = r, !.loaded = runs[r].status,
                       !.rows = RowsOf(r)] \in Job
    BY <2>1 DEF Job
  <2> QED BY <1>3, <2>2 DEF SelectRun, RunsTypeOK
<1>4. ASSUME NEW q \in Request, Verify(q) \/ Compute(q) PROVE RunsTypeOK'
  BY <1>4, <1>a DEF Verify, Compute, RunsTypeOK
<1>5. ASSUME NEW q \in Request, Load(q) PROVE RunsTypeOK'
  <2>1. \A pc \in Pc : [job[q] EXCEPT !.pc = pc, !.data = inputs.version] \in Job
    BY DEF Job
  <2>2. PICK pc \in Pc : job' = [job EXCEPT ![q] = [@ EXCEPT !.pc = pc, !.data = inputs.version]]
    BY <1>5 DEF Load
  <2>3. job' \in [Request -> Job]
    BY <2>1, <2>2 DEF RunsTypeOK
  <2> QED BY <1>5, <2>3 DEF Load, RunsTypeOK
<1>6. ASSUME NEW q \in Request, Refuse(q) \/ Claim(q) PROVE RunsTypeOK'
  <2>1. job' \in [Request -> Job] /\ inputs' = inputs /\ fault' = fault
    BY <1>a, <1>b, <1>6 DEF Refuse, Claim, Rollback
  <2>2. \A status \in {"UNAVAILABLE", "RUNNING"} : Written(q, status) \in Status
    BY DEF Written
  <2>3. \A status \in Status : [runs[job[q].run] EXCEPT !.status = status] \in RunRow
    BY DEF RunRow
  <2>4. runs' \in [Run -> RunRow]
    <3>1. \/ runs' = runs
          \/ \E status \in {"UNAVAILABLE", "RUNNING"} :
               runs' = [runs EXCEPT ![job[q].run] = [@ EXCEPT !.status = Written(q, status)]]
      BY <1>6 DEF Refuse, Claim, Rollback
    <3>2. ASSUME NEW status \in {"UNAVAILABLE", "RUNNING"}
          PROVE  [runs[job[q].run] EXCEPT !.status = Written(q, status)] \in RunRow
      BY <2>2, <2>3
    <3>3. runs \in [Run -> RunRow]
      BY DEF RunsTypeOK
    <3> QED BY <3>1, <3>2, <3>3
  <2>5. stages' \in [Run -> [Stage -> StageStatus]]
    BY <1>6, StageUpdates DEF Refuse, Claim, Rollback, RunsTypeOK
  <2> QED BY <2>1, <2>4, <2>5 DEF RunsTypeOK
<1>7. ASSUME NEW q \in Request, Fail(q) PROVE RunsTypeOK'
  <2>1. PICK outcome \in {"UNAVAILABLE", "FAILED"} :
          /\ runs' = [runs EXCEPT ![job[q].run] = [@ EXCEPT !.status = outcome, !.usable = FALSE]]
          /\ StoreFailure(q, outcome)
    BY <1>7 DEF Fail
  <2>2. [runs[job[q].run] EXCEPT !.status = outcome, !.usable = FALSE] \in RunRow
    BY DEF RunRow
  <2>3. stages' \in [Run -> [Stage -> StageStatus]]
    BY <2>1, StageUpdates DEF StoreFailure, RunsTypeOK
  <2>4. job' \in [Request -> Job] /\ inputs' = inputs /\ fault' = fault
    BY <1>b, <1>7 DEF Fail
  <2> QED BY <2>1, <2>2, <2>3, <2>4 DEF RunsTypeOK
<1>8. ASSUME NEW q \in Request, Succeed(q) PROVE RunsTypeOK'
  <2>1. \A u \in BOOLEAN : [runs[job[q].run] EXCEPT !.status = "SUCCEEDED", !.usable = u,
                                                  !.result = job[q].data] \in RunRow
    BY DEF RunRow
  <2>2. runs' \in [Run -> RunRow]
    BY <1>8, <2>1 DEF Succeed, RunsTypeOK
  <2>3. stages' \in [Run -> [Stage -> StageStatus]]
    <3>1. CASE SetStages(job[q].run, [replay |-> "SUCCEEDED", metrics |-> "SUCCEEDED"])
      <4> DEFINE new == [replay |-> "SUCCEEDED", metrics |-> "SUCCEEDED"]
      <4>1. \A s \in Stage : s \in DOMAIN new => new[s] \in StageStatus
        BY DEF StageStatus
      <4>2. stages \in [Run -> [Stage -> StageStatus]] /\ job[q].run \in Run
        BY DEF RunsTypeOK
      <4>3. SetStages(job[q].run, new)
        BY <3>1
      <4> HIDE DEF new
      <4> QED BY <4>1, <4>2, <4>3, StageUpdates
    <3>2. CASE UNCHANGED stages
      BY <3>2 DEF RunsTypeOK
    <3> QED BY <1>8, <3>1, <3>2 DEF Succeed
  <2>4. job' \in [Request -> Job] /\ inputs' = inputs /\ fault' = fault
    BY <1>b, <1>8 DEF Succeed
  <2> QED BY <2>2, <2>3, <2>4 DEF RunsTypeOK
<1>9. ASSUME NEW q \in Request, Crash(q) \/ Incomplete(q) PROVE RunsTypeOK'
  BY <1>b, <1>9 DEF Crash, Incomplete, RunsTypeOK
<1>10. CASE UNCHANGED runsVars
  BY <1>10 DEF runsVars, RunsTypeOK
<1> QED
  BY <1>1, <1>2, <1>3, <1>4, <1>5, <1>6, <1>7, <1>8, <1>9, <1>10 DEF RunsNext, ExecuteStep

\* No run, no stage and no request is well typed.
LEMMA InitType == RunsInit => RunsTypeOK
<1> SUFFICES ASSUME RunsInit PROVE RunsTypeOK
  OBVIOUS
<1>1. Idle \in Job
  BY RunAssumption, Names DEF Idle, Job
<1>2. [status |-> "absent", bound |-> NoVersion, usable |-> FALSE, result |-> NoVersion] \in RunRow
  BY Names DEF RunRow
<1> QED BY <1>1, <1>2, Names DEF RunsInit, RunsTypeOK

\* The variables keep their types.
THEOREM RunsTypeCorrect == RunsSpec => []RunsTypeOK
BY InitType, TypeStep, PTL DEF RunsSpec

----------------------------------------------------------------------------
(* What each kind of update does to the fields.                            *)

\* A request that moves on, or ends.
LEMMA JobEffects ==
  ASSUME RunsTypeOK, NEW q \in Request
  PROVE  /\ \A pc : Goto(q, pc) =>
              \A p \in Request :
                /\ job'[p].pc = IF p = q THEN pc ELSE job[p].pc
                /\ job'[p].run = job[p].run
                /\ job'[p].loaded = job[p].loaded
                /\ job'[p].data = job[p].data
         /\ End(q) =>
              /\ job'[q].pc = "idle"
              /\ \A p \in Request \ {q} : job'[p] = job[p]
<1>1. ASSUME NEW pc, Goto(q, pc), NEW p \in Request
      PROVE  /\ job'[p].pc = IF p = q THEN pc ELSE job[p].pc
             /\ job'[p].run = job[p].run
             /\ job'[p].loaded = job[p].loaded
             /\ job'[p].data = job[p].data
  BY <1>1, Fields DEF Goto, RunsTypeOK, Job
<1>2. ASSUME End(q)
      PROVE  /\ job'[q].pc = "idle"
             /\ \A p \in Request \ {q} : job'[p] = job[p]
  BY <1>2 DEF End, Idle, RunsTypeOK
<1> QED BY <1>1, <1>2

\* A refusal or a claim changes at most the status of the run, a failure
\* changes no result either.
LEMMA StatusWrites ==
  ASSUME RunsTypeOK, NEW q \in Request, Refuse(q) \/ Claim(q) \/ Fail(q)
  PROVE  /\ \A r \in Run : /\ runs'[r].bound = runs[r].bound
                           /\ runs'[r].result = runs[r].result
                           /\ r # job[q].run => runs'[r] = runs[r]
         /\ inputs' = inputs
         /\ runs[job[q].run].status # "absent" => runs'[job[q].run].status # "absent"
<1> DEFINE row == runs[job[q].run]
<1>1. row \in RunRow /\ job[q].run \in Run
  BY Fields
<1>2. ASSUME NEW new, new.bound = row.bound, new.result = row.result,
             row.status # "absent" => new.status # "absent",
             runs' = [runs EXCEPT ![job[q].run] = new]
      PROVE  /\ \A r \in Run : /\ runs'[r].bound = runs[r].bound
                               /\ runs'[r].result = runs[r].result
                               /\ r # job[q].run => runs'[r] = runs[r]
             /\ row.status # "absent" => runs'[job[q].run].status # "absent"
  BY <1>1, <1>2 DEF RunsTypeOK
<1>3. inputs' = inputs
  BY DEF Refuse, Claim, Fail, Rollback
<1>4. CASE runs' = runs
  BY <1>3, <1>4
<1>5. ASSUME NEW status, Written(q, status) # "absent" \/ Written(q, status) = row.status,
             runs' = [runs EXCEPT ![job[q].run] = [@ EXCEPT !.status = Written(q, status)]]
      PROVE  /\ \A r \in Run : /\ runs'[r].bound = runs[r].bound
                               /\ runs'[r].result = runs[r].result
                               /\ r # job[q].run => runs'[r] = runs[r]
             /\ row.status # "absent" => runs'[job[q].run].status # "absent"
  <2> DEFINE new == [row EXCEPT !.status = Written(q, status)]
  <2>1. new.bound = row.bound /\ new.result = row.result /\ new.status = Written(q, status)
    BY <1>1 DEF RunRow
  <2>2. runs' = [runs EXCEPT ![job[q].run] = new]
    BY <1>5
  <2> HIDE DEF new
  <2> QED BY <1>2, <1>5, <2>1, <2>2
<1>6. CASE Refuse(q) /\ runs' # runs
  <2>1. runs' = [runs EXCEPT ![job[q].run] = [@ EXCEPT !.status = Written(q, "UNAVAILABLE")]]
    BY <1>6 DEF Refuse, Rollback
  <2>2. Written(q, "UNAVAILABLE") # "absent" \/ Written(q, "UNAVAILABLE") = row.status
    BY DEF Written
  <2> QED BY <1>3, <1>5, <2>1, <2>2
<1>7. CASE Claim(q) /\ runs' # runs
  <2>1. runs' = [runs EXCEPT ![job[q].run] = [@ EXCEPT !.status = Written(q, "RUNNING")]]
    BY <1>7 DEF Claim, Rollback
  <2>2. Written(q, "RUNNING") # "absent" \/ Written(q, "RUNNING") = row.status
    BY DEF Written
  <2> QED BY <1>3, <1>5, <2>1, <2>2
<1>8. CASE Fail(q)
  <2>1. PICK outcome \in {"UNAVAILABLE", "FAILED"} :
          runs' = [runs EXCEPT ![job[q].run] = [@ EXCEPT !.status = outcome, !.usable = FALSE]]
    BY <1>8 DEF Fail
  <2> DEFINE new == [row EXCEPT !.status = outcome, !.usable = FALSE]
  <2>2. new.bound = row.bound /\ new.result = row.result /\ new.status # "absent"
    BY <1>1 DEF RunRow
  <2>3. runs' = [runs EXCEPT ![job[q].run] = new]
    BY <2>1
  <2> HIDE DEF new
  <2> QED BY <1>2, <1>3, <2>2, <2>3
<1> QED BY <1>4, <1>6, <1>7, <1>8

\* A result is stored from what the request has read.
LEMMA ResultWrites ==
  ASSUME RunsTypeOK, NEW q \in Request, Succeed(q)
  PROVE  /\ \A r \in Run : r # job[q].run => runs'[r] = runs[r]
         /\ runs'[job[q].run].bound = runs[job[q].run].bound
         /\ ResultStored(job[q].run) => runs' = runs
         /\ ~ResultStored(job[q].run) =>
              /\ runs'[job[q].run].status = "SUCCEEDED"
              /\ runs'[job[q].run].result = job[q].data
         /\ inputs' = inputs
<1>1. job[q].run \in Run /\ runs[job[q].run] \in RunRow
  BY Fields
<1>2. inputs' = inputs /\ (ResultStored(job[q].run) => runs' = runs)
  BY DEF Succeed
<1>3. CASE ResultStored(job[q].run)
  BY <1>2, <1>3
<1>4. CASE ~ResultStored(job[q].run)
  <2>1. PICK u \in BOOLEAN : runs' = [runs EXCEPT ![job[q].run] =
               [@ EXCEPT !.status = "SUCCEEDED", !.usable = u, !.result = job[q].data]]
    BY <1>4 DEF Succeed
  <2> QED BY <1>1, <1>2, <1>4, <2>1 DEF RunsTypeOK, RunRow
<1> QED BY <1>3, <1>4

\* A new run is bound to the inputs and holds no result.
LEMMA Creates ==
  ASSUME RunsTypeOK, NEW r \in Run, CreateRun(r)
  PROVE  /\ runs[r].status = "absent"
         /\ runs'[r].status = "QUEUED" /\ runs'[r].result = runs[r].result
         /\ \A t \in Run \ {r} : runs'[t] = runs[t]
         /\ job' = job /\ inputs' = inputs
<1>1. runs[r] \in RunRow
  BY Fields
<1> QED BY <1>1 DEF CreateRun, RunsTypeOK, RunRow

\* A request that selects a run.
LEMMA Selects ==
  ASSUME RunsTypeOK, NEW q \in Request, NEW r \in Run, SelectRun(q, r)
  PROVE  /\ job'[q].pc = "verify" /\ job'[q].run = r /\ job'[q].loaded = runs[r].status
         /\ \A p \in Request \ {q} : job'[p] = job[p]
         /\ runs' = runs /\ inputs' = inputs
<1>1. job[q] \in Job
  BY Fields
<1> QED BY <1>1 DEF SelectRun, RunsTypeOK, Job

\* A request that reads the data.
LEMMA Loads ==
  ASSUME RunsTypeOK, NEW q \in Request, Load(q)
  PROVE  /\ job'[q].pc \in {"claim", "refuse"} /\ job'[q].run = job[q].run
         /\ job'[q].loaded = job[q].loaded /\ job'[q].data = inputs.version
         /\ \A p \in Request \ {q} : job'[p] = job[p]
         /\ runs' = runs /\ inputs' = inputs
<1>1. job[q] \in Job
  BY Fields
<1>2. PICK pc \in {"claim", "refuse"} :
        job' = [job EXCEPT ![q] = [@ EXCEPT !.pc = pc, !.data = inputs.version]]
  BY DEF Load
<1> QED BY <1>1, <1>2 DEF Load, RunsTypeOK, Job

----------------------------------------------------------------------------
(* Results reproduce.                                                      *)

\* What a request has read is what its run is bound to: verification has
\* just shown it when the data are loaded, and no import comes in between.
ReadsAreBound ==
  \A q \in Request :
    /\ InFlight(q) => runs[job[q].run].status # "absent"
    /\ job[q].pc = "load" => inputs.version = runs[job[q].run].bound
    /\ job[q].pc \in {"claim", "compute", "succeed"} => job[q].data = runs[job[q].run].bound

\* A run that was never created holds no result.
AbsentIsEmpty == \A r \in Run : runs[r].status = "absent" => ~ResultStored(r)

ResultsAreBound == \A r \in Run : ResultStored(r) => runs[r].result = runs[r].bound

BoundInv ==
  /\ RunsTypeOK
  /\ "import" \notin fault
  /\ ReadsAreBound
  /\ AbsentIsEmpty
  /\ ResultsAreBound

\* The environment does not change during a behaviour.
LEMMA FaultFixed ==
  ASSUME [RunsNext]_runsVars
  PROVE  fault' = fault
BY DEF RunsNext, runsVars, ExecuteStep, ChangeInputs, CreateRun, SelectRun, Verify, Load,
   Refuse, Incomplete, Claim, Rollback, Compute, Fail, Succeed, Crash

\* Without imports in the middle of an execution a stored result was
\* computed from the inputs its run is bound to (the hash comparison of
\* research.py:1847 is enough), whatever requests overlap or crash.
THEOREM ResultsReproduce == RunsSpec => []ResultIsOfBoundInputs
<1> DEFINE Kept == "import" \notin fault => BoundInv
<1>1. RunsInit => Kept
  <2> SUFFICES ASSUME RunsInit, "import" \notin fault PROVE BoundInv
    OBVIOUS
  <2>1. RunsTypeOK
    BY InitType
  <2> QED BY <2>1 DEF RunsInit, BoundInv, Idle, ReadsAreBound, AbsentIsEmpty,
            ResultsAreBound, ResultStored, InFlight
<1>2. BoundInv /\ [RunsNext]_runsVars => BoundInv'
  <2> SUFFICES ASSUME BoundInv, [RunsNext]_runsVars
               PROVE  ReadsAreBound' /\ AbsentIsEmpty' /\ ResultsAreBound'
    BY TypeStep, FaultFixed DEF BoundInv
  <2> USE DEF BoundInv
  <2>f. \A q \in Request : job[q].run \in Run
    BY Fields
  <2>1. CASE ChangeInputs
    BY <2>1 DEF ChangeInputs, ReadsAreBound, AbsentIsEmpty, ResultsAreBound,
       ResultStored, InFlight
  <2>2. ASSUME NEW r \in Run, CreateRun(r)
        PROVE  ReadsAreBound' /\ AbsentIsEmpty' /\ ResultsAreBound'
    <3>1. \A q \in Request : InFlight(q) => job[q].run # r
      BY <2>2, Creates DEF ReadsAreBound
    <3>2. ReadsAreBound'
      BY <2>2, <2>f, <3>1, Creates DEF ReadsAreBound, InFlight
    <3>3. AbsentIsEmpty' /\ ResultsAreBound'
      BY <2>2, Creates DEF AbsentIsEmpty, ResultsAreBound, ResultStored
    <3> QED BY <3>2, <3>3
  <2>3. ASSUME NEW q \in Request, NEW r \in Run, SelectRun(q, r)
        PROVE  ReadsAreBound' /\ AbsentIsEmpty' /\ ResultsAreBound'
    <3>1. runs[r].status # "absent"
      BY <2>3 DEF SelectRun, Executable
    <3> QED BY <2>3, <3>1, Selects DEF ReadsAreBound, AbsentIsEmpty, ResultsAreBound,
            ResultStored, InFlight
  <2>4. ASSUME NEW q \in Request, Verify(q)
        PROVE  ReadsAreBound' /\ AbsentIsEmpty' /\ ResultsAreBound'
    <3>1. PICK pc \in {"load", "refuse"} : Goto(q, pc) /\ (pc = "load" => StillBound(job[q].run))
      BY <2>4 DEF Verify
    <3>2. runs' = runs /\ inputs' = inputs /\ job[q].pc = "verify"
      BY <2>4 DEF Verify
    <3> QED BY <3>1, <3>2, JobEffects DEF StillBound, ReadsAreBound, AbsentIsEmpty,
            ResultsAreBound, ResultStored, InFlight
  <2>5. ASSUME NEW q \in Request, Load(q)
        PROVE  ReadsAreBound' /\ AbsentIsEmpty' /\ ResultsAreBound'
    <3>1. job[q].pc = "load"
      BY <2>5 DEF Load
    <3> QED BY <2>5, <3>1, Loads DEF ReadsAreBound, AbsentIsEmpty, ResultsAreBound,
            ResultStored, InFlight
  <2>6. ASSUME NEW q \in Request, Compute(q)
        PROVE  ReadsAreBound' /\ AbsentIsEmpty' /\ ResultsAreBound'
    <3>1. PICK pc \in {"succeed", "fail"} : Goto(q, pc)
      BY <2>6 DEF Compute
    <3>2. runs' = runs /\ inputs' = inputs /\ job[q].pc = "compute"
      BY <2>6 DEF Compute
    <3> QED BY <3>1, <3>2, JobEffects DEF ReadsAreBound, AbsentIsEmpty,
            ResultsAreBound, ResultStored, InFlight
  <2>7. ASSUME NEW q \in Request, Refuse(q) \/ Claim(q) \/ Fail(q)
        PROVE  ReadsAreBound' /\ AbsentIsEmpty' /\ ResultsAreBound'
    <3>1. job[q].pc \in {"refuse", "claim", "fail"}
      BY <2>7 DEF Refuse, Claim, Fail
    <3>2. End(q) \/ (job[q].pc = "claim" /\ Goto(q, "compute"))
      BY <2>7 DEF Refuse, Claim, Fail, Rollback
    <3>3. runs[job[q].run].status # "absent"
      BY <3>1 DEF ReadsAreBound, InFlight
    <3>4. ResultsAreBound' /\ AbsentIsEmpty'
      BY <2>7, <2>f, <3>3, StatusWrites DEF AbsentIsEmpty, ResultsAreBound, ResultStored
    <3>5. \A r \in Run : /\ runs[r].status # "absent" => runs'[r].status # "absent"
                         /\ runs'[r].bound = runs[r].bound
      BY <2>7, <2>f, <3>3, StatusWrites
    <3>6. inputs' = inputs
      BY <2>7, StatusWrites
    <3>7. ReadsAreBound'
      <4>1. CASE End(q)
        BY <2>f, <3>5, <3>6, <4>1, JobEffects DEF ReadsAreBound, InFlight
      <4>2. CASE job[q].pc = "claim" /\ Goto(q, "compute")
        BY <2>f, <3>5, <3>6, <4>2, JobEffects DEF ReadsAreBound, InFlight
      <4> QED BY <3>2, <4>1, <4>2
    <3> QED BY <3>4, <3>7
  <2>8. ASSUME NEW q \in Request, Succeed(q)
        PROVE  ReadsAreBound' /\ AbsentIsEmpty' /\ ResultsAreBound'
    <3>1. End(q) /\ job[q].pc = "succeed"
      BY <2>8 DEF Succeed
    <3>2. /\ runs[job[q].run].status # "absent"
          /\ job[q].data = runs[job[q].run].bound
      BY <3>1 DEF ReadsAreBound, InFlight
    <3>3. \A r \in Run : /\ runs[r].status # "absent" => runs'[r].status # "absent"
                         /\ runs'[r].bound = runs[r].bound
                         /\ runs'[r].result \in {runs[r].result, runs[r].bound}
      BY <2>8, <2>f, <3>2, ResultWrites
    <3>4. \A r \in Run : r # job[q].run => runs'[r] = runs[r]
      BY <2>8, ResultWrites
    <3>5. ReadsAreBound'
      BY <2>8, <2>f, <3>1, <3>3, JobEffects, ResultWrites DEF ReadsAreBound, InFlight
    <3>6. AbsentIsEmpty' /\ ResultsAreBound'
      BY <2>f, <3>2, <3>3, <3>4 DEF AbsentIsEmpty, ResultsAreBound, ResultStored
    <3> QED BY <3>5, <3>6
  <2>9. ASSUME NEW q \in Request, Crash(q) \/ Incomplete(q)
        PROVE  ReadsAreBound' /\ AbsentIsEmpty' /\ ResultsAreBound'
    <3>1. End(q) /\ runs' = runs /\ inputs' = inputs
      BY <2>9 DEF Crash, Incomplete
    <3> QED BY <3>1, JobEffects DEF ReadsAreBound, AbsentIsEmpty, ResultsAreBound,
            ResultStored, InFlight
  <2>10. CASE UNCHANGED runsVars
    BY <2>10 DEF runsVars, ReadsAreBound, AbsentIsEmpty, ResultsAreBound, ResultStored, InFlight
  <2> QED
    BY <2>1, <2>2, <2>3, <2>4, <2>5, <2>6, <2>7, <2>8, <2>9, <2>10 DEF RunsNext, ExecuteStep
<1>3. Kept /\ [RunsNext]_runsVars => Kept'
  BY <1>2, FaultFixed
<1>4. Kept => ResultIsOfBoundInputs
  BY DEF BoundInv, ResultsAreBound, ResultIsOfBoundInputs
<1> QED
  BY <1>1, <1>3, <1>4, PTL DEF RunsSpec

----------------------------------------------------------------------------
(* Status and result agree.                                                *)

\* No two requests execute one run.
Alone ==
  \A p, q \in Request :
    InFlight(p) /\ InFlight(q) /\ job[p].run = job[q].run => p = q

\* The status a request has loaded is still the run's until the request
\* claims it, and RUNNING from then on.
StatusIsKnown ==
  \A q \in Request :
    /\ job[q].pc \in {"verify", "load", "claim", "refuse"} =>
         /\ runs[job[q].run].status = job[q].loaded
         /\ job[q].loaded \in {"QUEUED", "FAILED", "UNAVAILABLE"}
    /\ job[q].pc \in {"compute", "succeed", "fail"} => runs[job[q].run].status = "RUNNING"
    /\ job[q].pc \in {"claim", "compute", "succeed"} => job[q].data \in Version

StatusOfResult == \A r \in Run : runs[r].status = "SUCCEEDED" <=> ResultStored(r)

SerialInv ==
  /\ RunsTypeOK
  /\ "overlap" \notin fault
  /\ Alone
  /\ StatusIsKnown
  /\ StatusOfResult

\* The claim and the failure of a request that is alone with its run.
LEMMA StatusAfter ==
  ASSUME RunsTypeOK, StatusIsKnown, NEW q \in Request
  PROVE  /\ Claim(q) /\ Goto(q, "compute") => runs'[job[q].run].status = "RUNNING"
         /\ Refuse(q) \/ Fail(q) \/ (Claim(q) /\ End(q)) =>
              runs'[job[q].run].status \notin {"SUCCEEDED"}
<1> DEFINE row == runs[job[q].run]
<1>1. row \in RunRow /\ job[q].run \in Run
  BY Fields
<1>2. ASSUME NEW s, NEW u
      PROVE  /\ [row EXCEPT !.status = s].status = s
             /\ [row EXCEPT !.status = s, !.usable = u].status = s
  BY <1>1 DEF RunRow
<1>3. ASSUME NEW new, runs' = [runs EXCEPT ![job[q].run] = new]
      PROVE  runs'[job[q].run] = new
  BY <1>1, <1>3 DEF RunsTypeOK
<1>4. Claim(q) \/ Refuse(q) => /\ row.status = job[q].loaded
                              /\ row.status \in {"QUEUED", "FAILED", "UNAVAILABLE"}
  BY DEF Claim, Refuse, StatusIsKnown
<1>5. Claim(q) /\ Goto(q, "compute") => runs'[job[q].run].status = "RUNNING"
  <2> SUFFICES ASSUME Claim(q), Goto(q, "compute") PROVE runs'[job[q].run].status = "RUNNING"
    OBVIOUS
  <2>1. ~End(q)
    BY JobEffects
  <2>2. runs' = [runs EXCEPT ![job[q].run] = [@ EXCEPT !.status = Written(q, "RUNNING")]]
    BY <2>1 DEF Claim, Rollback
  <2>3. Written(q, "RUNNING") = "RUNNING"
    BY <1>4 DEF Written
  <2> QED BY <1>2, <1>3, <2>2, <2>3
<1>6. Refuse(q) => runs'[job[q].run].status \notin {"SUCCEEDED"}
  <2> SUFFICES ASSUME Refuse(q) PROVE runs'[job[q].run].status # "SUCCEEDED"
    OBVIOUS
  <2>1. CASE runs' = runs
    BY <1>4, <2>1
  <2>2. CASE runs' # runs
    <3>1. runs' = [runs EXCEPT ![job[q].run] = [@ EXCEPT !.status = Written(q, "UNAVAILABLE")]]
      BY <2>2 DEF Refuse, Rollback
    <3>2. Written(q, "UNAVAILABLE") # "SUCCEEDED"
      BY <1>4 DEF Written
    <3> QED BY <1>2, <1>3, <3>1, <3>2
  <2> QED BY <2>1, <2>2
<1>7. Fail(q) => runs'[job[q].run].status \notin {"SUCCEEDED"}
  <2> SUFFICES ASSUME Fail(q) PROVE runs'[job[q].run].status # "SUCCEEDED"
    OBVIOUS
  <2>1. PICK outcome \in {"UNAVAILABLE", "FAILED"} :
          runs' = [runs EXCEPT ![job[q].run] = [@ EXCEPT !.status = outcome, !.usable = FALSE]]
    BY DEF Fail
  <2>2. runs'[job[q].run] = [row EXCEPT !.status = outcome, !.usable = FALSE]
    BY <1>3, <2>1
  <2>3. runs'[job[q].run].status = outcome
    BY <1>2, <2>2
  <2> QED BY <2>3
<1>8. Claim(q) /\ End(q) => runs'[job[q].run].status \notin {"SUCCEEDED"}
  <2> SUFFICES ASSUME Claim(q), End(q) PROVE runs'[job[q].run].status # "SUCCEEDED"
    OBVIOUS
  <2>1. ~Goto(q, "compute")
    BY JobEffects
  <2>2. runs' = runs
    BY <2>1 DEF Claim, Rollback
  <2> QED BY <1>4, <2>2
<1> QED BY <1>5, <1>6, <1>7, <1>8

\* As long as no two requests execute one run at a time, a request knows the
\* status of its run, and a status SUCCEEDED has its result.
THEOREM RunsAreSerial == RunsSpec => []("overlap" \notin fault => SerialInv)
<1> DEFINE Kept == "overlap" \notin fault => SerialInv
<1>1. RunsInit => Kept
  <2> SUFFICES ASSUME RunsInit, "overlap" \notin fault PROVE SerialInv
    OBVIOUS
  <2>1. RunsTypeOK
    BY InitType
  <2> QED BY <2>1 DEF RunsInit, SerialInv, Idle, Alone, StatusIsKnown, StatusOfResult,
            ResultStored, InFlight
<1>2. SerialInv /\ [RunsNext]_runsVars => SerialInv'
  <2> SUFFICES ASSUME SerialInv, [RunsNext]_runsVars
               PROVE  Alone' /\ StatusIsKnown' /\ StatusOfResult'
    BY TypeStep, FaultFixed DEF SerialInv
  <2> USE DEF SerialInv
  <2>f. /\ \A q \in Request : job[q].run \in Run /\ job[q].pc \in Pc
        /\ inputs.version \in Version
    BY Fields
  <2>1. CASE ChangeInputs
    BY <2>1 DEF ChangeInputs, Alone, StatusIsKnown, StatusOfResult, ResultStored, InFlight
  <2>2. ASSUME NEW r \in Run, CreateRun(r)
        PROVE  Alone' /\ StatusIsKnown' /\ StatusOfResult'
    <3>1. \A q \in Request : InFlight(q) => job[q].run # r
      BY <2>2, <2>f, Creates DEF StatusIsKnown, InFlight, Pc
    <3>2. StatusIsKnown'
      BY <2>2, <2>f, <3>1, Creates DEF StatusIsKnown, InFlight
    <3>3. Alone'
      BY <2>2, Creates DEF Alone, InFlight
    <3>4. StatusOfResult'
      BY <2>2, Creates DEF StatusOfResult, ResultStored
    <3> QED BY <3>2, <3>3, <3>4
  <2>3. ASSUME NEW q \in Request, NEW r \in Run, SelectRun(q, r)
        PROVE  Alone' /\ StatusIsKnown' /\ StatusOfResult'
    <3>1. /\ runs[r].status \in {"QUEUED", "FAILED", "UNAVAILABLE"}
          /\ \A p \in Request : InFlight(p) => job[p].run # r
      BY <2>3 DEF SelectRun, Executable
    <3>2. Alone'
      BY <2>3, <3>1, Selects DEF Alone, InFlight
    <3>3. StatusIsKnown'
      BY <2>3, <3>1, Selects DEF StatusIsKnown
    <3>4. StatusOfResult'
      BY <2>3, Selects DEF StatusOfResult, ResultStored
    <3> QED BY <3>2, <3>3, <3>4
  <2>4. ASSUME NEW q \in Request, Verify(q)
        PROVE  Alone' /\ StatusIsKnown' /\ StatusOfResult'
    <3>1. PICK pc \in {"load", "refuse"} : Goto(q, pc)
      BY <2>4 DEF Verify
    <3>2. runs' = runs /\ job[q].pc = "verify"
      BY <2>4 DEF Verify
    <3> QED BY <3>1, <3>2, JobEffects DEF Alone, StatusIsKnown, StatusOfResult,
            ResultStored, InFlight
  <2>5. ASSUME NEW q \in Request, Load(q)
        PROVE  Alone' /\ StatusIsKnown' /\ StatusOfResult'
    <3>1. job[q].pc = "load"
      BY <2>5 DEF Load
    <3>2. Alone'
      BY <2>5, <3>1, Loads DEF Alone, InFlight
    <3>3. StatusIsKnown'
      BY <2>5, <2>f, <3>1, Loads DEF StatusIsKnown
    <3>4. StatusOfResult'
      BY <2>5, Loads DEF StatusOfResult, ResultStored
    <3> QED BY <3>2, <3>3, <3>4
  <2>6. ASSUME NEW q \in Request, Compute(q)
        PROVE  Alone' /\ StatusIsKnown' /\ StatusOfResult'
    <3>1. PICK pc \in {"succeed", "fail"} : Goto(q, pc)
      BY <2>6 DEF Compute
    <3>2. runs' = runs /\ job[q].pc = "compute"
      BY <2>6 DEF Compute
    <3> QED BY <3>1, <3>2, JobEffects DEF Alone, StatusIsKnown, StatusOfResult,
            ResultStored, InFlight
  <2>7. ASSUME NEW q \in Request, Refuse(q) \/ Claim(q) \/ Fail(q)
        PROVE  Alone' /\ StatusIsKnown' /\ StatusOfResult'
    <3>1. job[q].pc \in {"refuse", "claim", "fail"}
      BY <2>7 DEF Refuse, Claim, Fail
    <3>2. \/ End(q) /\ runs'[job[q].run].status # "SUCCEEDED"
          \/ /\ job[q].pc = "claim" /\ Goto(q, "compute")
             /\ runs'[job[q].run].status = "RUNNING"
      BY <2>7, StatusAfter DEF Refuse, Claim, Fail, Rollback
    <3>3. runs[job[q].run].status # "SUCCEEDED"
      BY <3>1 DEF StatusIsKnown
    <3>4. StatusOfResult'
      BY <2>7, <2>f, <3>2, <3>3, StatusWrites DEF StatusOfResult, ResultStored
    <3>5. \A p \in Request \ {q} : InFlight(p) => runs'[job[p].run] = runs[job[p].run]
      BY <2>7, <2>f, <3>1, StatusWrites DEF Alone, InFlight
    <3>6. CASE End(q)
      <4>1. Alone'
        BY <3>6, JobEffects DEF Alone, InFlight
      <4>2. StatusIsKnown'
        BY <2>f, <3>5, <3>6, JobEffects DEF StatusIsKnown, InFlight
      <4> QED BY <3>4, <4>1, <4>2
    <3>7. CASE /\ job[q].pc = "claim" /\ Goto(q, "compute")
               /\ runs'[job[q].run].status = "RUNNING"
      <4>1. Alone'
        BY <3>7, JobEffects DEF Alone, InFlight
      <4>2. StatusIsKnown'
        BY <2>f, <3>5, <3>7, JobEffects DEF StatusIsKnown, InFlight
      <4> QED BY <3>4, <4>1, <4>2
    <3> QED BY <3>2, <3>6, <3>7
  <2>8. ASSUME NEW q \in Request, Succeed(q)
        PROVE  Alone' /\ StatusIsKnown' /\ StatusOfResult'
    <3>1. End(q) /\ job[q].pc = "succeed"
      BY <2>8 DEF Succeed
    <3>2. /\ runs[job[q].run].status = "RUNNING"
          /\ job[q].data \in Version
      BY <3>1 DEF StatusIsKnown
    <3>3. ~ResultStored(job[q].run)
      BY <2>f, <3>2 DEF StatusOfResult
    <3>4. StatusOfResult'
      BY <2>8, <2>f, <3>2, <3>3, ResultWrites, VersionAssumption
         DEF StatusOfResult, ResultStored
    <3>5. \A p \in Request \ {q} : InFlight(p) => runs'[job[p].run] = runs[job[p].run]
      BY <2>8, <2>f, <3>1, ResultWrites DEF Alone, InFlight
    <3>6. Alone'
      BY <3>1, JobEffects DEF Alone, InFlight
    <3>7. StatusIsKnown'
      BY <2>f, <3>1, <3>5, JobEffects DEF StatusIsKnown, InFlight
    <3> QED BY <3>4, <3>6, <3>7
  <2>9. ASSUME NEW q \in Request, Crash(q) \/ Incomplete(q)
        PROVE  Alone' /\ StatusIsKnown' /\ StatusOfResult'
    <3>1. End(q) /\ runs' = runs
      BY <2>9 DEF Crash, Incomplete
    <3> QED BY <3>1, JobEffects DEF Alone, StatusIsKnown, StatusOfResult,
            ResultStored, InFlight
  <2>10. CASE UNCHANGED runsVars
    BY <2>10 DEF runsVars, Alone, StatusIsKnown, StatusOfResult, ResultStored, InFlight
  <2> QED
    BY <2>1, <2>2, <2>3, <2>4, <2>5, <2>6, <2>7, <2>8, <2>9, <2>10 DEF RunsNext, ExecuteStep
<1>3. Kept /\ [RunsNext]_runsVars => Kept'
  BY <1>2, FaultFixed
<1> QED
  BY <1>1, <1>3, PTL DEF RunsSpec

\* As long as no two requests execute one run at a time, a run is SUCCEEDED
\* exactly when its result is stored, through failures, refusals, reruns,
\* imports and crashes: no portfolio row is left by a failed run
\* and no run claims a success whose rows are missing.
THEOREM StatusIsOfResult == RunsSpec => []SucceededIffStored
<1>1. ("overlap" \notin fault => SerialInv) => SucceededIffStored
  BY DEF SerialInv, StatusOfResult, SucceededIffStored
<1> QED
  BY <1>1, RunsAreSerial, PTL

----------------------------------------------------------------------------
(* Status and stages agree.                                                *)

\* The stage rows a status admits.  Beyond StagesAgree: a run without a row
\* has no stage, and metrics are those of the success.
Story(status, s) ==
  /\ status \in {"absent", "QUEUED"} => \A c \in Stage : s[c] = "none"
  /\ status # "SUCCEEDED" => s["metrics"] = "none"
  /\ status = "RUNNING" => s["data_quality"] = "SUCCEEDED" /\ s["replay"] = "RUNNING"
  /\ status = "SUCCEEDED" => \A c \in Stage : s[c] = "SUCCEEDED"
  /\ status = "FAILED" => s["data_quality"] = "SUCCEEDED" /\ s["replay"] = "FAILED"
  /\ status = "UNAVAILABLE" => s["data_quality"] = "UNAVAILABLE" \/ s["replay"] = "UNAVAILABLE"

StagesTold == \A r \in Run : Story(runs[r].status, stages[r])

\* The stage rows after a write: those named are new, the others as before.
LEMMA StageWrites ==
  ASSUME RunsTypeOK, NEW r \in Run, NEW new, SetStages(r, new)
  PROVE  /\ \A c \in Stage : stages'[r][c] = IF c \in DOMAIN new THEN new[c] ELSE stages[r][c]
         /\ \A t \in Run \ {r} : stages'[t] = stages[t]
BY DEF SetStages, RunsTypeOK

\* What the writing steps of a request that is alone with its run leave in
\* its status and its stages.
LEMMA WritesTellStory ==
  ASSUME SerialInv, StagesTold, NEW q \in Request,
         Refuse(q) \/ Claim(q) \/ Fail(q) \/ Succeed(q)
  PROVE  StagesTold'
<1> DEFINE r == job[q].run
<1>1. /\ r \in Run /\ runs[r] \in RunRow /\ RunsTypeOK
      /\ {"data_quality", "replay", "metrics"} = Stage
  BY Fields DEF SerialInv, Stage
<1>2. Story(runs[r].status, stages[r])
  BY <1>1 DEF StagesTold
<1>3. ASSUME NEW new, NEW row, SetStages(r, new), runs' = [runs EXCEPT ![r] = row],
             Story(row.status, stages'[r])
      PROVE  StagesTold'
  <2>1. runs'[r] = row /\ \A t \in Run \ {r} : runs'[t] = runs[t]
    BY <1>1, <1>3 DEF RunsTypeOK
  <2>2. \A t \in Run \ {r} : stages'[t] = stages[t]
    BY <1>1, <1>3, StageWrites
  <2> QED BY <1>3, <2>1, <2>2 DEF StagesTold
<1>4. ASSUME UNCHANGED <<runs, stages>> PROVE StagesTold'
  BY <1>4 DEF StagesTold
<1>5. CASE Refuse(q)
  <2>1. /\ runs[r].status = job[q].loaded
        /\ job[q].loaded \in {"QUEUED", "FAILED", "UNAVAILABLE"}
    BY <1>5 DEF Refuse, SerialInv, StatusIsKnown
  <2>2. Written(q, "UNAVAILABLE") = "UNAVAILABLE"
    BY <2>1 DEF Written
  <2>3. CASE /\ runs' = [runs EXCEPT ![r] = [@ EXCEPT !.status = Written(q, "UNAVAILABLE")]]
             /\ SetStages(r, [data_quality |-> "UNAVAILABLE"])
    <3> DEFINE new == [data_quality |-> "UNAVAILABLE"]
    <3>1. DOMAIN new = {"data_quality"} /\ new["data_quality"] = "UNAVAILABLE"
      OBVIOUS
    <3>2. SetStages(r, new)
      BY <2>3
    <3>3. [runs[r] EXCEPT !.status = "UNAVAILABLE"].status = "UNAVAILABLE"
      BY <1>1 DEF RunRow
    <3> HIDE DEF new
    <3>4. /\ stages'[r]["data_quality"] = "UNAVAILABLE"
          /\ stages'[r]["metrics"] = stages[r]["metrics"]
      BY <1>1, <3>1, <3>2, StageWrites
    <3>5. stages[r]["metrics"] = "none"
      BY <1>2, <2>1 DEF Story
    <3>6. Story("UNAVAILABLE", stages'[r])
      BY <3>4, <3>5 DEF Story
    <3> QED BY <1>3, <2>2, <2>3, <3>2, <3>3, <3>6
  <2> QED BY <1>4, <1>5, <2>3 DEF Refuse, Rollback
<1>6. CASE Claim(q)
  <2>1. /\ runs[r].status = job[q].loaded
        /\ job[q].loaded \in {"QUEUED", "FAILED", "UNAVAILABLE"}
    BY <1>6 DEF Claim, SerialInv, StatusIsKnown
  <2>2. Written(q, "RUNNING") = "RUNNING"
    BY <2>1 DEF Written
  <2>3. CASE /\ runs' = [runs EXCEPT ![r] = [@ EXCEPT !.status = Written(q, "RUNNING")]]
             /\ SetStages(r, [data_quality |-> "SUCCEEDED", replay |-> "RUNNING"])
    <3> DEFINE new == [data_quality |-> "SUCCEEDED", replay |-> "RUNNING"]
    <3>1. /\ DOMAIN new = {"data_quality", "replay"}
          /\ new["data_quality"] = "SUCCEEDED" /\ new["replay"] = "RUNNING"
      OBVIOUS
    <3>2. SetStages(r, new)
      BY <2>3
    <3>3. [runs[r] EXCEPT !.status = "RUNNING"].status = "RUNNING"
      BY <1>1 DEF RunRow
    <3> HIDE DEF new
    <3>4. /\ stages'[r]["data_quality"] = "SUCCEEDED" /\ stages'[r]["replay"] = "RUNNING"
          /\ stages'[r]["metrics"] = stages[r]["metrics"]
      BY <1>1, <3>1, <3>2, StageWrites
    <3>5. stages[r]["metrics"] = "none"
      BY <1>2, <2>1 DEF Story
    <3>6. Story("RUNNING", stages'[r])
      BY <3>4, <3>5 DEF Story
    <3> QED BY <1>3, <2>2, <2>3, <3>2, <3>3, <3>6
  <2> QED BY <1>4, <1>6, <2>3 DEF Claim, Rollback
<1>7. CASE Fail(q)
  <2>1. runs[r].status = "RUNNING"
    BY <1>7 DEF Fail, SerialInv, StatusIsKnown
  <2>2. PICK outcome \in {"UNAVAILABLE", "FAILED"} :
          /\ runs' = [runs EXCEPT ![r] = [@ EXCEPT !.status = outcome, !.usable = FALSE]]
          /\ SetStages(r, [replay |-> outcome])
    BY <1>7 DEF Fail, StoreFailure
  <2> DEFINE new == [replay |-> outcome]
  <2>3. DOMAIN new = {"replay"} /\ new["replay"] = outcome
    OBVIOUS
  <2>4. SetStages(r, new)
    BY <2>2
  <2>5. [runs[r] EXCEPT !.status = outcome, !.usable = FALSE].status = outcome
    BY <1>1 DEF RunRow
  <2> HIDE DEF new
  <2>6. /\ stages'[r]["replay"] = outcome
        /\ stages'[r]["data_quality"] = stages[r]["data_quality"]
        /\ stages'[r]["metrics"] = stages[r]["metrics"]
    BY <1>1, <2>3, <2>4, StageWrites
  <2>7. Story(outcome, stages'[r])
    BY <1>2, <2>1, <2>6 DEF Story
  <2> QED BY <1>3, <2>2, <2>4, <2>5, <2>7
<1>8. CASE Succeed(q)
  <2>1. runs[r].status = "RUNNING" /\ ~ResultStored(r)
    BY <1>1, <1>8 DEF Succeed, SerialInv, StatusIsKnown, StatusOfResult
  <2>2. PICK u \in BOOLEAN :
          runs' = [runs EXCEPT ![r] =
            [@ EXCEPT !.status = "SUCCEEDED", !.usable = u, !.result = job[q].data]]
    BY <1>8, <2>1 DEF Succeed
  <2> DEFINE new == [replay |-> "SUCCEEDED", metrics |-> "SUCCEEDED"]
  <2>3. /\ DOMAIN new = {"replay", "metrics"}
        /\ new["replay"] = "SUCCEEDED" /\ new["metrics"] = "SUCCEEDED"
    OBVIOUS
  <2>4. SetStages(r, new)
    BY <1>8, <2>1 DEF Succeed
  <2>5. [runs[r] EXCEPT !.status = "SUCCEEDED", !.usable = u, !.result = job[q].data].status
          = "SUCCEEDED"
    BY <1>1 DEF RunRow
  <2> HIDE DEF new
  <2>6. /\ stages'[r]["replay"] = "SUCCEEDED" /\ stages'[r]["metrics"] = "SUCCEEDED"
        /\ stages'[r]["data_quality"] = stages[r]["data_quality"]
    BY <1>1, <2>3, <2>4, StageWrites
  <2>7. Story("SUCCEEDED", stages'[r])
    BY <1>1, <1>2, <2>1, <2>6 DEF Story
  <2> QED BY <1>3, <2>2, <2>4, <2>5, <2>7
<1> QED BY <1>5, <1>6, <1>7, <1>8

\* As long as no two requests execute one run at a time, the stage rows never
\* contradict the status of their run: reruns overwrite the stages of the
\* execution before, and a process that dies leaves both as they were.
THEOREM StagesTellStatus == RunsSpec => []StagesAgree
<1> DEFINE Serial == "overlap" \notin fault => SerialInv
           Kept == "overlap" \notin fault => StagesTold
<1>1. RunsInit => Kept
  <2> SUFFICES ASSUME RunsInit, NEW r \in Run PROVE Story(runs[r].status, stages[r])
    BY DEF StagesTold
  <2>1. runs[r].status = "absent" /\ \A c \in Stage : stages[r][c] = "none"
    BY DEF RunsInit
  <2>2. "metrics" \in Stage
    BY DEF Stage
  <2> QED BY <2>1, <2>2 DEF Story
<1>2. SerialInv /\ StagesTold /\ [RunsNext]_runsVars => StagesTold'
  <2> SUFFICES ASSUME SerialInv, StagesTold, [RunsNext]_runsVars PROVE StagesTold'
    OBVIOUS
  <2>1. ASSUME NEW r \in Run, CreateRun(r) PROVE StagesTold'
    <3>1. stages' = stages
      BY <2>1 DEF CreateRun
    <3>2. /\ runs[r].status = "absent" /\ runs'[r].status = "QUEUED"
          /\ \A t \in Run \ {r} : runs'[t] = runs[t]
      BY <2>1, Creates DEF SerialInv
    <3>3. Story("QUEUED", stages[r])
      BY <3>2 DEF StagesTold, Story
    <3> QED BY <3>1, <3>2, <3>3 DEF StagesTold
  <2>2. ASSUME NEW q \in Request, Refuse(q) \/ Claim(q) \/ Fail(q) \/ Succeed(q)
        PROVE  StagesTold'
    BY <2>2, WritesTellStory
  <2>3. ASSUME NEW q \in Request, Verify(q) \/ Load(q) \/ Incomplete(q) \/ Compute(q) \/ Crash(q)
        PROVE  StagesTold'
    BY <2>3 DEF Verify, Load, Incomplete, Compute, Crash, StagesTold
  <2>4. ASSUME NEW q \in Request, NEW r \in Run, SelectRun(q, r) PROVE StagesTold'
    BY <2>4 DEF SelectRun, StagesTold
  <2>5. CASE ChangeInputs \/ UNCHANGED runsVars
    BY <2>5 DEF ChangeInputs, runsVars, StagesTold
  <2> QED BY <2>1, <2>2, <2>3, <2>4, <2>5 DEF RunsNext, ExecuteStep
<1>3. Serial /\ Kept /\ [RunsNext]_runsVars => Kept'
  BY <1>2, FaultFixed
<1>4. Kept => StagesAgree
  <2> SUFFICES ASSUME "overlap" \notin fault, StagesTold, NEW r \in Run
               PROVE  LET s == stages[r] IN
                      /\ runs[r].status = "QUEUED" => RowsOf(r) = {}
                      /\ runs[r].status = "RUNNING" =>
                           s.data_quality = "SUCCEEDED" /\ s.replay = "RUNNING" /\ s.metrics = "none"
                      /\ runs[r].status = "SUCCEEDED" => \A c \in Stage : s[c] = "SUCCEEDED"
                      /\ runs[r].status = "FAILED" =>
                           s.data_quality = "SUCCEEDED" /\ s.replay = "FAILED"
                      /\ runs[r].status = "UNAVAILABLE" =>
                           s.data_quality = "UNAVAILABLE" \/ s.replay = "UNAVAILABLE"
    BY DEF StagesAgree
  <2>1. Story(runs[r].status, stages[r])
    BY DEF StagesTold
  <2> QED BY <2>1 DEF Story, RowsOf
<1> QED
  BY <1>1, <1>3, <1>4, RunsAreSerial, PTL DEF RunsSpec
=============================================================================
