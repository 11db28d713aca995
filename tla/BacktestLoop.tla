---------------------------- MODULE BacktestLoop ----------------------------
(***************************************************************************)
(* The day loop of the engine-v2 backtest (domain/backtest/event_loop.py): *)
(* settle, execute yesterday's orders at the open, mark at the close, ask  *)
(* the drawdown monitor, order exits, then order entries one signal after  *)
(* the other.  It composes the ledger, the drawdown monitor and the        *)
(* allocation rule.                                                        *)
(*                                                                         *)
(* The market is the environment: which bar an order meets, and which      *)
(* symbols close at which price, is free.  Both strategies are covered by  *)
(* one free choice: any held symbol may be given up, one held for          *)
(* MaxHoldingDays must be, and any symbol that closed today may be         *)
(* selected within the selection limits.  Symbols are sorted by name in    *)
(* the code and carry no name here, so orders of one side execute in any   *)
(* order.                                                                  *)
(***************************************************************************)
EXTENDS Allocation, DrawdownMonitor

CONSTANTS
  IndustryOf,       \* the industry of each symbol
  MaxPerIndustry,   \* strategy.config.max_per_industry
  MaxSelected,      \* strategy.config.max_positions
  MaxHoldingDays,   \* strategy.config.max_holding_days
  SlippagePct,      \* slippage_buy and slippage_sell, in percent
  Bar,              \* the bars an order can meet at the open
  ClosePrice,       \* the prices a symbol can close at
  LastDay           \* number of trading dates

ASSUME LoopAssumption ==
  /\ InitialEquity = InitialCash
  /\ MaxHoldingDays \in Nat \ {0}
  /\ MaxSelected \in Nat /\ MaxPerIndustry \in Nat
  /\ SlippagePct \in 0 .. 99
  /\ ClosePrice \subseteq Nat \ {0}
  /\ LastDay \in Nat \ {0}
  /\ \A bar \in Bar : bar.open \in Nat /\ bar.low \in Nat /\ bar.high \in Nat

VARIABLES
  day,        \* trade_index + 1
  phase,      \* where the loop body stands
  sells,      \* pending exit orders: quantity per symbol, 0 for none
  buys,       \* pending entry orders
  entry,      \* entries: the day of the entry, 0 for none
  lastClose,  \* last_closes, 0 for none
  traded,     \* symbols with a close today: the ones features exist for
  equity,     \* equity of today's snapshot
  selected,   \* entry signals handled so far today
  money       \* virtual_cash

orderVars == <<sells, buys, entry>>
loopVars == <<lastClose, traded, equity, selected, money>>
vars == <<ledgerVars, monitorVars, orderVars, loopVars, day, phase>>

Phase == {"open", "orders", "exits", "entries", "done", "failed"}

Init ==
  /\ LedgerInit
  /\ MonitorInit
  /\ day = 1
  /\ phase = "open"
  /\ sells = [s \in Symbol |-> 0]
  /\ buys = [s \in Symbol |-> 0]
  /\ entry = [s \in Symbol |-> 0]
  /\ lastClose = [s \in Symbol |-> 0]
  /\ traded = {}
  /\ equity = InitialCash
  /\ selected = {}
  /\ money = InitialCash

Selling == {s \in Symbol : sells[s] > 0}
Buying == {s \in Symbol : buys[s] > 0}

----------------------------------------------------------------------------
(* The open.                                                               *)

OpenDay ==
  /\ phase = "open"
  /\ SettleAll
  /\ phase' = "orders"
  /\ UNCHANGED <<cash, qty, basis, highWater, monitorVars, orderVars, loopVars, day>>

\* ExecutionSimulator.execute in FULL_OR_NONE mode: the price of the fill,
\* 0 when the order stays unfilled.  A missing bar is one without an open.
ExecutionPrice(side, open) ==
  LET slippage == (open * SlippagePct) \div 100
  IN IF side = "BUY" THEN open + slippage ELSE open - slippage

FillPrice(side, q, bar) ==
  LET price == ExecutionPrice(side, bar.open) IN
  IF \/ bar.open = 0
     \/ bar.limit = "unknown"
     \/ side = "BUY" /\ bar.limit = "up"
     \/ side = "SELL" /\ bar.limit = "down"
     \/ price < bar.low \/ price > bar.high
     \/ bar.volume < q
  THEN 0 ELSE price

\* An order is popped when its day comes, filled or not.
Drop(orders, s) == [orders EXCEPT ![s] = 0]

\* entries.pop once a sale has emptied the position.
EntryAfterSell(s) == [entry EXCEPT ![s] = IF qty'[s] = 0 THEN 0 ELSE @]

\* apply_fill raising out of the loop ends the run.
ExecuteSell(s) ==
  \E bar \in Bar :
    LET price == FillPrice("SELL", sells[s], bar)
        accepted == SellAccepted(s, sells[s], price)
    IN
    /\ phase = "orders"
    /\ sells[s] > 0
    /\ sells' = Drop(sells, s)
    /\ IF price > 0 /\ accepted
       THEN /\ ApplySell(s, sells[s], price)
            /\ entry' = EntryAfterSell(s)
       ELSE UNCHANGED <<ledgerVars, entry>>
    /\ phase' = IF price > 0 /\ ~accepted THEN "failed" ELSE phase
    /\ UNCHANGED <<monitorVars, buys, loopVars, day>>

\* Sells come first.  A buy that no longer fits into cash is marked
\* INSUFFICIENT_CASH and not handed to the ledger.
ExecuteBuy(s) ==
  \E bar \in Bar :
    LET price == FillPrice("BUY", buys[s], bar) IN
    /\ phase = "orders"
    /\ Selling = {}
    /\ buys[s] > 0
    /\ buys' = Drop(buys, s)
    /\ \/ /\ price > 0
          /\ BuyAccepted(buys[s], price)
          /\ ApplyBuy(s, buys[s], price)
          /\ entry' = [entry EXCEPT ![s] = day]
       \/ /\ price = 0 \/ ~BuyAccepted(buys[s], price)
          /\ UNCHANGED <<ledgerVars, entry>>
    /\ UNCHANGED <<monitorVars, sells, loopVars, day, phase>>

----------------------------------------------------------------------------
(* The close.                                                              *)

\* closes, then ledger.snapshot(prices=last_closes), then drawdown.observe.
CloseDay ==
  /\ phase = "orders"
  /\ Selling = {} /\ Buying = {}
  /\ traded' \in SUBSET Symbol
  /\ \E price \in [traded' -> ClosePrice] :
       lastClose' = [s \in Symbol |-> IF s \in traded' THEN price[s] ELSE lastClose[s]]
  /\ equity' = EquityOf(cash, qty, basis, lastClose')
  /\ highWater' = Larger(highWater, equity')
  /\ Observe(equity')
  /\ phase' = IF day = LastDay THEN "done" ELSE "exits"
  /\ UNCHANGED <<cash, qty, avail, basis, orderVars, selected, money, day>>

HeldDaysElapsed(s) == day - entry[s]
HeldDays(s) == day - entry[s] + 1

\* Exit orders for the whole position.  A position without an entry state
\* is passed over.
OrderExits ==
  /\ phase = "exits"
  /\ \E exiting \in SUBSET {s \in Held : entry[s] > 0} :
       /\ \A s \in Held : entry[s] > 0 /\ HeldDays(s) >= MaxHoldingDays => s \in exiting
       /\ sells' = [s \in Symbol |-> IF s \in exiting THEN qty[s] ELSE 0]
  /\ selected' = {}
  /\ money' = cash
  /\ phase' = "entries"
  /\ UNCHANGED <<ledgerVars, monitorVars, buys, entry, lastClose, traded, equity, day>>

\* _positions plus the entries ordered so far: what allocation looks at.
Projected == Held \cup Buying
ProjectedValue(s) == PositionValue(s, lastClose) + buys[s] * lastClose[s]
Invested(S) == SumFunction([s \in S |-> ProjectedValue(s)])
SameIndustry(s) == {t \in Symbol : IndustryOf[t] = IndustryOf[s]}

\* industry_counts leaves out the positions that are about to be sold.
IndustryFull(s) ==
  Cardinality((SameIndustry(s) \cap Projected) \ Selling) >= MaxPerIndustry

\* What select_candidates can still return after the signals in selected.
Selectable(s) ==
  /\ s \in traded \ selected
  /\ Cardinality(selected) < MaxSelected
  /\ Cardinality(selected \cap SameIndustry(s)) < MaxPerIndustry

QuantityOfFreeCash(s) ==
  AllocateQuantity(lastClose[s], cash, equity, Invested(Held),
                   Invested(Held \cap SameIndustry(s)),
                   Cardinality(Projected), risk)
QuantityIgnoringExits(s) ==
  AllocateQuantity(lastClose[s], money, equity, Invested(Projected),
                   Invested(Projected \cap SameIndustry(s)),
                   Cardinality(Projected \ Selling), risk)
QuantityIgnoringRisk(s) ==
  AllocateQuantity(lastClose[s], money, equity, Invested(Projected),
                   Invested(Projected \cap SameIndustry(s)),
                   Cardinality(Projected), "NORMAL")
Quantity(s) ==
  AllocateQuantity(lastClose[s], money, equity, Invested(Projected),
                   Invested(Projected \cap SameIndustry(s)),
                   Cardinality(Projected), risk)

OrderEntry(s) ==
  /\ phase = "entries"
  /\ Selectable(s)
  /\ s \notin Projected \cup Selling
  /\ ~IndustryFull(s)
  /\ \E q \in Quantity(s) :
       /\ buys' = [buys EXCEPT ![s] = q]
       /\ money' = money - BuyTotal(q, lastClose[s])
  /\ selected' = selected \cup {s}
  /\ UNCHANGED <<ledgerVars, monitorVars, sells, entry, lastClose, traded, equity, day, phase>>

PassOver(s) ==
  /\ phase = "entries"
  /\ Selectable(s)
  /\ s \in Projected \cup Selling \/ IndustryFull(s) \/ Quantity(s) = {}
  /\ selected' = selected \cup {s}
  /\ UNCHANGED <<ledgerVars, monitorVars, orderVars, lastClose, traded, equity, money, day, phase>>

EndDay ==
  /\ phase = "entries"
  /\ day' = day + 1
  /\ phase' = "open"
  /\ UNCHANGED <<ledgerVars, monitorVars, orderVars, loopVars>>

Finished == phase \in {"done", "failed"} /\ UNCHANGED vars

Next ==
  \/ OpenDay
  \/ \E s \in Symbol : ExecuteSell(s) \/ ExecuteBuy(s)
  \/ CloseDay
  \/ OrderExits
  \/ \E s \in Symbol : OrderEntry(s) \/ PassOver(s)
  \/ EndDay
  \/ Finished

Spec == Init /\ [][Next]_vars

----------------------------------------------------------------------------
(* Properties.                                                             *)

LoopTypeOK ==
  /\ cash \in Nat /\ equity \in Int /\ money \in Nat
  /\ qty \in [Symbol -> Nat] /\ avail \in [Symbol -> Nat]
  /\ basis \in [Symbol -> Nat]
  /\ highWater \in Nat /\ peak \in Nat
  /\ risk \in RiskState /\ confirmed \subseteq Confirmation
  /\ sells \in [Symbol -> Nat] /\ buys \in [Symbol -> Nat]
  /\ entry \in [Symbol -> 0 .. LastDay]
  /\ lastClose \in [Symbol -> Nat]
  /\ traded \subseteq Symbol /\ selected \subseteq Symbol
  /\ day \in 1 .. LastDay /\ phase \in Phase

\* apply_fill never raises inside the loop (ledger.py:51, 62, 66): the cash
\* check at event_loop.py:268 and the order settle, sell, buy rule it out.
NeverFails == phase # "failed"

\* A symbol has an entry state exactly while it is held (event_loop.py:286
\* to 291): otherwise a position would never be offered for exit again.
EntriesMatchHoldings == \A s \in Symbol : entry[s] > 0 <=> s \in Held

\* Even when every exit order stays unfilled and every entry order fills,
\* the account never holds more than max_positions symbols.
PositionLimit == Cardinality(Held \cup Buying) <= MaxPositions

\* The entry orders of one evening together stay within cash and within
\* the total, industry and single-position limits of the equity at hand.
OrdersWithinLimits ==
  phase = "entries" /\ Buying # {} =>
    /\ SumFunction([s \in Buying |-> BuyTotal(buys[s], lastClose[s])]) <= cash
    /\ 100 * Invested(Projected) <= InvestmentPct * equity
    /\ \A s \in Buying :
         /\ 100 * Invested(Projected \cap SameIndustry(s)) <= IndustryPct * equity
         /\ 100 * ProjectedValue(s) <= PositionPct * equity

\* A position held for max_holding_days goes into the next open with an
\* order to sell all of it, however often earlier exits stayed unfilled.
OverdueIsExiting ==
  phase = "open" =>
    \A s \in Held : day - entry[s] >= MaxHoldingDays => sells[s] = qty[s]

\* Once the monitor has left NORMAL no position grows: the alarm is raised
\* after the day's fills and before the evening's entry orders.
NoNewExposureAfterStop ==
  [][risk # "NORMAL" => \A s \in Symbol : qty'[s] <= qty[s]]_vars
============================================================================
