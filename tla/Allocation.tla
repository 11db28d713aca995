----------------------------- MODULE Allocation -----------------------------
(***************************************************************************)
(* How many shares one entry signal may buy (domain/risk/allocation.py).   *)
(* The model of the loop hands over what allocate_quantity computes from   *)
(* its position list: the market value invested in all, in the industry,   *)
(* and the number of positions.  The cash, long-only guards reject every   *)
(* other account type before anything is computed and are left out, and so *)
(* is stop_distance, which no caller passes.                               *)
(***************************************************************************)
EXTENDS PortfolioLedger

CONSTANTS
  MaxPositions,
  TargetValue,     \* target_position_value
  InvestmentPct,   \* max_investment_ratio, in percent of equity
  PositionPct,     \* max_position_ratio
  IndustryPct,     \* max_industry_ratio
  LotSize

ASSUME LimitAssumption ==
  /\ MaxPositions \in Nat /\ TargetValue \in Nat
  /\ InvestmentPct \in Nat /\ PositionPct \in Nat /\ IndustryPct \in Nat
  /\ LotSize \in Nat \ {0}

\* The notional one purchase may reach, in hundredths of a unit.
Notional(money, equity, invested, inIndustry) ==
  Min({100 * TargetValue,
       Larger(0, equity * PositionPct),
       Larger(0, equity * IndustryPct - 100 * inIndustry),
       Larger(0, equity * InvestmentPct - 100 * invested),
       100 * money})

\* The quantity, as a set: empty where the code returns 0.  The number of
\* lots is the largest up to the notional whose costs still fit into cash.
AllocateQuantity(price, money, equity, invested, inIndustry, others, risk) ==
  LET top == Notional(money, equity, invested, inIndustry)
               \div (100 * price * LotSize)
      affordable == {n \in 1 .. top : BuyTotal(n * LotSize, price) <= money}
  IN IF risk # "NORMAL" \/ price <= 0 \/ money <= 0 \/ equity <= 0
        \/ others + 1 > MaxPositions
     THEN {}
     ELSE {n * LotSize : n \in {m \in affordable : \A x \in affordable : x <= m}}
============================================================================
