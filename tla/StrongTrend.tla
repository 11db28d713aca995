---------------------------- MODULE StrongTrend ----------------------------
(***************************************************************************)
(* The strong-trend strategy as the daily flow applies it: which bars may  *)
(* be used, the features of a security (features.py), the filters and the  *)
(* score (strong_trend.py), and the plans the day's budget allows          *)
(* (DailyFlowApplicationService.execute).                                  *)
(*                                                                         *)
(* Prices and amounts are naturals, thresholds percentages, a ratio is a   *)
(* pair <<numerator, denominator>>, and dates are numbers: what became     *)
(* available in the course of a date has that date.  Decimal's rounding is *)
(* left out; it does not show in scores of up to three candidates.         *)
(***************************************************************************)
EXTENDS Integers, FiniteSets, SequencesExt

CONSTANTS
  Stock,              \* numbers, in the order of the codes
  Benchmark,
  Day,
  Short, Mid, Long,   \* the windows of 5, 10 and 20 bars
  CommissionPct, MinimumCommission,
  OtherPct,           \* transfer fee, and the fees the commission does not include
  Budget              \* initial_equity * max_investment_ratio

ASSUME StockAssumption ==
  Stock \subseteq Nat /\ IsFiniteSet(Stock) /\ Benchmark \in Nat \ Stock
ASSUME DayAssumption == Day \subseteq Nat /\ IsFiniteSet(Day)
ASSUME WindowAssumption == Short \in Nat \ {0} /\ Mid \in Nat \ {0} /\ Long \in Nat \ {0}
ASSUME PlanCostAssumption ==
  CommissionPct \in Nat /\ MinimumCommission \in Nat /\ OtherPct \in Nat /\ Budget \in Nat

Security == Stock \cup {Benchmark}

(* A market m has m.bars, per security and day: there, close, amount, at   *)
(* (available_at), limit (close_limit_up: "no", "yes", "unknown"), status  *)
(* of the status row and known, when that was observed; and m.listed, the  *)
(* listing dates.  The quality gate lets no bar without a positive price   *)
(* into a batch.                                                           *)
BarRow ==
  [there : BOOLEAN, close : Nat \ {0}, amount : Nat, at : Nat, limit : {"no", "yes", "unknown"},
   status : {"none", "suspended", "st"}, known : Nat]
Market == [bars : [Security -> [Day -> BarRow]], listed : [Security -> Nat]]

Bar(m, s, d) == m.bars[s][d]

\* available_at_or_before, and no later than the date.
VisibleByDate(m, s, d, t, cut) == Bar(m, s, d).there /\ d <= t
Visible(m, s, d, t, cut) == Bar(m, s, d).there /\ d <= t /\ Bar(m, s, d).at <= cut

\* The status the query returns: one observed later is none.
StatusOn(m, s, d, cut) == IF Bar(m, s, d).known <= cut THEN Bar(m, s, d).status ELSE "none"

VisibleDays(m, s, t, cut) == {d \in Day : Visible(m, s, d, t, cut)}

\* [-k] and [-k:] of the visible bars, whatever days they are of.
Back(days, k) == CHOOSE d \in days : Cardinality({e \in days : e >= d}) = k
LastDays(days, k) == {d \in days : Cardinality({e \in days : e >= d}) <= k}

SumClose(m, s, days) == SumFunction([d \in days |-> Bar(m, s, d).close])
SumAmount(m, s, days) == SumFunction([d \in days |-> Bar(m, s, d).amount])

----------------------------------------------------------------------------
(* execute: refusal of the batch, and the pool.                            *)

SurvivorBias(m, t) ==
  \E s \in Security : \E d \in Day : Bar(m, s, d).there /\ d <= t /\ m.listed[s] > t

Pool(m, t, cut) ==
  {s \in Stock : /\ Visible(m, s, t, t, cut)
                 /\ StatusOn(m, s, t, cut) = "none"
                 /\ m.listed[s] <= t}

\* The next benchmark bar of the batch, known at the cutoff or not.
LaterDays(m, t) == {d \in Day : d > t /\ Bar(m, Benchmark, d).there}

----------------------------------------------------------------------------
(* build_feature_snapshot and is_candidate.                                *)

Measures(m, s, t, cut) ==
  LET h == VisibleDays(m, s, t, cut)
      last == Bar(m, s, t).close
  IN [week  |-> <<last, Bar(m, s, Back(h, Short + 1)).close>>,
      month |-> <<last, Bar(m, s, Back(h, Long + 1)).close>>,
      ratio |-> <<SumAmount(m, s, LastDays(h, Short)) * Long,
                  SumAmount(m, s, LastDays(h, Long)) * Short>>]

\* No feature is None: enough bars, and some amount.
Whole(m, s, t, cut) ==
  LET h == VisibleDays(m, s, t, cut) IN
  /\ \A window \in {Short + 1, Mid, Long + 1} : Cardinality(h) >= window
  /\ Cardinality(VisibleDays(m, Benchmark, t, cut)) >= Long
  /\ Visible(m, Benchmark, t, t, cut)
  /\ SumAmount(m, s, LastDays(h, Long)) # 0

MarketOpen(m, t, cut) ==
  LET h == VisibleDays(m, Benchmark, t, cut) IN
  Bar(m, Benchmark, t).close * Long > SumClose(m, Benchmark, LastDays(h, Long))

AboveMean(m, s, t, cut) ==
  Bar(m, s, t).close * Mid > SumClose(m, s, LastDays(VisibleDays(m, s, t, cut), Mid))

Between(low, q, high) == low * q[2] <= 100 * q[1] /\ 100 * q[1] <= high * q[2]

Candidate(m, p, s, t, cut) ==
  /\ t <= cut
  /\ Whole(m, s, t, cut)
  /\ MarketOpen(m, t, cut)
  /\ AboveMean(m, s, t, cut)
  /\ LET f == Measures(m, s, t, cut) IN
       /\ Between(100 + p.low, f.week, 100 + p.high)
       /\ Between(p.lowRatio, f.ratio, p.highRatio)
  /\ Bar(m, s, t).limit = "no"

Eligible(m, p, t, cut) == {s \in Pool(m, t, cut) : Candidate(m, p, s, t, cut)}

----------------------------------------------------------------------------
(* _rank, rank_candidates and select_candidates.                           *)

Greater(a, b) == a[1] * b[2] > b[1] * a[2]
Equal(a, b) == a[1] * b[2] = b[1] * a[2]

\* n - average position, in halves: the average of the positions a value
\* takes in the descending order.  Its divisor is the same for everyone.
RankAscending(values, x) ==
  LET n == Cardinality(DOMAIN values)
      before == Cardinality({y \in DOMAIN values : Greater(values[x], values[y])})
      ties == Cardinality({y \in DOMAIN values : Equal(values[y], values[x])})
  IN 2 * n - 2 * before - ties - 1
Rank(values, x) ==
  LET n == Cardinality(DOMAIN values)
      before == Cardinality({y \in DOMAIN values : Greater(values[y], values[x])})
      ties == Cardinality({y \in DOMAIN values : Equal(values[y], values[x])})
  IN 2 * n - 2 * before - ties - 1

Score(f, s) ==
  2 * Rank([x \in DOMAIN f |-> f[x].week], s)
  + Rank([x \in DOMAIN f |-> f[x].month], s)
  + Rank([x \in DOMAIN f |-> f[x].ratio], s)

\* The sort: the best first, equal scores in the order of the codes.
Ahead(f, a, b) == Score(f, a) > Score(f, b) \/ (Score(f, a) = Score(f, b) /\ a < b)
Ranked(f) ==
  CHOOSE q \in [1 .. Cardinality(DOMAIN f) -> DOMAIN f] :
    \A i, j \in DOMAIN q : i < j => Ahead(f, q[i], q[j])

RankCandidates(m, p, t, cut) ==
  Ranked([s \in Eligible(m, p, t, cut) |-> Measures(m, s, t, cut)])

\* The MarketBars that run_daily_flow builds (research.py:1528) set no
\* industry: all candidates share the unknown one, and its limit.
SelectCandidates(m, p, t, cut) ==
  LET ranked == RankCandidates(m, p, t, cut) IN
  SubSeq(ranked, 1, Min({Len(ranked), p.positions, p.perIndustry}))

----------------------------------------------------------------------------
(* Plans: a lot of every signal, in order, as long as the budget lasts; a  *)
(* signal that does not fit is passed over.                                *)

Lot == 100

\* CostModel.calculate(side = "BUY").total, with the notional.
Estimate(close) ==
  Lot * close
  + Max({(Lot * close * CommissionPct) \div 100, MinimumCommission})
  + (Lot * close * OtherPct) \div 100

NothingPlanned == [planned |-> {}, rejected |-> {}, committed |-> 0]

PlanIfEachFits(acc, s, close) ==
  IF Estimate(close) > Budget
  THEN [acc EXCEPT !.rejected = @ \cup {s}]
  ELSE [acc EXCEPT !.planned = @ \cup {s}, !.committed = @ + Estimate(close)]
Plan(acc, s, close) ==
  IF close = 0 \/ acc.committed + Estimate(close) > Budget
  THEN [acc EXCEPT !.rejected = @ \cup {s}]
  ELSE [acc EXCEPT !.planned = @ \cup {s}, !.committed = @ + Estimate(close)]

Plans(m, signals, t) ==
  IF LaterDays(m, t) = {} THEN NothingPlanned
  ELSE FoldLeft(LAMBDA acc, s : Plan(acc, s, Bar(m, s, t).close), NothingPlanned, signals)

Result(m, p, t, cut) ==
  LET signals == SelectCandidates(m, p, t, cut)
      plans == Plans(m, signals, t)
  IN [pool |-> Pool(m, t, cut), signals |-> signals, planned |-> plans.planned,
      rejected |-> plans.rejected]
============================================================================
