---------------------------- MODULE MCDailyFlow ----------------------------
(* Model-checking instance of DailyFlow: windows of one and two bars, the   *)
(* third of four days as the date of a run, and markets in which one thing  *)
(* at a time is out of the ordinary.                                        *)
EXTENDS DailyFlow, TLC

MCDay == 1 .. 4

Strong(low, high, positions) ==
  [type |-> "STRONG_TREND", low |-> low, high |-> high, lowRatio |-> 120, highRatio |-> 300,
   positions |-> positions, perIndustry |-> 2]
MCParameters ==
  {Strong(2, 30, 3), Strong(30, 2, 3), Strong(15, 30, 1),
   [type |-> "MA_TREND", short |-> 20, long |-> 60],
   [type |-> "MA_TREND", short |-> 20, long |-> 20]}

Ordinary(close, amount, d) ==
  [there |-> TRUE, close |-> close, amount |-> amount, at |-> d, limit |-> "no",
   status |-> "none", known |-> d]
Series(closes, amounts) == [d \in MCDay |-> Ordinary(closes[d], amounts[d], d)]

Dear == Series(<<20, 20, 22, 22>>, <<1, 1, 2, 2>>)
Rising == {Series(<<10, 10, 12, 12>>, <<1, 1, 2, 2>>), Series(<<10, 11, 12, 12>>, <<1, 1, 2, 2>>),
           Series(<<10, 10, 12, 12>>, <<2, 2, 3, 3>>), Dear}
Index == Series(<<10, 11, 12, 13>>, <<1, 1, 1, 1>>)

Usual(a, b, c) ==
  [bars |-> (0 :> Index) @@ (1 :> a) @@ (2 :> b) @@ (3 :> c), listed |-> [s \in 0 .. 3 |-> 1]]

\* What can be out of the ordinary.
Odd(m) ==
  {m,
   [m EXCEPT !.bars[1][2].there = FALSE], [m EXCEPT !.bars[1][3].there = FALSE],
   [m EXCEPT !.bars[1][2].at = 4], [m EXCEPT !.bars[1][3].at = 4],
   [m EXCEPT !.bars[1][3].status = "suspended"],
   [m EXCEPT !.bars[1][3].status = "st", !.bars[1][3].known = 4],
   [m EXCEPT !.bars[1][3].limit = "yes"], [m EXCEPT !.bars[1][3].limit = "unknown"],
   [m EXCEPT !.bars[1][2].amount = 0, !.bars[1][3].amount = 0],
   [m EXCEPT !.listed[1] = 4],
   [m EXCEPT !.bars[0][1].close = 13, !.bars[0][2].close = 13],
   [m EXCEPT !.bars[0][3].at = 4], [m EXCEPT !.bars[0][1].there = FALSE],
   [m EXCEPT !.bars[0][4].there = FALSE]}

MCMarkets == UNION {Odd(Usual(a, b, c)) : a \in Rising, b \in Rising, c \in Rising \ {Dear}}
MCFirstMarket == Usual(Dear, Dear, Dear)

Symmetry == Permutations(Call)
============================================================================
