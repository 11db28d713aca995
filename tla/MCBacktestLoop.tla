--------------------------- MODULE MCBacktestLoop ---------------------------
(* Instances of BacktestLoop: two symbols of one industry, one of another. *)
EXTENDS BacktestLoop, TLC

CONSTANTS a, b, c

MCSymbol == {a, b, c}
MCIndustryOf == (a :> "bank") @@ (b :> "bank") @@ (c :> "steel")

MCBarAt(open, limit, volume) ==
  [open |-> open, low |-> (open * 9) \div 10, high |-> (open * 11) \div 10,
   limit |-> limit, volume |-> volume]

\* Normal bars at two prices, each price limit, an unknown limit status, a
\* thin bar and a halted one.
MCBar ==
  {MCBarAt(10, "no", 100), MCBarAt(20, "no", 100), MCBarAt(20, "up", 100),
   MCBarAt(10, "down", 100), MCBarAt(10, "unknown", 100),
   MCBarAt(10, "no", 1), MCBarAt(0, "no", 100)}

MCSymmetry == Permutations({a, b})
=============================================================================
