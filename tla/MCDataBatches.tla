--------------------------- MODULE MCDataBatches ---------------------------
(* Model-checking instance of DataBatches: interchangeable calls.           *)
EXTENDS DataBatches, TLC

Symmetry == Permutations(Import)
============================================================================
