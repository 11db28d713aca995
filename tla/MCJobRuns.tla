----------------------------- MODULE MCJobRuns -----------------------------
(* Model-checking instance of JobRuns: interchangeable run ids, requests and *)
(* workers.                                                                  *)
EXTENDS JobRuns, TLC

Symmetry == Permutations(Run) \cup Permutations(Request) \cup Permutations(Worker)
============================================================================
