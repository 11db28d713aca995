SPECIFICATION Spec
CONSTANTS
  Stock = {1, 2, 3}
  Benchmark = 0
  Day <- MCDay
  Short = 1
  Mid = 2
  Long = 2
  CommissionPct = 1
  MinimumCommission = 5
  OtherPct = 1
  Budget = 2800
  Call = {c1, c2, c3}
  Seed = Seed
  NoRun = NoRun
  Owner = {o1, o2}
  Code = {n1}
  Key = {k1, k2}
  Parameters <- MCParameters
  FirstMarket <- MCFirstMarket
  Markets <- MCMarkets
  Dates = {3}
  Cutoffs = {3, 4}
  BatchCutoff = 4
  Environments = {{"market"}, {"overlap"}, {"overlap", "reviews", "expired"}, {"overlap", "owners"}}
SYMMETRY Symmetry
INVARIANTS
  VersionsContiguous
  RunOfPublished
  AnswerIsOfRequest
  PlansNotDoubled
  SignalsAreCausal
  SignalsFollowDominance
  BudgetIsUsed
