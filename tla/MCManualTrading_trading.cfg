CONSTANTS
  Plan = {p1, p2}
  Planned = 2
  Key = {k1, k2}
  Request = {q1, q2}
  MaxDate = 2
  Opening = 3
  Debit = {1, 2}
  Environments = {{}, {"days"}, {"overlap"}}
SPECIFICATION Spec
INVARIANTS CashReconciles HoldingsOfTheDay ExecutedOncePerKey
PROPERTY ImplementsAccount
CHECK_DEADLOCK FALSE
