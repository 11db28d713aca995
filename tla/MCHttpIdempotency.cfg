CONSTANTS
  Key = {k1, k2}
  Intent = {x, y}
  Request = {q1, q2, q3}
  NoResult = NoResult
  Stores = {"sql", "memory"}
  Lifetime = 2
  MaxClock = 4
SPECIFICATION Spec
INVARIANTS ExecutedOncePerLifetime ReplayIsOwn
