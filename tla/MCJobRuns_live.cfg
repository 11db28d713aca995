SPECIFICATION FairSpec
CONSTANTS
  Key = {k1}
  NoKey = NoKey
  Run = {r1, r2}
  NoRun = NoRun
  Request = {q1, q2, q3, q4}
  Worker = {w1, w2}
  Environments = {{"crash"}, {"background", "crash"}}
  MaxCrashes = 2
CHECK_DEADLOCK FALSE
PROPERTIES
  QueuedIsDecided
