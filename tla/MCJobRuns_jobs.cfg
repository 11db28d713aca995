SPECIFICATION Spec
CONSTANTS
  Key = {k1}
  NoKey = NoKey
  Run = {r1, r2, r3}
  NoRun = NoRun
  Request = {q1, q2, q3}
  Worker = {w1, w2}
  Environments = {{"outage", "ackloss", "backlog", "stall"}, {"outage", "stall", "crash"},
                  {"backlog", "crash"}, {"outage", "crash"},
                  {"background", "backlog", "crash"}, {"background", "outage", "crash"},
                  {"background", "backlog", "stall", "crash"}}
  MaxCrashes = 2
SYMMETRY Symmetry
CHECK_DEADLOCK FALSE
INVARIANTS
  OneActivePerKey
  SingleExecution
  OneEffectPerKey
  RunningIsExecuted
  ActiveIsLatest
PROPERTIES
  AttemptFollowsRetryable
  SucceededIsFinal
