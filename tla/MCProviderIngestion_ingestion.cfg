SPECIFICATION FairSpec
CONSTANTS
  Stock = {c1, c2}
  PilotStock = {c1}
  Providers = {"tushare", "ifind"}
  Environments = {{"outage", "reject", "postgresql"}, {"malformed", "crash"}, {"background", "crash", "outage"}}
  MaxCrashes = 2
CHECK_DEADLOCK FALSE
INVARIANTS
  BatchHasArtifact
  OneWriter
  UsableIsComplete
  RetryStartsClean
PROPERTIES
  RunningSettles
