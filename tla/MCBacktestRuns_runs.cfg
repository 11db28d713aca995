CONSTANTS
  Run = {r1}
  Request = {q1, q2, q3}
  Version = {v1, v2}
  NoVersion = NoVersion
  Environments = {{}, {"import", "crash"}, {"overlap", "crash"}}
SPECIFICATION FairSpec
INVARIANTS ResultIsOfBoundInputs SucceededIffStored StagesAgree
PROPERTY RunningEnds
