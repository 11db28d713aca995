SPECIFICATION Spec
CONSTANTS
  Import = {i1, i2}
  NoBatch = NoBatch
  Owner = {o1, o2}
  Security = {s1, s2}
  Contents = {{s1}, {s1, s2}}
  Label = {l1}
  Environments = {{"postgresql"}}
INVARIANTS
  WarningsDoNotBlock
