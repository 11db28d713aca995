SPECIFICATION Spec
CONSTANTS
  Import = {i1, i2, i3}
  NoBatch = NoBatch
  Owner = {o1, o2}
  Security = {s1, s2}
  Contents = {{s1}, {s1, s2}}
  Label = {l1}
  Environments = {{"overlap", "label"}, {"overlap", "postgresql"}, {"owners"}}
SYMMETRY Symmetry
INVARIANTS
  OnlyRepetitionIsRefused
  ServedIsEvidenced
  OneBatchPerContent
