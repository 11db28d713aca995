CONSTANTS
  InitialEquity = 100
  WarningPct = 6
  StopPct = 8
  Confirmation = {x, y, z}
  Equity = {80, 92, 93, 94, 95, 97, 100, 101, 102, 104, 105, 108, 110, 112, 113, 115, 117, 118, 120}
SPECIFICATION ReviewSpec
INVARIANTS AlarmReflectsWorst
PROPERTY RecoveryConfirmedTwice
