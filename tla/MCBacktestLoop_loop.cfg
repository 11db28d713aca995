CONSTANTS
  a = a
  b = b
  c = c
  Symbol <- MCSymbol
  IndustryOf <- MCIndustryOf
  Bar <- MCBar
  InitialCash = 100
  InitialEquity = 100
  CommissionPct = 5
  MinimumCommission = 2
  StampPct = 5
  OtherPct = 3
  MaxPositions = 2
  TargetValue = 40
  InvestmentPct = 70
  PositionPct = 40
  IndustryPct = 60
  LotSize = 2
  WarningPct = 10
  StopPct = 20
  Confirmation = {}
  MaxPerIndustry = 1
  MaxSelected = 2
  MaxHoldingDays = 2
  SlippagePct = 10
  ClosePrice = {10, 20}
  LastDay = 4
SYMMETRY MCSymmetry
SPECIFICATION Spec
INVARIANTS NeverFails PositionLimit OrdersWithinLimits OverdueIsExiting
PROPERTY NoNewExposureAfterStop
