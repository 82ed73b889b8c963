SPECIFICATION MCSpec
CONSTANTS
  heavy = heavy
  light = light
  Analysts = {heavy, light}
  Risk = risk
  Category <- OwnCategory
  Share <- Shares
  MinCategories = 1
  MinTradeScore = 60
  Markers = {heavy}
  MaxCycles = 2
  MaxWriteFailures = 2
INVARIANT RiskTimeoutIsVeto
CHECK_DEADLOCK FALSE
