SPECIFICATION MCSpec
CONSTANTS
  heavy = heavy
  light = light
  Analysts = {heavy, light}
  Risk = risk
  Category <- OwnCategory
  Share <- Shares
  MinCategories = 2
  MinTradeScore = 60
  Markers = {heavy}
  MaxCycles = 2
  MaxWriteFailures = 2
INVARIANTS TypeOK VetoStops EarnedTrades StatusIsCurrent
PROPERTIES CycleEnds ContractSpec
CHECK_DEADLOCK FALSE
