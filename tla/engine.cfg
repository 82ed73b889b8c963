SPECIFICATION Spec
CONSTANTS
  Starts = {s1, s2}
  Stops = {t1, t2}
  None = None
  Tiers = {0, 3, 4}
  MaxEntries = 2
  MaxFaults = 1
INVARIANTS TypeOK OrphansNeedOverlap SoleEngineHears
CHECK_DEADLOCK FALSE
