SPECIFICATION MCSpec
CONSTANTS
  Assets = {a1}
  TierCount = 2
  Persistence = 2
  MaxEvents = 2
  MaxFailures = 1
INVARIANTS TypeOK OutageNeverHalts StopAlarmIsReal
PROPERTIES PersistenceRespected LastingFaultsSurface
