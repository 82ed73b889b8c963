SPECIFICATION FairSpec
CONSTANTS
  Operators = {o1, o2}
  Universe = 2
  MaxOutages = 1
  MaxRestarts = 1
  MaxMisses = 1
INVARIANTS TypeOK HaltHoldsUntilRestart ServerHaltSurvives HaltStopsAnalyses
PROPERTY HaltReachesTheLoop
