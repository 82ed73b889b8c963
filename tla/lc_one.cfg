SPECIFICATION FreshSpec
CONSTANTS
  Docs = {d1, d2}
  Bullish = {d1}
  Replicas = {r1}
  Threshold = 1
  PoolSize = 4
  MaxFaults = 1
  MaxPayloadFaults = 1
INVARIANT TypeOK
PROPERTIES LegalMoves LogIsFaithful SilentReturnIsTrue
CHECK_DEADLOCK FALSE
