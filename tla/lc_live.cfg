SPECIFICATION FreshFairSpec
CONSTANTS
  Docs = {d1, d2}
  Bullish = {d1}
  Replicas = {r1}
  Threshold = 1
  PoolSize = 3
  MaxFaults = 0
  MaxPayloadFaults = 0
PROPERTIES PassEnds RejectedIsArchived
CHECK_DEADLOCK FALSE
