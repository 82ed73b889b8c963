SPECIFICATION FairSpec
CONSTANTS
  Orders = {o1, o2}
  FailMax = 1
  MaxFaults = 3
  MaxRestarts = 1
INVARIANTS TypeOK AtMostOneOrder
PROPERTIES KeepsOrderContract AcksDoNotEcho TakenIsAcked
CHECK_DEADLOCK FALSE
