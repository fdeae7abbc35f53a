SPECIFICATION FairSpec
CONSTANTS
  Pairing = {0, 1}
  FirstMessages <- FirstAny
  QueueLen = 1
  MaxOpening = 1
  MaxRetry = 1
  MaxRequests = 1
  LinkCap = 1
  MaxFaults = 1
PROPERTY FirstMessageDelivered
CHECK_DEADLOCK FALSE
