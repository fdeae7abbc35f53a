SPECIFICATION FairSpec
CONSTANTS
  Pairing = {0, 1}
  FirstMessages <- FirstWithout
  QueueLen = 1
  MaxOpening = 1
  MaxRetry = 1
  MaxRequests = 2
  LinkCap = 1
  MaxFaults = 1
INVARIANT TypeOK
INVARIANT EndsAgree
INVARIANT DoneAfterHost
INVARIANT AnswersLastRequest
INVARIANT HandshakeNeverFails
PROPERTY HandshakeEnds
PROPERTY FirstMessageDelivered
CHECK_DEADLOCK FALSE
