SPECIFICATION FairSpec
CONSTANTS
  Piggybacking = TRUE
  TurnTaking = {"host", "device"}
  BusyErrors = FALSE
  BadHeaders = FALSE
  FragCount = 2
  MaxMsg <- Msgs22
  LinkCap = 2
  MaxFaults = 1
INVARIANT NeverFails
PROPERTY ImplementsExchange
PROPERTY EventualDelivery
CHECK_DEADLOCK FALSE
