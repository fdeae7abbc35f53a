SPECIFICATION Spec
CONSTANTS
  Piggybacking = FALSE
  TurnTaking = {"device"}
  BusyErrors = TRUE
  BadHeaders = TRUE
  FragCount = 2
  MaxMsg <- Msgs22
  LinkCap = 2
  MaxFaults = 2
INVARIANT BusyLosesNoRequest
PROPERTY NoDeliveryAfterFailure
CHECK_DEADLOCK FALSE
