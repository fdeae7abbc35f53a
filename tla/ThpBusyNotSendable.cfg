SPECIFICATION Spec
CONSTANTS
  Piggybacking = FALSE
  TurnTaking = {"host", "device"}
  BusyErrors = TRUE
  BadHeaders = FALSE
  FragCount = 1
  MaxMsg <- Msgs11
  LinkCap = 2
  MaxFaults = 1
INVARIANT ReadyMeansSendable
CHECK_DEADLOCK FALSE
