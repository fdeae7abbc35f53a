SPECIFICATION Spec
CONSTANTS
  Piggybacking = FALSE
  TurnTaking = {}
  BusyErrors = FALSE
  BadHeaders = FALSE
  FragCount = 2
  MaxMsg <- Msgs31
  LinkCap = 2
  MaxFaults = 1
INVARIANT TypeOK
INVARIANT IndInv
INVARIANT ConfirmedWasDelivered
INVARIANT ReadyMeansSendable
INVARIANT CorruptionDetected
PROPERTY ImplementsExchange
CHECK_DEADLOCK FALSE
