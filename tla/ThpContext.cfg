SPECIFICATION FairSpec
CONSTANTS
  usb = usb
  ble = ble
  k1 = k1
  k2 = k2
  Hosts <- ThreeHosts
  MaxCid = 4
  MaxOpening = 1
  MaxAppdata = 2
  SessionIds = {1}
  MaxSessions = 2
INVARIANT TypeOK
INVARIANT NoPanic
INVARIANT OneEncrypted
INVARIANT SessionsOwned
INVARIANT CredentialsLive
PROPERTY StaleCleared
CHECK_DEADLOCK FALSE
