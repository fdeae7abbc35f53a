SPECIFICATION Spec
CONSTANTS
  a = a
  upgraded = upgraded
  Keys <- TwoKeys
  UpgradedKey = upgraded
  TrueWord <- True2
  FalseWord <- False2
  MaxFirmware = 2
  Devices <- FullBits
INVARIANT UpgradeCopiesAll
CHECK_DEADLOCK FALSE
