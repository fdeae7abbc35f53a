SPECIFICATION FairSpec
CONSTANTS
  a = a
  upgraded = upgraded
  Keys <- TwoKeys
  UpgradedKey = upgraded
  TrueWord <- True2
  FalseWord <- False2
  MaxFirmware = 2
  Devices <- SmallDevices
INVARIANT TypeOK
PROPERTY AlwaysBack
