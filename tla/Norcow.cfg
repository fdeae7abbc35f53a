SPECIFICATION Spec
CONSTANTS
  a = a
  upgraded = upgraded
  Keys <- TwoKeys
  UpgradedKey = upgraded
  TrueWord <- True2
  FalseWord <- False2
  MaxFirmware = 2
  Devices <- BitsOrBlocks
INVARIANT UniqueKeys
INVARIANT CachedOffset
INVARIANT NothingLost
INVARIANT RoomToUpgrade
PROPERTY ImplementsStore
