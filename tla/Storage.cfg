SPECIFICATION FairSpec
CONSTANTS
  empty = empty
  p = p
  q = q
  none = none
  seed = seed
  Items <- OneItem
  Pins <- TwoPins
  EmptyPin = empty
  NoCode = none
  MaxTries = 2
  MaxCount = 4
  HwKey = TRUE
  Builds <- Bits4OrBlocks
  Copies <- SomeCopies
INVARIANT TypeOK
INVARIANT GuessesCounted
INVARIANT GuessesBounded
INVARIANT KeysMatchLock
INVARIANT NoFaults
INVARIANT TagCurrent
INVARIANT LockVersionRight
INVARIANT HasPinRight
PROPERTY AlwaysEnds
