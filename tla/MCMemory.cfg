CONSTANTS
  Element <- MCElement
  Traffic <- MCTraffic
  Blank = Blank
  Size = 7
  ExtraSize = 5
  HeaderSize = 2
  BasicSize = 2
  ExtendParam = 0
  MaxBands = 3
  NULL = NULL
SPECIFICATION MCSpec
CHECK_DEADLOCK FALSE
INVARIANTS
  TypeOK
  FreeExclusive
  NothingLost
  HeardWhole
PROPERTIES
  AllocSucceeds
  ImplementsPool
  AllHeard
