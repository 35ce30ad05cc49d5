CONSTANTS
  Ms = 2
  RttLimit = 2
  Size = 5
  Cache = 3
  Window = 1
  Stamps = {100, 103}
  Offsets = {0, 20}
  Start = 100
  Ticks = {3}
  MaxNow = 106
  MaxSets = 1
  MaxInFlight = 2
  None = None
SPECIFICATION Spec
INVARIANT TypeOK
INVARIANT OffsetsBounded
INVARIANT EstimateBounded
PROPERTY PlaysInSync
PROPERTY DiscardsLate
CHECK_DEADLOCK FALSE
