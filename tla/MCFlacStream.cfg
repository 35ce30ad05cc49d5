CONSTANTS
  Call = 2
  Block = 3
  CacheMs = 8
  ResyncEvery = 3
  DelayMax = 1
  Resets <- SmallAndLarge
  MaxCalls = 9
SPECIFICATION Spec
INVARIANT TypeOK
INVARIANT InStep
INVARIANT DriftBounded
CHECK_DEADLOCK FALSE
