CONSTANTS
  Dur = 2
  Cache = 6
  Capacity = 8
  Threshold = 5
  DspSize = 4
  Low = 2
  High = 3
  DelayMax = 1
  ZeroLimit = 2
  ZeroPause = 6
  LoadPause = 7
  ClockSteps <- Steps
  DspFails = TRUE
  LagMax = 6
  MaxTime = 14
SPECIFICATION Spec
INVARIANT TypeOK
INVARIANT NothingRefused
INVARIANT NothingLate
INVARIANT StampsApart
INVARIANT ThrottleNeverStarves
CHECK_DEADLOCK FALSE
