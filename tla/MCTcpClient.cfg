SPECIFICATION FairSpec
CONSTANTS
  MaxFaults = 2
  Patience = 3
  SocketsFail = TRUE
  MallocFails = TRUE
  BadMessages = TRUE
CHECK_DEADLOCK FALSE
INVARIANTS
  TypeOK
  OneOfEach
  NothingStale
PROPERTY
  LossIsRepaired
