CONSTANTS
  MaxConns = 3
  Fds = {1}
  Protocol = "FLAC_DATA"
  Capacity = 1
  MaxChunks = 2
  Askers = {1, 2}
  Leavers = {1, 2}
  Stoppers = {3}
SPECIFICATION Spec
INVARIANT SendExclusive
INVARIANT NoOrphanVisitor
INVARIANT NothingLeaked
CHECK_DEADLOCK FALSE
