CONSTANTS
  MaxConns = 2
  Fds = {1, 2}
  Protocol = "MP2_DATA"
  Capacity = 1
  MaxChunks = 3
  Askers = {1}
  Leavers = {1}
  Stoppers = {1}
SPECIFICATION FairSpec
INVARIANT TypeOK
INVARIANT InOrderUnlessReused
PROPERTY QueueMovesOrReplyWedged
PROPERTY GoneIsClosed
CHECK_DEADLOCK FALSE
