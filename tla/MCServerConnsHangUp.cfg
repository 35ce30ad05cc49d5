CONSTANTS
  MaxConns = 2
  Fds = {1, 2}
  Protocol = "MP2_DATA"
  Capacity = 1
  MaxChunks = 2
  Askers = {}
  Leavers = {1}
  Stoppers = {}
SPECIFICATION Spec
PROPERTY ConnectedStays
CHECK_DEADLOCK FALSE
