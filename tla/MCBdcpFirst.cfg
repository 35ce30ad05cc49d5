CONSTANTS
  d1 = d1
  d2 = d2
  d3 = d3
  i1 = i1
  i2 = i2
  i3 = i3
  Devices = {d1, d2, d3}
  Ips = {i1, i2, i3}
  FirstIp <- ThreeFirstIps
  Garbage = Garbage
  Serving = {d1, d2}
  AtAux = {d1, d2, d3}
  Leftovers = {Garbage}
  PollLimit = 1
  MaxChanges = 0
SPECIFICATION Spec
PROPERTY FirstServerOnly
CHECK_DEADLOCK FALSE
