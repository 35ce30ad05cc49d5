CONSTANTS
  d1 = d1
  d2 = d2
  d3 = d3
  i1 = i1
  i2 = i2
  i3 = i3
  Devices = {d1, d2}
  Ips = {i1, i2, i3}
  FirstIp <- TwoFirstIps
  Garbage = Garbage
  Serving = {d1}
  AtAux = {d1, d2}
  Leftovers = {Garbage, i1}
  PollLimit = 1
  MaxChanges = 2
SPECIFICATION FairSpec
INVARIANT TypeOK
INVARIANT ClientsFollowOffers
INVARIANT AwayIsSilent
PROPERTY ServerStays
PROPERTY EventuallyDecided
PROPERTY FollowsTheServer
CHECK_DEADLOCK FALSE
