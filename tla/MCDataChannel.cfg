\* One control channel, a TCP and a UDP loop on one port, a visitor of the port or
\* of the channel's own pool, one initial data channel and one fault.
SPECIFICATION FairSpec
CONSTANTS
  Links = {l1}
  Loops = {d1, u1}
  UdpLoops = {u1}
  Ports = {p1}
  None = None
  PoolSize = 1
  PoolCap = 4
  GuestCap = 1
  MaxVisits = 1
  MaxFaults = 1
INVARIANTS
  TypeOK
  Funded
  PoolHasRoom
PROPERTIES
  ServedUnlessUpset
  StoppedEnds
CHECK_DEADLOCK FALSE
