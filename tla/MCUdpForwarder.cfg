CONSTANTS
  p1 = p1
  p2 = p2
  Peers = {p1, p2}
  Reader = Reader
  NoPacket = NoPacket
  PipeSize = 1
  QueueSize = 1
  OutSize = 1
  Loads <- MCLoads
SPECIFICATION FairSpec
INVARIANTS
  MapIsExact
PROPERTIES
  UpInOrder
  DownInOrder
  ReaderReturns
  ChannelCleansUp
CHECK_DEADLOCK FALSE
