SPECIFICATION FairSpec
CONSTANTS
  a = a
  b = b
  Node <- MCNode
  MaxRxmits = {1, 2}
  QueuebufNum = 1
  MaxInFlight = 2
  MaxPackets <- MCTwoWay
  MaxReopens = 1
  AckLag = 2
  TimedoutSends = TRUE
INVARIANTS BuffersAccounted
PROPERTY EveryPacketEnds
