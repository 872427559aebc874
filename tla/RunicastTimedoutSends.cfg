SPECIFICATION Spec
CONSTANTS
  a = a
  b = b
  Node <- MCNode
  MaxRxmits = {2}
  QueuebufNum = 1
  MaxInFlight = 2
  MaxPackets <- MCTwoWay
  MaxReopens = 0
  AckLag = 3
  TimedoutSends = TRUE
PROPERTY OwnAckAccepted
