SPECIFICATION Spec
CONSTANTS
  a = a
  b = b
  c = c
  Nobody = Nobody
  NULL = NULL
  Node = {a, b, c}
  Link <- Line
  Destination = {b, c}
  NumRtEntries = 2
  Lifetime = 1
  HopsMax = 3
  SeqSpace = 4
  QueuebufNum = 1
  MaxInFlight = 2
  MaxSends <- OneSender
  MaxOpens <- NoneReopens
PROPERTY
  PacketLeavesQueue
CHECK_DEADLOCK FALSE
