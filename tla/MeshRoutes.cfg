SPECIFICATION Spec
CONSTANTS
  a = a
  b = b
  c = c
  Nobody = Nobody
  NULL = NULL
  Node = {a, b, c}
  Link <- Line
  Destination = {c}
  NumRtEntries = 2
  Lifetime = 1
  HopsMax = 3
  SeqSpace = 4
  QueuebufNum = 1
  MaxInFlight = 2
  MaxSends <- TwoSenders
  MaxOpens <- MiddleReopens
INVARIANTS
  TypeOK
  BuffersAccounted
  PacketIsUnique
  RouteCostsAreReal
  QueuedIsPursued
PROPERTY
  PacketLeavesQueue
CHECK_DEADLOCK FALSE
