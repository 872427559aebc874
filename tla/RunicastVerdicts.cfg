SPECIFICATION Spec
CONSTANTS
  a = a
  b = b
  Node <- MCNode
  MaxRxmits = {0, 2}
  QueuebufNum = 1
  MaxInFlight = 2
  MaxPackets <- MCWrap
  MaxReopens = 1
  AckLag = 3
  TimedoutSends = FALSE
INVARIANTS TypeOK AckedWasDelivered OneVerdict TransmissionsBounded WireConsistent
PROPERTIES OwnAckAccepted ImplementsReliableUnicast
