SPECIFICATION Spec
CONSTANTS
  Garbage = Garbage
  MaxCalls = 12
INVARIANTS
  TypeOK
  StateIsTrue
  ModemIsTrue
  LineIsFree
  AirIsPayload
PROPERTY
  TransmissionEnds
CHECK_DEADLOCK FALSE
