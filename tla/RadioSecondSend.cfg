SPECIFICATION Spec
CONSTANTS
  Garbage = Garbage
  MaxCalls = 5
INVARIANT SendTransmits
CHECK_DEADLOCK FALSE
