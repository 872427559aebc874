SPECIFICATION Spec
CONSTANTS
  a = a
  b = b
  c = c
  Proc = {a, b}
  NULL = NULL
  NumEvents = 1
  Autostart <- TwoStarted
  ExitCalled = TRUE
  MaxCalls = 2
  MaxPolls = 0
INVARIANT RunningIsListed
