SPECIFICATION Spec
CONSTANTS
  a = a
  b = b
  c = c
  Proc = {a, b, c}
  NULL = NULL
  NumEvents = 2
  Autostart <- TwoStarted
  ExitCalled = FALSE
  MaxCalls = 3
  MaxPolls = 1
INVARIANTS TypeOK ListEnds RunningIsListed NoReentry CurrentIsExecuting PollIsPending BroadcastReachesAll
PROPERTIES BroadcastOnce EventsAreFifo PollIsServed EventIsTaken
