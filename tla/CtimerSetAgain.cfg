SPECIFICATION CSpec
CONSTANTS
  c1 = c1
  c2 = c2
  ctimer_process = ctimer_process
  None = None
  Proc = {ctimer_process}
  Timer = {c1, c2}
  ClockMod = 6
  Interval = {0, 2}
  Adjustment = {}
  QueueSize = 2
  MaxTime = 5
  MaxDelay = 2
  MaxSets = 3
  MaxOther = 1
PROPERTIES CallbackOnlyWhenExpired
