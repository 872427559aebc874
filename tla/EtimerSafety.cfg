SPECIFICATION Spec
CONSTANTS
  p1 = p1
  p2 = p2
  t1 = t1
  t2 = t2
  None = None
  Proc = {p1, p2}
  Timer = {t1, t2}
  ClockMod = 6
  Interval = {0, 2}
  Adjustment <- Nudges
  QueueSize = 1
  MaxTime = 7
  MaxDelay = 2
  MaxSets = 3
  MaxOther = 1
INVARIANTS TypeOK ExpiredIsNoticed NextIsNearest
PROPERTIES ImplementsEventTimers
SYMMETRY Symmetry
