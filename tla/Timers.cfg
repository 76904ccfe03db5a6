SPECIFICATION Spec
CONSTANTS
  t1 = t1
  t2 = t2
  t3 = t3
  Timers = {t1, t2, t3}
  Msecs = {2, 4}
  MinTimeout = 1
  HalfRange = 16
  StartTimes = {29}
  MaxTime = 35
  LoopTimeouts = {3}
  Hasty = {}
INVARIANTS HeadsAreEarliest InOneQueue NeverOversleeps
PROPERTIES ImplementsAlarms
SYMMETRY TimerSymmetry
CHECK_DEADLOCK FALSE
