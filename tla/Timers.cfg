\* A repeating timer and two one-shots.
CONSTANTS
  Timers = {t1, t2, t3}
  Repeating = {t1}
  t1 = t1  t2 = t2  t3 = t3
  Interval = 2
  MaxDelay = 1
  None = None
SPECIFICATION Spec
PROPERTIES CancelledStaysQuiet TimersKeepTime
