SPECIFICATION Spec
CONSTANTS
  t1 = t1
  t2 = t2
  t3 = t3
  x = x
  y = y
  Timers <- MCTimers
  Ids <- MCIds
  IdOf <- MCIdOf
  WakeUp = wakeup
  NoId = none
  Duration = 1
  Grain = 1
  MaxTime = 5
CHECK_DEADLOCK FALSE
PROPERTY
  StopReturns
