SPECIFICATION Spec
CONSTANTS
  t1 = t1
  t2 = t2
  t3 = t3
  x = x
  y = y
  Timers <- MCTimers
  Ids <- MCIds
  IdOf <- MCIdOf
  WakeUp = wakeup
  NoId = none
  Duration = 2
  Grain = 2
  MaxTime = 6
CHECK_DEADLOCK FALSE
INVARIANTS
  TypeOK
  FirstIsNearest
  
  NeverEarly
  HandlerThere
PROPERTIES
  ImplementsService
  TimersSettle
  StopReturnsIfWoken
