CONSTANTS
  e1 = e1
  e2 = e2
  Worker = Worker
  Null = Null
  Entries = {e1, e2}
  Delays = {0, 1, 2}
  MaxTime = 3
SPECIFICATION Spec
PROPERTY NoEarlyFire
\* Every client ends joined and the clock stops at MaxTime; a callback that
\* reschedules its own entry blocks the worker for good.
CHECK_DEADLOCK FALSE
