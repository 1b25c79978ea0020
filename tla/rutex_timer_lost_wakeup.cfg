CONSTANTS
  t1 = t1
  t2 = t2
  t3 = t3
  R1 = R1
  R2 = R2
  TimerThread = TimerThread
  Null = Null
  Threads = {t1, t2}
  Rutexes = {R1}
  Program <- ProgramTimed
SPECIFICATION Spec
PROPERTY AllCallsReturn
CHECK_DEADLOCK FALSE
