CONSTANTS
  t1 = t1
  t2 = t2
  t3 = t3
  M = M
  CV = CV
  TimerThread = TimerThread
  Null = Null
  Threads = {t1, t2}
  Rutexes = {M, CV}
  Program <- ProgramFast
SPECIFICATION Spec
INVARIANT ContendedWhileQueued
\* A waiter whose notify came before it slept, or whose notify was lost
\* (rutex_lost_wakeup), blocks for good; so does the program around it.
CHECK_DEADLOCK FALSE
