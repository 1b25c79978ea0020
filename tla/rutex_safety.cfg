CONSTANTS
  t1 = t1
  t2 = t2
  t3 = t3
  R1 = R1
  R2 = R2
  TimerThread = TimerThread
  Null = Null
  Threads = {t1, t2, t3}
  Rutexes = {R1, R2}
  Program <- ProgramRequeue
SPECIFICATION Spec
INVARIANT TypeOK
INVARIANT OwnerMatchesQueue
INVARIANT UnlinkedOnReturn
INVARIANT TimerGoneOnReturn
INVARIANT NoWakeAfterReturn
PROPERTY WaitReturnJustified
\* A lost wakeup leaves a thread blocked for good; rutex_lost_wakeup checks that.
CHECK_DEADLOCK FALSE
