CONSTANTS
  t1 = t1
  t2 = t2
  M = M
  PushCv = PushCv
  PopCv = PopCv
  TimerThread = TimerThread
  Null = Null
  Threads = {t1, t2}
  c1 = c1
  c2 = c2
  LocalCv <- LocalCvOf
  Rutexes = {M, PushCv, PopCv, c1, c2}
  Caps = {0, 1}
  Program <- ProgramFlow
SPECIFICATION Spec
INVARIANT TypeOK
INVARIANT PopWaitersServed
INVARIANT PushWaitersServed
\* A pop left without an element, and a waiter whose wakeup the rutex lost
\* (rutex_lost_wakeup), block for good.
CHECK_DEADLOCK FALSE
PROPERTY RefinesBufferedChannel
