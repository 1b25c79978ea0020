CONSTANTS
  t1 = t1
  t2 = t2
  M = M
  PushCv = PushCv
  PopCv = PopCv
  TimerThread = TimerThread
  Null = Null
  Threads = {t1, t2}
  c1 = c1
  c2 = c2
  LocalCv <- LocalCvOf
  Rutexes = {M, PushCv, PopCv, c1, c2}
  Caps = {0}
  Program <- ProgramRendezvous
SPECIFICATION Spec
PROPERTY WaitingCallFailsOnlyOnClose
\* Both calls return at once and the programs end there.
CHECK_DEADLOCK FALSE
