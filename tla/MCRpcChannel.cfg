SPECIFICATION LiveSpec
CONSTANTS
  m1 = m1
  t1 = t1
  t2 = t2
  s1 = s1
  s2 = s2
  None = None
  Methods = {m1}
  Threads = {t1, t2}
  Sockets = {s1, s2}
  PoolLimit = 1
  MaxCalls = 2
  MaxStarts = 2
  MaxFailures = 2
INVARIANTS TypeOK ListeningIsFound AnsweredOnce SocketsAccounted
PROPERTY CallsEnd
CHECK_DEADLOCK FALSE
