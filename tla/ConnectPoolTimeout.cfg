\* connectionTimeout promises an end to a call whatever the holders do; with
\* the pool exhausted the producer's notify_all restarts the timeout for ever.
SPECIFICATION KeepingSpec
CONSTANTS
  Clients = {t1, t2, t3}
  Conns = {c1, c2}
  NoConn = NoConn
  InitSize = 1
  MaxSize = 2
  MaxIdle = 1
  MaxClock = 0
  MaxCalls = 4
PROPERTIES TimeoutEndsCall
CHECK_DEADLOCK FALSE
