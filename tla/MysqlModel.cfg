\* Three threads make two calls of the methods of MysqlModel, over at most two
\* connections, which the scanner may close.  The system stops when the bounded
\* calls are used up or the process has ended.
SPECIFICATION FairModelSpec
CONSTANTS
  Clients = {t1, t2, t3}
  Conns = {c1, c2}
  NoConn = NoConn
  NoClient = NoClient
  InitSize = 1
  MaxSize = 2
  MaxIdle = 1
  MaxClock = 1
  MaxCalls = 2
  MaxRows = 1
INVARIANTS OwnRows OwnIds
PROPERTIES AbandonedForGood  MethodsReturn
CHECK_DEADLOCK FALSE
