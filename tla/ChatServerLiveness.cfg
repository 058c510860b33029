\* The whole promise, with failing statements, and delivery to a reachable user:
\* two messages race through two workers.  The system stops when the
\* connections are used up and closed.
SPECIFICATION FairSpec
CONSTANTS
  a = a
  b = b
  a1 = a1
  a2 = a2
  b1 = b1
  m1 = m1
  m2 = m2
  w1 = w1
  w2 = w2
  Users = {a, b}
  Conns = {a1, b1}
  UserOf <- MCUserOf
  Msgs = {m1, m2}
  Addressee <- MCAllToA
  NoConn = NoConn
  Workers = {w1, w2}
  DbFails = TRUE
  MaxCrashes = 0
PROPERTIES  ReachableGetsMessages
CHECK_DEADLOCK FALSE
