\* Delivery at most once, and presence: user a has an old and a new connection,
\* user b one, with one message, one worker and a restart.  The system stops
\* when the connections are used up and closed.
SPECIFICATION Spec
CONSTANTS
  a = a
  b = b
  a1 = a1
  a2 = a2
  b1 = b1
  m1 = m1
  m2 = m2
  w1 = w1
  w2 = w2
  Users = {a, b}
  Conns = {a1, a2, b1}
  UserOf <- MCUserOf
  Msgs = {m1}
  Addressee <- MCAllToA
  NoConn = NoConn
  Workers = {w1}
  DbFails = FALSE
  MaxCrashes = 1
INVARIANTS TypeOK PresentIsOnline
 
CHECK_DEADLOCK FALSE
