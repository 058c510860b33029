\* Two users, two groups, two messages to one of them, two IO threads, three rows,
\* a restart.  The system stops when the calls and the restart are used up.
SPECIFICATION FairSpec
CONSTANTS
  g1 = g1
  g2 = g2
  m1 = m1
  m2 = m2
  Users = {u1, u2}
  Groups = {g1, g2}
  Msgs = {m1, m2}
  GroupOf <- MCGroupOf
  Threads = {t1, t2}
  DbFails = TRUE
  MaxReceivers = 3
  MaxRestarts = 1
INVARIANTS TypeOK AnsweredFirst 
PROPERTIES  SentIsAnswered
CHECK_DEADLOCK FALSE
