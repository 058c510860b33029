\* Three callers, the producer and the scanner over up to three connections and
\* four addresses, so that the scanner can delete two and an address can be used
\* again; no symmetry, because calls must return.  The system stops when the
\* bounded calls are used up or front() of an empty queue has broken the process.
SPECIFICATION FairSpec
CONSTANTS
  Clients = {t1, t2, t3}
  Conns = {c1, c2, c3, c4}
  NoConn = NoConn
  InitSize = 1
  MaxSize = 3
  MaxIdle = 1
  MaxClock = 2
  MaxCalls = 4
INVARIANTS PoolConservation PoolBounds IdleOrder
PROPERTIES ReapsAllExpired 
CHECK_DEADLOCK FALSE
