\* Two threads, three lines of two levels, a clock of two values.  The system
\* stops when there is nothing left to log.
SPECIFICATION FairSpec
CONSTANTS
  l1 = l1
  l2 = l2
  l3 = l3
  Threads = {t1, t2}
  Lines = {l1, l2, l3}
  LevelOf <- MCLevelOf
  OpenFails = TRUE
  MaxClock = 2
INVARIANTS WrittenInOrder LevelNeedsCrossing StampAfterLast
PROPERTY LoggedIsWritten
CHECK_DEADLOCK FALSE
