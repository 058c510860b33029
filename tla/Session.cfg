\* A session with a friend and a group: one command, one faulty call and two
\* connections.  The system stops when the client has ended.
SPECIFICATION FairSpec
CONSTANTS
  Me = 1
  Others = {2}
  Friendship <- MCFriendship
  Incoming <- MCIncoming
  Outgoing <- MCOutgoing
  Now = 100
  MaxCommands = 1
  MaxFaults = 1
  MaxConnects = 2
  MaxGroups = 1
  YearLength = 2
  Base = 3
  Threads = {"console", "loop"}
  Tables <- MCTables
  Rows <- MCRows
  DiskFails = FALSE
  NoTable = NoTable
INVARIANTS TypeOK FaultsNeedOverlap ShownWasHanded LoginFirst  OwnGroupsListed HistoryByPeer StoredIsNeverShown
CHECK_DEADLOCK FALSE
PROPERTIES UsesHistory HandedIsShown
