\* The same session, for what the screen says after joining a group.
SPECIFICATION Spec
CONSTANTS
  Me = 1
  Others = {2}
  Friendship <- MCFriendship
  Incoming <- MCIncoming
  Outgoing <- MCOutgoing
  Now = 100
  MaxCommands = 1
  MaxFaults = 1
  MaxConnects = 1
  MaxGroups = 1
  YearLength = 2
  Base = 3
  Threads = {"console", "loop"}
  Tables <- MCTables
  Rows <- MCRows
  DiskFails = FALSE
  NoTable = NoTable
INVARIANT JoinedIsMember
CHECK_DEADLOCK FALSE
