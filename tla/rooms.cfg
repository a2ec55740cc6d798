SPECIFICATION ChatsSpec
CONSTANTS
  Peer = {p}
  Me = Me
  MaxEvents = 2
  MaxKeys = 4
  Odds <- OddsRooms
  Person = {s, o, m}
  Self = s
  MaxAsks = 2
  MaxTurns = 3
  Page = 2
  MaxRows = 3
  MaxTasks = 2
  MaxBreaks = 1
INVARIANTS
  TypesOK
  KeysStayInside
  
  OneOwner
  RowFollowsTable
  HistoryAgrees
PROPERTIES
  RowsOutliveSilence
  QueuedIsAccepted
CHECK_DEADLOCK FALSE
