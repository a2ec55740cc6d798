SPECIFICATION DeviceSpec
CONSTANTS
  Identity = {i1, i2}
  Pin = {p1, p2}
  None = none
  MaxTasks = 2
  MaxDeeds = 7
  Thread = {c1, c2}
  NoThread = NoThread
  MaxTexts = 2
  MaxMoves = 4
  MaxJobs = 2
  home = home
  relay = relay
  Own <- OwnServer
  Relay <- RelayServer
  Fast = 2
  MaxTries = 3
  MaxSockets = 3
  MaxFaults = 2
  MaxWakes = 1
SYMMETRY Twins
INVARIANTS
  TypesOK
  PinOpensBox
  
  TypedIsKept
  
  StatsFollow
  LinkIsHeld
CHECK_DEADLOCK FALSE
