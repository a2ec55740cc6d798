SPECIFICATION FairSpec
CONSTANTS
  alice = alice
  bob = bob
  phone = phone
  laptop = laptop
  tablet = tablet
  m1 = m1
  m2 = m2
  None = None
  Device = {phone}
  User = {alice, bob}
  Owner <- OwnerAlone
  Msg = {m1}
  From <- FromPhone
  To <- ToBob
  Syncing = {}
  Receipting = {}
  Garbled = {}
  MaxConn = 3
  BufCap = 1
  WireCap = 1
  AckCap = 1
  MaxEarly = 1
  FaultKinds = {"link", "reload", "restart", "sql", "flood"}
  MaxFaults = 1
PROPERTIES OutboxDrains
CHECK_DEADLOCK FALSE
