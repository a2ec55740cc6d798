SPECIFICATION Spec
CONSTANTS
  alice = alice
  bob = bob
  phone = phone
  laptop = laptop
  tablet = tablet
  m1 = m1
  m2 = m2
  None = None
  Device = {phone, laptop}
  User = {alice, bob}
  Owner <- OwnerPair
  Msg = {m1}
  From <- FromPhone
  To <- ToBob
  Syncing = {}
  Receipting = {}
  Garbled = {}
  MaxConn = 2
  BufCap = 3
  WireCap = 2
  AckCap = 1
  MaxEarly = 0
  FaultKinds = {"link", "reload", "restart", "sql", "flood"}
  MaxFaults = 1
PROPERTIES OfflineRecipientIsPersisted
CHECK_DEADLOCK FALSE
