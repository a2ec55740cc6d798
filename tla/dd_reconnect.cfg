SPECIFICATION Spec
CONSTANTS
  alice = alice
  bob = bob
  phone = phone
  laptop = laptop
  tablet = tablet
  m1 = m1
  m2 = m2
  None = None
  Device = {phone, laptop}
  User = {alice, bob}
  Owner <- OwnerPair
  Msg = {m1}
  From <- FromPhone
  To <- ToBob
  Syncing = {}
  Receipting = {}
  Garbled = {m1}
  MaxConn = 3
  BufCap = 1
  WireCap = 1
  AckCap = 1
  MaxEarly = 0
  FaultKinds = {"link", "reload", "restart", "sql", "flood"}
  MaxFaults = 1
INVARIANTS TypeOK AckHasCustody WaitingIsQueuedOrSeen UnlistedIsCancelled
PROPERTIES RowKeptUntilSeen MailboxSpec
CHECK_DEADLOCK FALSE
