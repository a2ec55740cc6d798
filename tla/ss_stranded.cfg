SPECIFICATION LinkSpec
CONSTANTS
  Parts = {"sessions"}
  Client = {a, b}
  Nobody = Nobody
  MaxCalls = 2
  MaxDrops = 1
  User = {u1, u2}
  PreKey = {1, 2}
  Plan <- PlanLink
INVARIANTS PendingIsCarried
CHECK_DEADLOCK FALSE
