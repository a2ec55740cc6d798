SPECIFICATION LinkSpec
CONSTANTS
  Parts = {"calls", "sessions"}
  Client = {a, b}
  Nobody = Nobody
  MaxCalls = 2
  MaxDrops = 1
  User = {u1, u2}
  PreKey = {1, 2}
  Plan <- PlanLink
INVARIANTS
  TypesOK
  CandidatesKept
  MicReleased
  PendingSurvivesReset
  
PROPERTIES
  CallsSettle
  RepairEnds
CHECK_DEADLOCK FALSE
