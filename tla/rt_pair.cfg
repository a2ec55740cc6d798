SPECIFICATION Spec
CONSTANTS
  alice = alice
  bob = bob
  None = None
  Party = {alice, bob}
  Initiator = alice
  MaxSkip = 1
  MaxSeals = 7
  Widths = {1, 2}
INVARIANTS TypeOK KeyUsedOnce OpensWithinSkip  OpensOnce
CHECK_DEADLOCK FALSE
