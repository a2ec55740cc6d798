SPECIFICATION Spec
CONSTANTS
  n1 = n1
  n2 = n2
  n3 = n3
  n4 = n4
  k1 = k1
  k2 = k2
  Node = {n1, n2, n3, n4}
  Key = {k1, k2}
  None = None
  MaxHops = 3
  MaxTime = 1
  MaxPublish = 2
  MaxChanges = 1
SYMMETRY NodeSymmetry
INVARIANTS TypeOK
PROPERTIES  FloodIsBreadthFirst ForgetsOnlyExpired
CHECK_DEADLOCK FALSE
