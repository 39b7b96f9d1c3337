SPECIFICATION Spec
CONSTANTS
  NoPid = NoPid
  p1 = p1
  p2 = p2
  n1 = n1
  n2 = n2
  A = A
  B = B
  Partitions = {p1, p2}
  Nodes = {n1, n2}
  Modes <- DamagedModes
INVARIANT DrainedIsReturned
CHECK_DEADLOCK FALSE
