SPECIFICATION Spec
CONSTANTS
  n0 = n0
  n1 = n1
  Node = {n0, n1}
  NONE = none
  NodeZero = n0
  MaxEpoch = 1
  Decision <- AlwaysOne
INVARIANTS
  TypeOK
  LogIsDecided
  NothingPastAGap
  BatchOutputOnce
CHECK_DEADLOCK FALSE
