SPECIFICATION MCSpec
CONSTANTS
  n0 = n0
  n1 = n1
  n2 = n2
  n3 = n3
  n4 = n4
  Node <- FiveNodes
  NONE = none
  NO = no
  MaxEpoch = 1
  LeaderOf <- Leaders
  NodeZero = n0
  Correct = {n1, n2, n3}
CONSTRAINTS
  NextEpochBound
  LagBound
INVARIANTS
  TypeOK
  Agreement
  LogsAgree
  OutputOnce
  ReferenceIsAvailable
PROPERTIES
  EpochEnds
CHECK_DEADLOCK FALSE
