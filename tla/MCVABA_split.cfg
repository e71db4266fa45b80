SPECIFICATION LateSpec
CONSTANTS
  n1 = n1
  n2 = n2
  n3 = n3
  n4 = n4
  Node <- FourNodes
  NONE = none
  Empty = empty
  MaxEpoch = 0
  Leader <- LeaderSequence
  Correct <- FourNodes
INVARIANTS
  Agreement
CHECK_DEADLOCK FALSE
