SPECIFICATION FairSpec
CONSTANTS
  n1 = n1
  n2 = n2
  n3 = n3
  n4 = n4
  Node <- FourNodes
  NONE = none
  Proposer = n1
  Correct <- OneCrashed
INVARIANTS
  FinishIsLocked
PROPERTIES
  ImplementsBroadcast
  FinishOrStranded
CHECK_DEADLOCK FALSE
