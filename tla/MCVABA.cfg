SPECIFICATION MCSpec
CONSTANTS
  n1 = n1
  n2 = n2
  n3 = n3
  n4 = n4
  Node <- FourNodes
  NONE = none
  Empty = empty
  MaxEpoch = 1
  Leader <- LeaderSequence
  Correct <- OneCrashed
CONSTRAINT OneEpoch
INVARIANTS
  TypeOK
  CommitIsLocked
  OutputIsLeaders
  CommitIsOutput
PROPERTIES
  EpochEnds
CHECK_DEADLOCK FALSE
