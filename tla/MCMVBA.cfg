SPECIFICATION MCSpec
CONSTANTS
  n1 = n1
  n2 = n2
  n3 = n3
  n4 = n4
  Node <- FourNodes
  NONE = none
  MaxEpoch = 1
  MaxRound = 1
  LeaderOf <- Shuffle
  Correct = {n1, n2, n3}
CONSTRAINT LagBound
INVARIANTS
  TypeOK
  LeaderIsFound
  BatchIsOutputOnce
PROPERTIES
  ConsensusSteps
  EpochEnds
CHECK_DEADLOCK FALSE
