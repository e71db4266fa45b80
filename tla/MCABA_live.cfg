SPECIFICATION LiveSpec
CONSTANTS
  Node = {n1, n2, n3, n4}
  NONE = none
  MaxIn = 1
  First = "YES"
  Second = "YES"
  Coin <- CoinSequence
  Correct = {n1, n2, n3}
CONSTRAINT UnanimousGoesOn
INVARIANTS
  TypeOK
  Validity
PROPERTIES
  ImplementsConsensus
  RoundEnds
CHECK_DEADLOCK FALSE
