SPECIFICATION MixedSpec
CONSTANTS
  Node = {n1, n2, n3, n4}
  NONE = none
  MaxIn = 1
  First = "NO"
  Second = "YES"
  Coin <- CoinSequence
  Correct = {n1, n2, n3, n4}
SYMMETRY Symmetry
INVARIANTS
  FlagsAgree
  HaltsAgree
CONSTRAINT HaltedBefore
CHECK_DEADLOCK FALSE
