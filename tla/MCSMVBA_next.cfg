SPECIFICATION MidwaySpec
CONSTANTS
  Node = {n0, n1, n2, n3, n4}
  NONE = none
  NO = no
  MaxRound = 1
  NodeZero = n0
  Leader = n1
  Coin <- LeaderCoin
  Correct = {n1, n2, n3, n4}
  Fifo = FALSE
  Prompt = TRUE
  Early = {n1, n2, n3}
  Ready = {n0, n1, n2, n3, n4}
  Settled = {n0, n2, n3, n4}
INVARIANTS
  CommitExcludesNo
  CommitIsCarried
CONSTRAINT VotesOnly
CHECK_DEADLOCK FALSE
