SPECIFICATION CrashFairSpec
CONSTANTS
  Node = {n0, n1, n2, n3}
  NONE = none
  NO = no
  MaxRound = 0
  NodeZero = n0
  Leader = n1
  Coin <- LeaderCoin
  Correct = {n1, n2, n3}
  Fifo = FALSE
  Prompt = TRUE
  Early = {n0, n1, n2}
  Ready = {}
  Settled = {n0, n2, n3}
INVARIANTS
  TypeOK
  Agreement
  HaltIsAvailable
  DoneIsBacked
PROPERTIES
  ImplementsConsensus
  AllHalt
CHECK_DEADLOCK FALSE
