SPECIFICATION Spec
CONSTANTS
  t1 = t1
  t2 = t2
  easy = easy
  hard = hard
  Tip <- TwoTips
  Target <- TwoTargets
  Solutions <- Solved
  MaxNonce = 3
  MaxRuns = 2
  MaxMoves = 2
INVARIANTS
  ExitTrue
  ToldTruth
  NothingHeld
CHECK_DEADLOCK FALSE
