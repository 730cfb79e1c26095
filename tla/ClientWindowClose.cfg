SPECIFICATION FairSpec
CONSTANTS
  first = first
  second = second
  c1 = c1
  c2 = c2
  Identities <- TwoProfiles
  Contracts <- TwoContracts
  ChainLists <- SomeLists
  First = first
  SeenMax = 2
  MaxRequests = 2
  Budgets <- FewBudgets
  MaxBoxes = 2
  NoIdentity = NoIdentity
  Garbled = Garbled
PROPERTY
  ClosesCleanly
CHECK_DEADLOCK FALSE
