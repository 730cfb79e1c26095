SPECIFICATION FairSpec
CONSTANTS
  first = first
  second = second
  c1 = c1
  c2 = c2
  Identities <- TwoProfiles
  Contracts <- TwoContracts
  ChainLists <- SomeLists
  First = first
  SeenMax = 2
  MaxRequests = 2
  Budgets <- SomeBudgets
  MaxBoxes = 2
  NoIdentity = NoIdentity
  Garbled = Garbled
INVARIANTS
  WindowTypeOK
  AnnouncedOnce
PROPERTIES
  RequestsExecuted
  SnapshotSettles
  ClosingEnds
CHECK_DEADLOCK FALSE
