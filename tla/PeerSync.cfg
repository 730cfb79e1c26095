SPECIFICATION FairSpec
CONSTANTS
  Block <- Blocks8
  NoBlock = noblock
  Histories <- TreeHistories
  Work <- TreeWork
  FrameBlocks = 1
  MaxBlocks = 2
  HeadersMax = 2
  MaxFaults = 2
INVARIANT StageAccounted
INVARIANT OfferExact
PROPERTY Synced
