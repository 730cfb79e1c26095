SPECIFICATION FairSpec
CONSTANTS
  chainA = chainA
  chainB = chainB
  none = none
  ctrlC = ctrlC
  Chains <- TwoChains
  NoChain = none
  Stoppers <- OneStopper
  MaxTip = 1
  RefreshTicks = 3
  ReconnectTicks = 2
  RootRetryTicks = 2
  PeerTicks = 3
  ReloadTicks = 1
INVARIANTS
  ExitReleasesAll
  PeerCurrentReal
PROPERTIES
  ImplementsChannel
  StopHonoured
  ReconnectTried
  PeersNeverStarve
CHECK_DEADLOCK FALSE
