\* Every reply header, two Chain services.
CONSTANTS
  c1 = c1
  c2 = c2
  Chains = {c1, c2}
  NoChain = NoChain
  Shapes <- AnyReply
  MaxTip = 1
SPECIFICATION FairSpec
INVARIANTS
  OwnAnswer
  LockFollowsExchange
PROPERTIES
  CallReturns
  ContaminationRetired
  ImplementsChannel
