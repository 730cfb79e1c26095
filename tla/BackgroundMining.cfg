SPECIFICATION FairSpec
CONSTANTS
  first = first
  main = main
  other = other
  alice = alice
  bob = bob
  none = none
  Works <- OneWork
  NoWork = none
  Endpoints <- TwoEndpoints
  NoEndpoint = none
  Identities <- TwoIdentities
  NoIdentity = none
  MaxNonce = 2
  MaxElapsed = 2
  MaxWire = 1
  WorkTicks = 2
  RecheckTicks = 2
  RetryTicks = 1
INVARIANTS
  WorkOfSession
  NoncesInOrder
  MinesAsConfigured
PROPERTIES
  OpensRegistered
  RegistrationRechecked
  SearchRepeats
CHECK_DEADLOCK FALSE
