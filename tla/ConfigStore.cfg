SPECIFICATION FairSpec
CONSTANTS
  runtime = runtime
  command = command
  automatic = automatic
  custom = custom
  builtin = builtin
  Process <- Two
  Core <- OneCore
  Network <- BothNetworks
  Backend <- OneBackend
  DefaultNetwork = builtin
  DefaultBackend = automatic
  InitialFiles <- OperatorsOrNone
  MaxFaults = 1
INVARIANTS
  NeverTorn
PROPERTIES
  SavedMeansStored
  FailureChangesNothing
  StoredIsApplied
CHECK_DEADLOCK FALSE
