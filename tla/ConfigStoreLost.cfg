SPECIFICATION ConfigSpec
CONSTANTS
  runtime = runtime
  command = command
  automatic = automatic
  custom = custom
  builtin = builtin
  Process <- OneCore
  Core <- OneCore
  Network <- BothNetworks
  Backend <- OneBackend
  DefaultNetwork = builtin
  DefaultBackend = automatic
  InitialFiles <- Operators
  MaxFaults = 1
INVARIANTS
  NetworkKept
CHECK_DEADLOCK FALSE
