SPECIFICATION Spec
CONSTANTS
  Base = 5
  W16 = 2
  W32 = 2
  W64 = 3
  IdSize = 1
  WorkSize = 1
  Version = 1
  BlockHeaderSize = 1
  BlockMax = 9
  StncMagic <- MCStncMagic
  StnpMagic <- MCStnpMagic
  Method <- MCMethod
  SourceMax = 2
  IdentityLen = 2
  TypedLen = 3
  IdentityMark = 1
  ContractMark = 2
  WalletMark = 3
  TransactionMin = 1
  TransactionMax = 2
  ParticipantsMax = 3
  TermsMax = 5
  HeaderWire = 1
  HeadersMax = 3
  PeersMax = 2
  ContractsMax = 2
  IpSize = 1
  HexDigits = {0, 1}
  Calls <- MCCalls
  Capacities <- MCCapacities
  Answers <- MCAnswers
  Alterations = {0, 1, 4}
INVARIANTS TypeOK Unambiguous AcceptsOnlyWritten AcceptsWritten
