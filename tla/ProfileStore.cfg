SPECIFICATION Spec
CONSTANTS
  a = a
  ab = ab
  worker = worker
  command = command
  Names <- TwoNames
  Beginning <- Beginnings
  Workers <- TwoWorkers
  Default = Default
  NoFile = NoFile
  Empty = Empty
  Torn = Torn
  None = None
  MaxKeys = 2
SYMMETRY Alike
INVARIANTS
  KeysKept
  SuccessIsServed
