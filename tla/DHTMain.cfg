SPECIFICATION FileSpec
CONSTANTS
  a = a
  b = b
  c = c
  NoKey = nokey
  Absent = absent
  Reject = reject
  NoData = "zeros"
  HashOf <- OneWindow
  CommSize = 2
  TableSize = 2
  IndexCount <- MCIndexCount
  Key <- MCKey
  Data <- MainData
  Input <- MainInput
  Merge <- MainMerge
  Dest <- MCDest
  Probe <- MCProbe
  Kinds = {"read", "write", "location"}
  OwnFactor = FALSE
  Snapshots = TRUE
  MaxCalls = 1
  MaxWrites = 2
  Given <- MCGiven
INVARIANTS
  TypeOK
  ProbeChain
  NoDuplicateKey
  DumpComplete
  Restored
PROPERTIES
  ImplementsCache
