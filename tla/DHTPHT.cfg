SPECIFICATION FairSpec
CONSTANTS
  a = a
  b = b
  c = c
  NoKey = nokey
  Absent = absent
  Reject = reject
  NoData <- NoLocations
  HashOf <- OneWindow
  CommSize = 2
  TableSize = 2
  IndexCount <- MCIndexCount
  Key <- MCKey
  Data <- PHTData
  Input <- PHTInput
  Merge <- PHTMerge
  Dest <- MCDest
  Probe <- MCProbe
  Kinds = {"read", "accumulate", "location"}
  OwnFactor = TRUE
  Snapshots = TRUE
  MaxCalls = 1
  MaxWrites = 2
INVARIANTS
  NoCallDuringFlush
PROPERTIES
  ImplementsCache
  CallsReturn
  IterationEnds
