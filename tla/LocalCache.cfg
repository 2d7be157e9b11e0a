SPECIFICATION Spec
CONSTANTS
  Keys = {k1, k2, k3, k4, k5}
  Sizes = {2, 5}
  MAX_CACHE_SIZE = 6
INVARIANTS
  TypeOK
  Consistent
  RecentKept
  EntriesBounded
