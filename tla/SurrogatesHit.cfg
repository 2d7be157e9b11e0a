SPECIFICATION Spec
CONSTANTS
  ka = ka
  kb = kb
  kc = kc
  ca = ca
  cb = cb
  l1 = l1
  l2 = l2
  p1 = p1
  NoKey = nokey
  NoLoc = noloc
  NoOutput = nooutput
  NaN = nan
  NotCached = notcached
  w1 = w1
  w2 = w2
  Worker = {w1, w2}
  Input <- MCInput
  Key = {ka, kb, kc}
  CoarseKey = {ca, cb}
  KeyOf <- MCKeyOf
  Coarse <- MCCoarse
  Loc = {l1, l2}
  Probe <- MCProbe
  PHTLoc = {p1}
  PHTProbe <- MCPHTProbe
  Pqc <- MCPqc
  Reacting = {10, 11, 20, 21, 30}
  FillSkips = {21}
  PreDrops = {}
  PostRejects = FALSE
  UseDHT = TRUE
  Modes = {TRUE}
  MinEntries = 2
  BucketEntries = 2
  Packages <- Mixed
  MaxPackages = 1
  MaxIterations = 3
INVARIANT
  HitsComputed
