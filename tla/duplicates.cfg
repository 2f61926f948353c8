SPECIFICATION Spec
CONSTANTS
  hash = hash
  url = url
  none = none
  x = x
  y = y
  s1 = s1
  s2 = s2
  k1 = k1
  web = web
  wiki = wiki
  near = near
  MaxDoc = 4
  Methods = {hash, url}
  NoKey = none
  KeyOf <- Keys
  Near <- OnePair
  Family <- OnePage
  Connector <- Sources
  Scopes <- Overlapping
  Scanners = {s1}
  Committers = {k1}
  AutoBand = {hash, url}
  NearSignal = near
  Guarded = TRUE
  PageSize = 1
  MaxScans = 2
  MaxEdits = 1
INVARIANTS TypeOK SpareHasABetter ClusterHasKeeper
PROPERTIES LastCopyKept
CHECK_DEADLOCK FALSE
