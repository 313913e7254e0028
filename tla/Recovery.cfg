CONSTANTS
  p1 = p1
  p2 = p2
  p3 = p3
  manifest = manifest
  a = a
  b = b
  x = x
  y = y
  Processes <- Executables
  Jobs <- UpgradeJobs
  Want <- UpgradeWant
  Prep <- Preparations
  Derived <- Projections
  Newest = {p3}
  Files = {manifest, a}
  Manifest = manifest
  Profiles = {x, y}
  CacheLimit = 1
  Window = 1
  MaxVersion = 1
  MaxCalls = 3
  MaxStops = 1
SPECIFICATION FairSpec
INVARIANTS
  CacheAccounted
PROPERTIES
  ReferencesDoNotGoBack
  MarkersAreCleared
