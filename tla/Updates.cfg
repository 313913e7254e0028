CONSTANTS
  p1 = p1
  p2 = p2
  p3 = p3
  manifest = manifest
  a = a
  b = b
  x = x
  y = y
  Processes <- Pair
  Jobs <- RaceJobs
  Want <- RaceWant
  Prep <- SameVersion
  Derived <- SameVersion
  Newest <- Pair
  Files = {manifest, a, b}
  Manifest = manifest
  Profiles = {x, y}
  CacheLimit = 4
  Window = 2
  MaxVersion = 2
  MaxCalls = 3
  MaxStops = 0
SPECIFICATION Spec
INVARIANTS
  PublishedSourceExisted
  RecordedRevisionIsPublished
  SetupsAreFresh
PROPERTIES
  PublishedAsRequested
  RequestsOnlyGrow
