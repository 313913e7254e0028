CONSTANTS
  r1 = r1
  r2 = r2
  r3 = r3
  w1 = w1
  w2 = w2
  bge = bge
  gemma = gemma
  Requests <- ServiceRequests
  Profiles <- ServiceProfiles
  ProfileOf <- ServiceProfileOf
  MaxRevision = 2
  Kind <- ServiceKind
  Workers <- ServiceWorkers
  Permits = 2
  QueueCapacity = 2
SYMMETRY Same
CHECK_DEADLOCK FALSE
SPECIFICATION Spec
INVARIANTS
  QueueNeverRefuses
  PagesAreCoherent
  WritesUseCurrentReference
  AbandonmentIsForReads
