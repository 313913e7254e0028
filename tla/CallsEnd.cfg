CONSTANTS
  r1 = r1
  r2 = r2
  r3 = r3
  w1 = w1
  w2 = w2
  bge = bge
  gemma = gemma
  Requests <- ServiceRequests
  Profiles <- ServiceProfiles
  ProfileOf <- ServiceProfileOf
  MaxRevision = 1
  Kind <- ServiceKind
  Workers <- OneWorker
  Permits = 2
  QueueCapacity = 1
CHECK_DEADLOCK FALSE
SPECIFICATION FairSpec
PROPERTIES
  TasksEnd
