CONSTANTS
  a1 = a1
  a2 = a2
  old = old
  new = new
  Actors <- PairActors
  Processes <- OneProcess
  ProcessOf <- OneProcessOf
  Version <- OneVersion
  Workload <- EveryWorkload
  Starts <- EveryStart
  MaxMappedReaders = 1
  MaxRevision = 1
  MaxContent = 1
  MaxSaved = 1
SPECIFICATION FairSpec
INVARIANTS
  MappingsWithinBudget
PROPERTIES
  CallsReturn
