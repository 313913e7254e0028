CONSTANTS
  a1 = a1
  a2 = a2
  old = old
  new = new
  Actors <- PairActors
  Processes <- PairProcesses
  ProcessOf <- PairProcessOf
  Version <- PairVersion
  Workload <- SeedWorkload
  Starts <- SeedStarts
  MaxMappedReaders = 1
  MaxRevision = 1
  MaxContent = 2
  MaxSaved = 1
SPECIFICATION Spec
INVARIANTS
  SessionsAreCurrent
  SnapshotsAreCurrent
PROPERTIES
  UpgradesAreBackedUp
  ImplementsStore
