CONSTANTS
  a1 = a1
  a2 = a2
  old = old
  new = new
  Actors <- PairActors
  Processes <- PairProcesses
  ProcessOf <- PairProcessOf
  Version <- PeerVersion
  Workload <- PairWorkload
  Starts <- PairStarts
  MaxMappedReaders = 1
  MaxRevision = 1
  MaxContent = 2
  MaxSaved = 2
SPECIFICATION Spec
INVARIANTS
  TypeOK
  ExclusiveMeansAlone
  NothingPartialIsOpen
  NoEditIsLost
PROPERTIES
  RevisionNamesReference
  OwnerAloneUpdates
  ImplementsStore
