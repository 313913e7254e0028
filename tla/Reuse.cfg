CONSTANTS
  c1 = c1
  c2 = c2
  r1 = r1
  r2 = r2
  r3 = r3
  r4 = r4
  r5 = r5
  r6 = r6
  k1 = k1
  k2 = k2
  k3 = k3
  k4 = k4
  k5 = k5
  Callers <- ReuseCallers
  Requests <- ReuseRequests
  Hash <- ReuseHash
  Charges <- ReuseCharges
  Scoped = {r6}
  Unkeyable = {r4}
  Oversized = {r5}
  MaxEntries = 2
  Base = 1
  ChargeBytes = 2
  Limit = 9
  MaxRevision = 2
SYMMETRY Same
SPECIFICATION Spec
INVARIANTS
  AnswersAreExact
  NothingRetiredIsReady
  BudgetCoversAll
  OneEntryPerKey
PROPERTIES
  EpochAdvances
