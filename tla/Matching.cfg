CONSTANTS
  a = a
  b = b
  c = c
  t1 = t1
  t2 = t2
  next = next
  settle = settle
  again = again
  first = first
  second = second
  third = third
  Participants <- Everyone
  Tables <- MatchingTables
  Threads <- TwoThreads
  Requests <- AllRequests
  Kind <- RequestKind
  Id <- CommandId
  Subject <- CommandSubject
  Actions = 1
  MaxValue = 1
  MaxRound = 2
  MaxRevision = 3
  MaxCondition = 2
CHECK_DEADLOCK FALSE
SPECIFICATION Spec
INVARIANTS
  MatchingRequestsRecover

