CONSTANTS
  a = a
  b = b
  c = c
  t1 = t1
  t2 = t2
  next = next
  settle = settle
  again = again
  first = first
  second = second
  third = third
  Participants <- Everyone
  Tables <- SettleTables
  Threads <- OneThread
  Requests <- AllRequests
  Kind <- RequestKind
  Id <- SettleId
  Subject <- SettleSubject
  Actions = 1
  MaxValue = 2
  MaxRound = 2
  MaxRevision = 7
  MaxCondition = 2
CHECK_DEADLOCK FALSE
SPECIFICATION Spec
INVARIANTS
  BoundariesSettleOnce
PROPERTIES
  RemindersAreCurrent
  RoundsAreFair
