SPECIFICATION HttpFairSpec
CONSTANTS
  Tables = {t1, t2}
  Uris = {u1, u2}
  Refs = {r1, r2, r3}
  NotString = NotString
  NotTable = NotTable
  NoTable = NoTable
INVARIANTS
  RefsAccounted
  OwnPage
PROPERTIES
  ImplementsHttpRequests
  RequestServed
CHECK_DEADLOCK FALSE
