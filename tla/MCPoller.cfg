SPECIFICATION FairSpec
CONSTANTS
  c1 = c1
  c2 = c2
  r1 = r1
  r2 = r2
  r3 = r3
  Clients <- OneClient
  Rows <- ThreeRows
  MaxTime = 2
  QueryFails = TRUE
INVARIANTS
  NothingSkipped
  NothingOld
PROPERTIES
  Delivered
  NoGoroutineLeaks
CHECK_DEADLOCK FALSE
