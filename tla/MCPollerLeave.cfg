SPECIFICATION Spec
CONSTANTS
  c1 = c1
  c2 = c2
  r1 = r1
  r2 = r2
  r3 = r3
  Clients <- TwoClients
  Rows <- OneRow
  MaxTime = 1
  QueryFails = FALSE
INVARIANT ServerSurvives
CHECK_DEADLOCK FALSE
