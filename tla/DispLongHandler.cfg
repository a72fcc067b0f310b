SPECIFICATION Spec
CONSTANTS
  j1 = j1
  j2 = j2
  w1 = w1
  w2 = w2
  g1 = g1
  g2 = g2
  Null = Null
  Job = {j1, j2}
  Worker = {w1, w2}
  Group = {g1}
  GroupOf <- OneServer
  Mortal = {}
  BatchSize = 2
  MaxClaims = 2
  LongHandlers = TRUE
  DbFailures = FALSE
SYMMETRY Jobs
INVARIANTS
  HeldOnce
CHECK_DEADLOCK FALSE
