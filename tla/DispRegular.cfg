SPECIFICATION FairSpec
CONSTANTS
  j1 = j1
  j2 = j2
  w1 = w1
  w2 = w2
  g1 = g1
  g2 = g2
  Null = Null
  Job = {j1, j2}
  Worker = {w1, w2}
  Group = {g1}
  GroupOf <- OneServer
  Mortal = {g1}
  BatchSize = 2
  MaxClaims = 2
  LongHandlers = FALSE
  DbFailures = TRUE
INVARIANTS
  HeldOnce
  NothingIsLost
  StatsAgree
PROPERTIES
  ShutdownEnds
  ProcessingEnds
CHECK_DEADLOCK FALSE
