SPECIFICATION Spec
CONSTANTS
  j1 = j1
  j2 = j2
  w1 = w1
  w2 = w2
  Null = Null
  Job = {j1}
  Worker = {w1, w2}
  NoRestart = {}
  Mortal = {}
  MaxClaims = 2
  MaxRequeues = 1
  Timely = TRUE
  PromptHandlers = TRUE
  DbFailures = FALSE
PROPERTIES
  OnlyRetainedRowsPurged
CHECK_DEADLOCK FALSE
