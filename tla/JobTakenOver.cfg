SPECIFICATION Spec
CONSTANTS
  j1 = j1
  j2 = j2
  w1 = w1
  w2 = w2
  Null = Null
  Job = {j1}
  Worker = {w1, w2}
  NoRestart = {}
  Mortal = {}
  MaxClaims = 3
  MaxRequeues = 2
  Timely = FALSE
  PromptHandlers = TRUE
  DbFailures = FALSE
SYMMETRY WorkerIdentities
INVARIANTS
  ClaimIsExclusive
CHECK_DEADLOCK FALSE
