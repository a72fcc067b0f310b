SPECIFICATION FairSpec
CONSTANTS
  j1 = j1
  j2 = j2
  w1 = w1
  w2 = w2
  Null = Null
  Job = {j1}
  Worker = {w1, w2}
  NoRestart = {j1}
  Mortal = {w2}
  MaxClaims = 2
  MaxRequeues = 1
  Timely = FALSE
  PromptHandlers = FALSE
  DbFailures = TRUE
INVARIANTS
  TypeOK
  ProcessingIsRecoverable
  ExecutionsAuthorised
PROPERTIES
  ProcessingEnds
  QueuedIsTaken
CHECK_DEADLOCK FALSE
