CONSTANTS
  s1 = s1
  s2 = s2
  Servers = {s1, s2}
  NoServer = NoServer
  Unsteady = {s1}
  MaxLate = 1
  MaxFaults = 1
SPECIFICATION FairSpec
INVARIANTS
  OneRuns
PROPERTIES
  ConfirmedLossIsHeard
  ServiceKeepsRunning
\* A cluster whose only server was shut down does nothing more.
CHECK_DEADLOCK FALSE
