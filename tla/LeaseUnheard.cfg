CONSTANTS
  s1 = s1
  s2 = s2
  Servers = {s1, s2}
  NoServer = NoServer
  Unsteady = {s1}
  MaxLate = 1
  MaxFaults = 0
SPECIFICATION FairSpec
PROPERTY LossIsHeard
CHECK_DEADLOCK FALSE
