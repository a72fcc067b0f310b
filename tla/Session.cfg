CONSTANTS
  Slots <- SharedSlot
  Conns = {1, 2}
  MaxLoads = 2
  MaxPolls = 2
  MaxTotals = 1
  MaxFaults = 1
  MaxExpiries = 1
SPECIFICATION Spec
INVARIANTS FeedFits MountedOnce
PROPERTIES StatsCatchUp
\* A connected tab with nothing to fetch waits for the world.
CHECK_DEADLOCK FALSE
