\* No failures and no second session: the hub alone is to keep up.
CONSTANTS
  Slots <- OneSlot
  Conns = {1}
  MaxLoads = 1
  MaxPolls = 2
  MaxTotals = 1
  MaxFaults = 0
  MaxExpiries = 0
SPECIFICATION Spec
PROPERTY StatsCatchUpLive
CHECK_DEADLOCK FALSE
