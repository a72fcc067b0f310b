CONSTANTS
  Entries <- MCEntries
  Filters <- MCFilters
  Limit = 2
  Cap = 4
  MaxLogs = 2
  MaxMoves = 1
  MaxFaults = 1
SPECIFICATION Spec
INVARIANT NewestFirst
CHECK_DEADLOCK FALSE
