CONSTANTS
  Rows <- AllRows
  Batches = {1, 2}
  Parent <- Parents
  Entry = {1}
  First <- Beginnings
  StateItems <- States
  PageSize = 1
  MaxFlight = 2
  Pages = 2
  MaxResourceMoves = 2
  Servers = {"s", "t"}
  None = "none"
  Entries <- LogEntries
  Filters <- LogFilters
  Limit = 1
  Cap = 3
  MaxLogs = 2
  MaxVersions = 2
  MaxCommands = 1
  MaxMoves = 1
  MaxFaults = 1
SPECIFICATION PagesSpec
INVARIANTS
  RowsAreOwn
  AcknowledgedIsShown
  NewestFirstUncrossed
PROPERTIES
  PagesCatchUp
CHECK_DEADLOCK FALSE
