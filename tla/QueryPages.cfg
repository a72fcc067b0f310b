CONSTANTS
  NoId = NoId
  NoTrace = NoTrace
  MaxJobs = 4
  Id <- Ids
  Trace <- Traces
  Jobs <- AllJobs
  TypeOf <- Types
  First <- Beginnings
  Tabs = {"failed", "enqueued"}
  NamesOf <- RowNames
  Values = {1, 2}
  Windows = {1}
  Sizes = {1, 2}
  MaxVersions = 2
  MaxCommands = 1
  MaxMoves = 2
  MaxFaults = 1
SPECIFICATION PagesSpec
INVARIANTS
  EdgesJoinNodes
  ArrowsRunRight
  PictureIsWhole
  SettledIsFresh
  SelectionWasShown
  AcknowledgedIsShown
PROPERTIES
  PageCatchesUp
CHECK_DEADLOCK FALSE
