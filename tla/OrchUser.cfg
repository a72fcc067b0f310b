SPECIFICATION FairSpec
CONSTANTS
  Null = Null
  Node <- SmallNode
  Kind <- SmallKind
  Parent <- SmallParent
  Continuation <- SmallContinuation
  OnAny = {}
  Handlers = 1
  MaxCommands = 2
  RowsFail = TRUE
PROPERTIES
  AwaitingEnds
  ParentEnds
