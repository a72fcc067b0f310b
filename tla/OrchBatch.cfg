SPECIFICATION Spec
CONSTANTS
  Null = Null
  Node <- TwoNode
  Kind <- TwoKind
  Parent <- TwoParent
  Continuation <- TwoContinuation
  OnAny = {"d"}
  Handlers = 1
  MaxCommands = 0
  RowsFail = TRUE
INVARIANTS
  ContinuationsWait
  VerdictFitsMembers
  BatchMovesAsOne
