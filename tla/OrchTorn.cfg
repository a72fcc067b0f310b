SPECIFICATION Spec
CONSTANTS
  Null = Null
  Node <- TornNode
  Kind <- TornKind
  Parent <- TornParent
  Continuation <- TornContinuation
  OnAny = {}
  Handlers = 1
  MaxCommands = 0
  RowsFail = FALSE
INVARIANTS
  BatchMovesAsOne
