SPECIFICATION Spec
CONSTANTS
  Null = Null
  Node <- ChainNode
  Kind <- ChainKind
  Parent <- ChainParent
  Continuation <- ChainContinuation
  OnAny = {}
  Handlers = 1
  MaxCommands = 0
  RowsFail = FALSE
INVARIANTS
  ContinuationsWait
