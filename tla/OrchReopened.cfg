SPECIFICATION Spec
CONSTANTS
  Null = Null
  Node <- PairNode
  Kind <- PairKind
  Parent <- PairParent
  Continuation <- PairContinuation
  OnAny = {}
  Handlers = 1
  MaxCommands = 1
  RowsFail = FALSE
INVARIANTS
  FinishedBatchIsOver
