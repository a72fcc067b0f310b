SPECIFICATION Spec
CONSTANTS
  Null = Null
  c1 = c1
  c2 = c2
  Caller = {c1, c2}
  Job <- BatchJob
  Parent <- BatchParent
  Batch = {3}
  ChunkSize = 2
  MaxRuns = 1
SYMMETRY Callers
INVARIANTS
  NoLogForLoser
CHECK_DEADLOCK FALSE
