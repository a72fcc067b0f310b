-------------------------- MODULE MCBulkCommands --------------------------
(* Small tables for BulkCommands.                                          *)
EXTENDS BulkCommands, TLC

CONSTANTS c1, c2

Callers == Permutations(Caller)

\* A batch and its two jobs.
BatchJob == 1..3
BatchParent == [j \in BatchJob |-> IF j = 3 THEN Null ELSE 3]

============================================================================
