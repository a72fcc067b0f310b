-------------------------- MODULE MCOrchestration --------------------------
(* Small forests for Orchestration.                                        *)
EXTENDS Orchestration

\* A batch of two jobs and the plain job that waits for it; a batch of one job, whose
\* continuations also run when it fails, and the batch that waits for it; a message with
\* one handler.
TwoNode == {"b", "b1", "b2", "q", "d", "d1", "c", "c1", "m", "m1"}
TwoKind == [n \in TwoNode |->
  CASE n \in {"b", "c", "d"} -> "Batch" [] n = "m" -> "Message" [] OTHER -> "Job"]
TwoParent == [n \in TwoNode |->
  CASE n \in {"b1", "b2", "q"} -> "b" [] n \in {"d1", "c"} -> "d" [] n = "c1" -> "c"
    [] n = "m1" -> "m" [] OTHER -> Null]
TwoContinuation == {"q", "c"}

\* A plain job, and the plain job and the batch that wait for it.
SmallNode == {"p", "q", "c", "c1"}
SmallKind == [n \in SmallNode |-> IF n = "c" THEN "Batch" ELSE "Job"]
SmallParent == [n \in SmallNode |->
  CASE n \in {"q", "c"} -> "p" [] n = "c1" -> "c" [] OTHER -> Null]
SmallContinuation == {"q", "c"}

\* A batch of two jobs.
PairNode == {"b", "b1", "b2"}
PairKind == [n \in PairNode |-> IF n = "b" THEN "Batch" ELSE "Job"]
PairParent == [n \in PairNode |-> IF n = "b" THEN Null ELSE "b"]
PairContinuation == {}

\* A plain job, a batch that waits for it, a plain job that waits for the batch.
ChainNode == {"p", "c", "c1", "q"}
ChainKind == [n \in ChainNode |-> IF n = "c" THEN "Batch" ELSE "Job"]
ChainParent == [n \in ChainNode |->
  CASE n = "c" -> "p" [] n \in {"c1", "q"} -> "c" [] OTHER -> Null]
ChainContinuation == {"c", "q"}

\* A plain job, a batch that waits for it, a batch that waits for the batch.
TornNode == {"p", "c", "c1", "e", "e1"}
TornKind == [n \in TornNode |-> IF n \in {"c", "e"} THEN "Batch" ELSE "Job"]
TornParent == [n \in TornNode |->
  CASE n = "c" -> "p" [] n \in {"c1", "e"} -> "c" [] n = "e1" -> "e" [] OTHER -> Null]
TornContinuation == {"c", "e"}

============================================================================
