---------------------------- MODULE MCTraceGraph ----------------------------
(* Small instances of TraceGraph: the traces of MaxJobs jobs that the       *)
(* publisher can write, jobs numbered by their creation; a job related to  *)
(* no other stands for one that is not there.                              *)
EXTENDS TraceGraph, Sequences

CONSTANT MaxJobs

\* 0 is a parent in another trace, or one whose row retention has removed.  (A spawner that is
\* not in the trace is treated as none is.)
Ids == 0..MaxJobs

\* What the publisher writes for job j.  Only a running job spawns others, and a message has
\* no parent.
Legal(j, kind, parent, spawnedBy) ==
  /\ parent \in {NoId} \cup 0..(j - 1) /\ spawnedBy \in {NoId} \cup 1..(j - 1)
  /\ spawnedBy # NoId => kind[spawnedBy] = "Job"
  /\ kind[j] = "Message" => parent = NoId

Some == {NoId} \cup Ids
TracesOf[n \in 0..MaxJobs] ==
  IF n = 0 THEN {[jobs |-> {}, kind |-> <<>>, parent |-> <<>>, spawnedBy |-> <<>>]}
  ELSE {[jobs |-> 1..n, kind |-> Append(x[1].kind, x[2]), parent |-> Append(x[1].parent, x[3]),
         spawnedBy |-> Append(x[1].spawnedBy, x[4])] :
          x \in {y \in TracesOf[n - 1] \X Kind \X Some \X Some :
                   Legal(n, Append(y[1].kind, y[2]), y[3], y[4])}}

Traces == TracesOf[MaxJobs]
=============================================================================
