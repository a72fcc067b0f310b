------------------------ MODULE Orchestration_proofs ------------------------
(***************************************************************************)
(* For any forest in which Separate holds, any number of handlers and any  *)
(* failures, as long as users give no commands: what a pass reads in one   *)
(* statement still holds when a later one writes on it and when the writes *)
(* are committed.                                                          *)
(*                                                                         *)
(* The invariant says of the committed rows that groups and their jobs fit *)
(* (Rows), and of the pass that each thing it has selected or written is   *)
(* about rows no other step moves (Pass): parents whose jobs have ended,   *)
(* and rows that wait.  Publishers, the router and workers therefore keep  *)
(* it (Kept), and a commit carries it from what the pass sees to the rows. *)
(*                                                                         *)
(* Separate excludes the two forests in which the pass takes other jobs    *)
(* for those of a batch: see OrchPremature.cfg and OrchTorn.cfg.           *)
(***************************************************************************)
EXTENDS Orchestration, TLAPS

\* What waits for a batch that waits itself is a batch, and that one waits for no plain job.
Separate ==
  \A c \in Continuation :
    Parent[c] \in Continuation /\ Kind[Parent[c]] = "Batch" =>
      Kind[c] = "Batch" /\ Kind[Parent[Parent[c]]] # "Job"

-------------------------------------------------------------------------------
(* The invariant: committed rows.                                          *)

Quiet == commands = 0 /\ requeuing = Null

\* Which states a row of each kind has.
Kinds ==
  \A n \in Node :
    /\ worked[n] => Kind[n] = "Job" /\ state[n] = "Processing"
    /\ Kind[n] = "Batch" =>
         /\ state[n] \in {"Absent", "Awaiting", "Processing", "Completed", "Failed"}
         /\ state[n] = "Awaiting" => n \in Continuation
    /\ Kind[n] = "Message" =>
         state[n] \in {"Absent", "Enqueued", "Processing", "Completed", "Failed"}

\* A batch is published and activated, or failed, with its jobs.
Together ==
  \A b \in Node : Kind[b] = "Batch" =>
    \A c \in Members(b) : /\ state[b] = "Absent" <=> state[c] = "Absent"
                          /\ state[b] = "Awaiting" <=> state[c] = "Awaiting"

\* The jobs of a message are there once it is routed, and never wait.
Routed ==
  \A m \in Node : Kind[m] = "Message" =>
    \A c \in Members(m) : /\ state[m] \in {"Absent", "Enqueued"} => state[c] = "Absent"
                          /\ state[c] # "Awaiting"

\* The verdict s on p fits its committed jobs.
Fits(p, s) ==
  /\ s = "Completed" => \A c \in Members(p) :
       state[c] \in {"Absent", "Completed"} \cup (IF p \in OnAny THEN {"Failed"} ELSE {})
  /\ s = "Failed" =>
       \/ /\ \A c \in Members(p) : state[c] \in {"Absent", "Completed", "Failed"}
          /\ \E c \in Members(p) : state[c] = "Failed"
          /\ p \notin OnAny \/ p \in Continuation
       \/ Kind[p] = "Message" /\ \A c \in Members(p) : state[c] = "Absent"
Judged == \A p \in Node : Kind[p] # "Job" => Fits(p, state[p])

\* A continuation that left Awaiting was let run, or failed with a deleted parent.
Released ==
  \A c \in Continuation :
    \/ state[c] \in {"Absent", "Awaiting"}
    \/ Satisfied(Parent[c])
    \/ state[c] = "Failed" /\ state[Parent[c]] = "Deleted"

Rows == Kinds /\ Together /\ Routed /\ Judged /\ Released

(* The invariant: the pass.                                                *)

\* A parent selected is running, and its jobs have ended.
Over(p) ==
  /\ Kind[p] # "Job" /\ state[p] = "Processing"
  /\ \A c \in Members(p) : state[c] \in {"Absent", "Completed", "Failed"}

Judging ==
  /\ pass \notin {"selected", "judged"} => ready = {}
  /\ pass # "judged" => failing = {}
  /\ \A p \in ready : Over(p)
  /\ pass = "judged" => \A p \in ready : p \in failing <=> \E c \in Members(p) : state[c] = "Failed"

Waits ==
  /\ pass \notin {"activating", "failing"} => waiting = {}
  /\ pass = "activating" => \A c \in waiting :
       c \in Continuation /\ state[c] = "Awaiting" /\ LetsRun(Parent[c])
  /\ pass = "failing" => \A c \in waiting : c \in orphaned /\ Kind[c] = "Batch"

\* The batch between its two updates.
Opening ==
  /\ pass # "activating" => opened = Null
  /\ opened # Null => /\ opened \in Continuation /\ Kind[opened] = "Batch"
                      /\ state[opened] = "Awaiting" /\ held[opened] = "Processing"

Orphans ==
  /\ pass # "failing" => orphaned = {}
  /\ \A c \in orphaned :
       /\ c \in Continuation /\ held[c] = Unwritten /\ state[c] = "Awaiting"
       /\ state[Parent[c]] = "Deleted"
  /\ \A c \in orphaned \ waiting : Kind[c] = "Batch" => \A x \in Members(c) : held[x] = "Failed"

\* What the pass writes: a verdict, a continuation let run, a job of a batch let run, a
\* job of an orphaned batch.
IsVerdict(n) ==
  /\ Kind[n] # "Job" /\ state[n] = "Processing"
  /\ held[n] \in {"Completed", "Failed"} /\ Fits(n, held[n])
IsRelease(n) ==
  /\ n \in Continuation /\ state[n] = "Awaiting" /\ LetsRun(Parent[n])
  /\ held[n] = IF Kind[n] = "Batch" THEN "Processing" ELSE "Enqueued"
IsMember(n) ==
  /\ n \notin Continuation /\ state[n] = "Awaiting" /\ held[n] = "Enqueued"
  /\ Parent[n] # Null /\ Kind[Parent[n]] = "Batch" /\ held[Parent[n]] = "Processing"
IsFailed(n) ==
  /\ n \notin Continuation /\ state[n] = "Awaiting" /\ held[n] = "Failed"
  /\ Parent[n] \in orphaned /\ Kind[Parent[n]] = "Batch"
IsWrite(n) == IsVerdict(n) \/ IsRelease(n) \/ IsMember(n) \/ IsFailed(n)
Writes ==
  /\ pass \in {"idle", "selected", "judged"} => \A n \in Node : held[n] = Unwritten
  /\ \A n \in Node : held[n] = Unwritten \/ IsWrite(n)
  /\ \A b \in Node \ {opened} : Kind[b] = "Batch" /\ held[b] = "Processing" =>
       \A c \in Members(b) : held[c] = "Enqueued"

Pass == Judging /\ Waits /\ Opening /\ Orphans /\ Writes

OrchInv == TypeOK /\ Quiet /\ Rows /\ Pass

-------------------------------------------------------------------------------
(* The forest.                                                             *)

LEMMA MembersAreJobs ==
  ASSUME NEW p \in Node, NEW c \in Members(p)
  PROVE  /\ c \in Node /\ Parent[c] = p /\ c \notin Continuation
         /\ Kind[c] = "Job" /\ Kind[p] # "Job" /\ c # p
BY TreeAssumption, NullAssumption DEF Members

LEMMA ContinuationsHaveParents ==
  ASSUME NEW c \in Continuation
  PROVE  c \in Node /\ Parent[c] \in Node /\ Kind[c] # "Message"
BY TreeAssumption

LEMMA KindsAre == ASSUME NEW n \in Node PROVE Kind[n] \in {"Job", "Message", "Batch"}
BY TreeAssumption

\* Under Separate, what a batch that waits counts as its children are its members.
LEMMA ChildrenOfWaiting ==
  ASSUME Separate, NEW b \in Continuation, Kind[b] = "Batch"
  PROVE  JobChildren(b) = Members(b)
<1>1. b \in Node BY ContinuationsHaveParents
<1>2. ASSUME NEW c \in JobChildren(b) PROVE c \in Members(b)
  BY <1>2, KindsAre DEF JobChildren, Members, Separate
<1>3. ASSUME NEW c \in Members(b) PROVE c \in JobChildren(b)
  BY <1>1, <1>3, MembersAreJobs DEF JobChildren
<1> QED BY <1>2, <1>3

-------------------------------------------------------------------------------
(* Types.                                                                  *)

LEMMA InitTyped == Init => TypeOK
<1> SUFFICES ASSUME Init PROVE TypeOK OBVIOUS
<1>1. worked \in [Node -> BOOLEAN] BY DEF Init
<1>2. 0 \in 0..MaxCommands BY BoundAssumption
<1> QED BY <1>1, <1>2 DEF Init, TypeOK, RowState

LEMMA CloseTyped ==
  ASSUME Close
  PROVE  /\ pass' \in {"idle", "selected", "judged", "finalized", "activating", "failing"}
         /\ ready' \subseteq Node /\ failing' \subseteq ready'
         /\ waiting' \subseteq Node /\ opened' \in Node \cup {Null} /\ orphaned' \subseteq Node
         /\ held' \in [Node -> RowState \cup {Unwritten}]
BY DEF Close

\* Failed children are known between two statements only; TypeOK is not inductive without.
Unjudged == pass # "judged" => failing = {}

LEMMA UnjudgedKept == TypeOK /\ Unjudged /\ [Next]_vars => Unjudged'
<1> SUFFICES ASSUME TypeOK, Unjudged, [Next]_vars PROVE Unjudged' OBVIOUS
<1> USE DEF orchestrator, Unjudged
<1>1. CASE UNCHANGED orchestrator BY <1>1
<1>2. CASE \E n \in Node : Publish(n) \/ Route(n) \/ Claim(n) \/ End(n)
  BY <1>1, <1>2 DEF Publish, Route, Claim, End
<1>3. CASE SelectReady \/ JudgeReady \/ WriteParents
  BY <1>3 DEF SelectReady, JudgeReady, WriteParents
<1>4. CASE SelectAwaiting \/ (\E n \in Node : Activate(n) \/ FailMembers(n)) \/ SelectOrphaned
  BY <1>4 DEF SelectAwaiting, Activate, FailMembers, SelectOrphaned
<1>5. CASE FailOrphaned \/ Rollback BY <1>5 DEF FailOrphaned, Rollback, Close
<1>6. CASE \E n \in Node : DeleteJob(n) \/ RequeueLock(n)
  BY <1>1, <1>6 DEF DeleteJob, RequeueLock
<1>7. CASE RequeueJob \/ RequeueAborted BY <1>1, <1>7 DEF RequeueJob, RequeueAborted
<1>8. CASE ActivateMembers BY <1>8 DEF ActivateMembers
<1>9. CASE UNCHANGED vars BY <1>9 DEF vars
<1> QED BY <1>2, <1>3, <1>4, <1>5, <1>6, <1>7, <1>8, <1>9 DEF Next

LEMMA StepTyped == TypeOK /\ Unjudged /\ [Next]_vars => TypeOK'
<1> SUFFICES ASSUME TypeOK, Unjudged, [Next]_vars PROVE TypeOK' OBVIOUS
<1> USE DEF rows, orchestrator
<1>1. ASSUME NEW n \in Node, Publish(n) PROVE TypeOK'
  <2>1. FirstState(n) \in RowState BY KindsAre DEF FirstState, RowState
  <2>2. state' \in [Node -> RowState] BY <1>1, <2>1 DEF Publish, TypeOK, RowState
  <2> QED BY <1>1, <2>2 DEF Publish, TypeOK
<1>2. ASSUME NEW n \in Node, Route(n) PROVE TypeOK'
  <2>1. state' \in [Node -> RowState] BY <1>2 DEF Route, TypeOK, RowState, Finished
  <2> QED BY <1>2, <2>1 DEF Route, TypeOK
<1>3. ASSUME NEW n \in Node, Claim(n) PROVE TypeOK'
  <2>1. worked' \in [Node -> BOOLEAN] BY <1>3 DEF Claim, TypeOK
  <2>2. state' \in [Node -> RowState] BY <1>3 DEF Claim, TypeOK, RowState
  <2> QED BY <1>3, <2>1, <2>2 DEF Claim, TypeOK
<1>4. ASSUME NEW n \in Node, End(n) PROVE TypeOK'
  <2>1. worked' \in [Node -> BOOLEAN] BY <1>4 DEF End, TypeOK
  <2>2. state' \in [Node -> RowState] BY <1>4 DEF End, TypeOK, RowState
  <2> QED BY <1>4, <2>1, <2>2 DEF End, TypeOK
<1>5. CASE SelectReady BY <1>5 DEF SelectReady, TypeOK, Unjudged
<1>6. CASE JudgeReady BY <1>6 DEF JudgeReady, TypeOK
<1>7. CASE WriteParents
  <2>1. \A n \in Node : Verdict(n) \in RowState BY DEF Verdict, RowState, Finished
  <2>2. held' \in [Node -> RowState \cup {Unwritten}] BY <1>7, <2>1 DEF WriteParents, TypeOK
  <2> QED BY <1>7, <2>2 DEF WriteParents, TypeOK
<1>8. CASE SelectAwaiting BY <1>8 DEF SelectAwaiting, TypeOK
<1>9. ASSUME NEW n \in Node, Activate(n) PROVE TypeOK'
  <2>1. held' \in [Node -> RowState \cup {Unwritten}] BY <1>9 DEF Activate, TypeOK, RowState
  <2> QED BY <1>9, <2>1 DEF Activate, TypeOK
<1>10. CASE SelectOrphaned BY <1>10 DEF SelectOrphaned, TypeOK
<1>11. CASE FailOrphaned
  <2>1. state' \in [Node -> RowState] BY <1>11 DEF FailOrphaned, TypeOK, Seen, RowState, Finished
  <2> QED BY <1>11, <2>1, CloseTyped DEF FailOrphaned, TypeOK
<1>12. CASE Rollback BY <1>12, CloseTyped DEF Rollback, TypeOK
<1>13. ASSUME NEW n \in Node, DeleteJob(n) PROVE TypeOK'
  <2>1. state' \in [Node -> RowState] BY <1>13 DEF DeleteJob, TypeOK, RowState, Finished
  <2>2. commands' \in 0..MaxCommands BY <1>13, BoundAssumption DEF DeleteJob, TypeOK
  <2> QED BY <1>13, <2>1, <2>2 DEF DeleteJob, TypeOK
<1>14. ASSUME NEW n \in Node, RequeueLock(n) PROVE TypeOK'
  <2>1. commands' \in 0..MaxCommands BY <1>14, BoundAssumption DEF RequeueLock, TypeOK
  <2> QED BY <1>14, <2>1 DEF RequeueLock, TypeOK
<1>15. CASE RequeueJob
  <2>1. \A p \in Node : Reopened(p) \in RowState BY DEF Reopened, TypeOK, RowState
  <2>2. state' \in [Node -> RowState] BY <1>15, <2>1 DEF RequeueJob, TypeOK, RowState
  <2> QED BY <1>15, <2>2 DEF RequeueJob, TypeOK
<1>16. CASE RequeueAborted BY <1>16 DEF RequeueAborted, TypeOK
<1>17. CASE UNCHANGED vars BY <1>17 DEF vars, TypeOK
<1>18. CASE ActivateMembers
  <2>1. held' \in [Node -> RowState \cup {Unwritten}] BY <1>18 DEF ActivateMembers, TypeOK, RowState
  <2> QED BY <1>18, <2>1 DEF ActivateMembers, TypeOK
<1>19. ASSUME NEW n \in Node, FailMembers(n) PROVE TypeOK'
  <2>1. held' \in [Node -> RowState \cup {Unwritten}] BY <1>19 DEF FailMembers, TypeOK, RowState, Finished
  <2> QED BY <1>19, <2>1 DEF FailMembers, TypeOK
<1> QED BY <1>1, <1>2, <1>3, <1>4, <1>5, <1>6, <1>7, <1>8, <1>9, <1>10, <1>11, <1>12, <1>13,
           <1>14, <1>15, <1>16, <1>17, <1>18, <1>19 DEF Next

-------------------------------------------------------------------------------
(* Steps of publishers, the router and workers.                            *)

\* What such a step leaves alone: rows that ended or wait, running parents and the jobs
\* these do not have yet.
Kept ==
  /\ \A n \in Node : state[n] \in Finished \cup {"Awaiting"} => state'[n] = state[n]
  /\ \A n \in Node : Kind[n] # "Job" /\ state[n] = "Processing" =>
       /\ state'[n] = "Processing"
       /\ \A c \in Members(n) : state[c] = "Absent" => state'[c] = "Absent"

LEMMA FitsStays ==
  ASSUME NEW p \in Node,
         \A c \in Members(p) : state[c] \in {"Absent", "Completed", "Failed"} => state'[c] = state[c]
  PROVE  \A s \in RowState : Fits(p, s) => Fits(p, s)'
BY DEF Fits, Members

\* A group's jobs and verdict, when neither moves.
LEMMA GroupStays ==
  ASSUME Rows, NEW p \in Node, Kind[p] # "Job", state'[p] = state[p],
         \A c \in Members(p) : state'[c] = state[c]
  PROVE  /\ Kind[p] = "Batch" =>
              \A c \in Members(p) : (/\ state[p] = "Absent" <=> state[c] = "Absent"
                                     /\ state[p] = "Awaiting" <=> state[c] = "Awaiting")'
         /\ Kind[p] = "Message" =>
              \A c \in Members(p) : (/\ state[p] \in {"Absent", "Enqueued"} => state[c] = "Absent"
                                     /\ state[c] # "Awaiting")'
         /\ Fits(p, state[p])'
<1>1. Fits(p, state[p])'
  <2>1. Fits(p, state[p]) BY DEF Rows, Judged
  <2> QED BY <2>1 DEF Fits, Members
<1> QED BY <1>1 DEF Rows, Together, Routed

LEMMA ReleasedStays ==
  ASSUME TypeOK, Kept, NEW c \in Continuation,
         \/ state[c] \in {"Absent", "Awaiting"}
         \/ Satisfied(Parent[c])
         \/ state[c] = "Failed" /\ state[Parent[c]] = "Deleted",
         state'[c] = state[c] \/ state[c] \notin {"Absent", "Awaiting"} \/ state'[c] = "Awaiting"
  PROVE  (\/ state[c] \in {"Absent", "Awaiting"}
          \/ Satisfied(Parent[c])
          \/ state[c] = "Failed" /\ state[Parent[c]] = "Deleted")'
<1>1. Parent[c] \in Node /\ c \in Node BY ContinuationsHaveParents
<1>2. CASE state'[c] \in {"Absent", "Awaiting"} BY <1>2
<1>3. CASE state'[c] \notin {"Absent", "Awaiting"}
  <2>1. Satisfied(Parent[c]) \/ (state[c] = "Failed" /\ state[Parent[c]] = "Deleted")
    BY <1>3
  <2>2. CASE Satisfied(Parent[c]) BY <1>1, <2>2 DEF Satisfied, Kept, Finished
  <2>3. CASE state[c] = "Failed" /\ state[Parent[c]] = "Deleted"
    BY <1>1, <2>3 DEF Kept, Finished
  <2> QED BY <2>1, <2>2, <2>3
<1> QED BY <1>2, <1>3

LEMMA PublishKeeps ==
  ASSUME TypeOK, Rows, NEW n \in Node, Publish(n) PROVE Rows' /\ Kept
<1> DEFINE jobs == IF Kind[n] = "Batch" THEN Members(n) ELSE {}
           jobState == IF n \in Continuation THEN "Awaiting" ELSE "Enqueued"
<1>1. /\ state[n] = "Absent" /\ UNCHANGED worked
      /\ IF n \in Continuation THEN state[Parent[n]] # "Absent" ELSE Parent[n] = Null
      /\ state' = [x \in Node |-> CASE x = n -> FirstState(n)
                                    [] x \in jobs -> jobState
                                    [] OTHER -> state[x]]
  BY DEF Publish
\* The row is nobody's job, and its own jobs are not there yet.
<1>2. \A p \in Node : \A c \in Members(p) : c # n
  BY <1>1, MembersAreJobs, NullAssumption
<1>3. \A c \in jobs : state[c] = "Absent" /\ c \in Node /\ Kind[c] = "Job" /\ c # n
  BY <1>1, MembersAreJobs DEF Rows, Together
<1>4. \A p \in Node \ {n} : \A c \in Members(p) : c \notin jobs
  BY MembersAreJobs
<1>5. /\ state'[n] = FirstState(n)
      /\ \A c \in jobs : state'[c] = jobState
      /\ \A x \in Node : x # n /\ x \notin jobs => state'[x] = state[x]
  BY <1>1, <1>3
<1>6. \A p \in Node \ {n} : Kind[p] # "Job" =>
        state'[p] = state[p] /\ \A c \in Members(p) : state'[c] = state[c]
  <2>1. \A p \in Node \ {n} : Kind[p] # "Job" => p \notin jobs BY <1>3
  <2>2. \A p \in Node : \A c \in Members(p) : c \in Node BY MembersAreJobs
  <2> QED BY <1>2, <1>4, <1>5, <2>1, <2>2
<1>7. FirstState(n) = CASE n \in Continuation -> "Awaiting"
                        [] n \notin Continuation /\ Kind[n] = "Batch" -> "Processing"
                        [] OTHER -> "Enqueued"
  BY DEF FirstState
<1>8. Kept
  <2>1. \A x \in Node : state[x] # "Absent" => state'[x] = state[x] BY <1>1, <1>3, <1>5
  <2>2. \A p \in Node : Kind[p] # "Job" /\ state[p] = "Processing" =>
          \A c \in Members(p) : state'[c] = state[c]
    BY <1>1, <1>6
  <2> QED BY <2>1, <2>2 DEF Kept, Finished
<1>9. Kinds'
  <2>1. \A x \in Node : state[x] # "Absent" => state'[x] = state[x] BY <1>1, <1>3, <1>5
  <2>2. \A x \in Node : worked'[x] => Kind[x] = "Job" /\ state'[x] = "Processing"
    BY <1>1, <2>1 DEF Rows, Kinds
  <2>3. \A x \in Node \ {n} : Kind[x] # "Job" => state'[x] = state[x] BY <1>6
  <2>4. /\ Kind[n] = "Batch" => state'[n] \in {"Awaiting", "Processing"}
        /\ state'[n] = "Awaiting" => n \in Continuation
        /\ Kind[n] = "Message" => state'[n] = "Enqueued"
    BY <1>5, <1>7, ContinuationsHaveParents
  <2>5. \A x \in Node \ {n} :
          /\ Kind[x] = "Batch" =>
               /\ state'[x] \in {"Absent", "Awaiting", "Processing", "Completed", "Failed"}
               /\ state'[x] = "Awaiting" => x \in Continuation
          /\ Kind[x] = "Message" =>
               state'[x] \in {"Absent", "Enqueued", "Processing", "Completed", "Failed"}
    BY <2>3 DEF Rows, Kinds
  <2> QED BY <2>2, <2>4, <2>5 DEF Kinds
<1>10. Together'
  <2>1. Kind[n] = "Batch" => \A c \in Members(n) :
          (/\ state[n] = "Absent" <=> state[c] = "Absent"
           /\ state[n] = "Awaiting" <=> state[c] = "Awaiting")'
    BY <1>5, <1>7
  <2> QED BY <1>6, <2>1, GroupStays DEF Together, Members
<1>11. Routed'
  <2>1. Kind[n] = "Message" => \A c \in Members(n) : state'[c] = "Absent"
    <3>1. Kind[n] = "Message" => \A c \in Members(n) : c \in Node /\ state[c] = "Absent" /\ c \notin jobs
      BY <1>1, MembersAreJobs DEF Rows, Routed
    <3> QED BY <1>2, <1>5, <3>1
  <2> QED BY <1>6, <2>1, GroupStays DEF Routed, Members
<1>12. Judged'
  <2>1. Fits(n, state[n])' BY <1>5, <1>7 DEF Fits
  <2> QED BY <1>6, <2>1, GroupStays DEF Judged
<1>13. Released'
  <2> SUFFICES ASSUME NEW c \in Continuation
               PROVE  (\/ state[c] \in {"Absent", "Awaiting"}
                       \/ Satisfied(Parent[c])
                       \/ state[c] = "Failed" /\ state[Parent[c]] = "Deleted")'
    BY DEF Released
  <2>1. c \in Node /\ c \notin jobs BY ContinuationsHaveParents, MembersAreJobs
  <2>2. state'[c] = state[c] \/ state'[c] = "Awaiting" BY <1>5, <1>7, <2>1
  <2>3. \/ state[c] \in {"Absent", "Awaiting"}
        \/ Satisfied(Parent[c])
        \/ state[c] = "Failed" /\ state[Parent[c]] = "Deleted"
    BY DEF Rows, Released
  <2> QED BY <1>8, <2>2, <2>3, ReleasedStays
<1> QED BY <1>8, <1>9, <1>10, <1>11, <1>12, <1>13 DEF Rows

LEMMA RouteKeeps ==
  ASSUME TypeOK, Rows, NEW m \in Node, Route(m) PROVE Rows' /\ Kept
<1>1. Kind[m] = "Message" /\ state[m] = "Enqueued" /\ UNCHANGED worked BY DEF Route
<1>2. PICK S \in SUBSET Members(m), s \in {"Processing", "Failed"} :
        /\ s = "Failed" => S = {}
        /\ state' = [x \in Node |-> CASE x = m -> s [] x \in S -> "Enqueued" [] OTHER -> state[x]]
  <2>1. ASSUME NEW S \in SUBSET {c \in Members(m) : state[c] = "Absent"},
               state' = [x \in Node |-> CASE x = m -> "Processing"
                                          [] x \in S -> "Enqueued"
                                          [] OTHER -> state[x]]
        PROVE  \E T \in SUBSET Members(m), s \in {"Processing", "Failed"} :
                 /\ s = "Failed" => T = {}
                 /\ state' = [x \in Node |-> CASE x = m -> s [] x \in T -> "Enqueued" [] OTHER -> state[x]]
    <3>1. S \in SUBSET Members(m) /\ "Processing" \in {"Processing", "Failed"} OBVIOUS
    <3> WITNESS S \in SUBSET Members(m), "Processing" \in {"Processing", "Failed"}
    <3> QED BY <2>1
  <2>2. CASE state' = [state EXCEPT ![m] = "Failed"]
    <3> WITNESS {} \in SUBSET Members(m), "Failed" \in {"Processing", "Failed"}
    <3>1. state' = [x \in Node |-> CASE x = m -> "Failed" [] x \in {} -> "Enqueued" [] OTHER -> state[x]]
      BY <2>2 DEF TypeOK
    <3> QED BY <3>1
  <2> QED BY <2>1, <2>2 DEF Route
<1>3. \A c \in Members(m) : state[c] = "Absent" BY <1>1 DEF Rows, Routed
<1>4. \A c \in S : c \in Node /\ Kind[c] = "Job" /\ state[c] = "Absent" /\ Parent[c] = m /\ c \notin Continuation
  BY <1>3, MembersAreJobs
<1>5. /\ state'[m] = s /\ \A c \in S : state'[c] = "Enqueued"
      /\ \A x \in Node : x # m /\ x \notin S => state'[x] = state[x]
  BY <1>1, <1>2, <1>4
<1>6. \A p \in Node \ {m} : Kind[p] # "Job" =>
        state'[p] = state[p] /\ \A c \in Members(p) : state'[c] = state[c]
  <2>1. \A p \in Node \ {m} : Kind[p] # "Job" => p \notin S BY <1>4
  <2>2. \A p \in Node \ {m} : \A c \in Members(p) : c \in Node /\ c \notin S /\ c # m
    BY <1>1, <1>4, MembersAreJobs
  <2> QED BY <1>5, <2>1, <2>2
<1>7. Kept
  <2>1. \A x \in Node : state[x] \notin {"Absent", "Enqueued"} => state'[x] = state[x]
    BY <1>1, <1>4, <1>5
  <2> QED BY <1>1, <1>6, <2>1 DEF Kept, Finished
<1>8. Kinds'
  <2>1. \A x \in Node : worked'[x] => Kind[x] = "Job" /\ state'[x] = "Processing"
    BY <1>1, <1>4, <1>5 DEF Rows, Kinds
  <2>2. \A x \in Node \ {m} : Kind[x] # "Job" => state'[x] = state[x] BY <1>6
  <2> QED BY <1>1, <1>5, <2>1, <2>2 DEF Rows, Kinds
<1>9. Together' BY <1>1, <1>6, GroupStays DEF Together, Members
<1>10. Routed'
  <2>1. \A c \in Members(m) : state'[c] # "Awaiting"
    <3>1. \A c \in Members(m) : c \in Node /\ c # m BY MembersAreJobs
    <3> QED BY <1>3, <1>5, <3>1
  <2>2. state'[m] \notin {"Absent", "Enqueued"} BY <1>5
  <2> QED BY <1>6, <2>1, <2>2, GroupStays DEF Routed, Members
<1>11. Judged'
  <2>1. Fits(m, state[m])'
    <3>1. \A c \in Members(m) : c \in Node /\ c # m BY MembersAreJobs
    <3>2. CASE s = "Processing" BY <1>5, <3>2 DEF Fits
    <3>3. CASE s = "Failed"
      <4>1. \A c \in Members(m) : state'[c] = "Absent" BY <1>2, <1>3, <1>5, <3>1, <3>3
      <4> QED BY <1>1, <1>5, <3>3, <4>1 DEF Fits, Members
    <3> QED BY <3>2, <3>3
  <2> QED BY <1>6, <2>1, GroupStays DEF Judged
<1>12. Released'
  <2> SUFFICES ASSUME NEW c \in Continuation
               PROVE  (\/ state[c] \in {"Absent", "Awaiting"}
                       \/ Satisfied(Parent[c])
                       \/ state[c] = "Failed" /\ state[Parent[c]] = "Deleted")'
    BY DEF Released
  <2>1. c \in Node /\ c \notin S /\ c # m BY <1>1, <1>4, ContinuationsHaveParents
  <2>2. state'[c] = state[c] BY <1>5, <2>1
  <2>3. \/ state[c] \in {"Absent", "Awaiting"}
        \/ Satisfied(Parent[c])
        \/ state[c] = "Failed" /\ state[Parent[c]] = "Deleted"
    BY DEF Rows, Released
  <2> QED BY <1>7, <2>2, <2>3, ReleasedStays
<1> QED BY <1>7, <1>8, <1>9, <1>10, <1>11, <1>12 DEF Rows

\* A worker moves one job that runs or is queued.
LEMMA JobMoves ==
  ASSUME TypeOK, Rows, NEW n \in Node, NEW s \in Finished \cup {"Enqueued", "Processing"},
         Kind[n] = "Job", state[n] \in {"Enqueued", "Processing"},
         state' = [state EXCEPT ![n] = s], worked' = [worked EXCEPT ![n] = (s = "Processing")]
  PROVE  Rows' /\ Kept
<1>1. /\ state'[n] = s /\ s \notin {"Absent", "Awaiting"}
      /\ \A x \in Node \ {n} : state'[x] = state[x] /\ worked'[x] = worked[x]
  BY DEF TypeOK, Finished
<1>2. worked'[n] = (s = "Processing") BY DEF TypeOK
<1>3. Kept
  <2>1. \A p \in Node : \A c \in Members(p) : c \in Node BY MembersAreJobs
  <2> QED BY <1>1, <2>1 DEF Kept, Finished
<1>4. Kinds'
  <2>1. \A x \in Node : worked'[x] => Kind[x] = "Job" /\ state'[x] = "Processing"
    BY <1>1, <1>2 DEF Rows, Kinds
  <2> QED BY <1>1, <2>1 DEF Rows, Kinds
<1>5. \A p \in Node : Kind[p] # "Job" =>
        /\ state'[p] = state[p]
        /\ \A c \in Members(p) : /\ state'[c] = "Absent" <=> state[c] = "Absent"
                                 /\ state'[c] = "Awaiting" <=> state[c] = "Awaiting"
                                 /\ state[c] \in {"Absent", "Completed", "Failed"} =>
                                      state'[c] = state[c]
  <2>1. \A p \in Node : \A c \in Members(p) : c \in Node BY MembersAreJobs
  <2> QED BY <1>1, <2>1
<1>6. Together' BY <1>5 DEF Rows, Together, Members
<1>7. Routed' BY <1>5 DEF Rows, Routed, Members
<1>8. Judged'
  <2> SUFFICES ASSUME NEW p \in Node, Kind[p] # "Job" PROVE Fits(p, state[p])'
    BY DEF Judged
  <2>1. Fits(p, state[p]) /\ state[p] \in RowState BY DEF Rows, Judged, TypeOK
  <2>2. \A s1 \in RowState : Fits(p, s1) => Fits(p, s1)' BY <1>5, FitsStays
  <2> QED BY <1>5, <2>1, <2>2 DEF Fits, Members
<1>9. Released'
  <2> SUFFICES ASSUME NEW c \in Continuation
               PROVE  (\/ state[c] \in {"Absent", "Awaiting"}
                       \/ Satisfied(Parent[c])
                       \/ state[c] = "Failed" /\ state[Parent[c]] = "Deleted")'
    BY DEF Released
  <2>1. c \in Node BY ContinuationsHaveParents
  <2>2. state'[c] = state[c] \/ state[c] \notin {"Absent", "Awaiting"} BY <1>1, <2>1
  <2>3. \/ state[c] \in {"Absent", "Awaiting"}
        \/ Satisfied(Parent[c])
        \/ state[c] = "Failed" /\ state[Parent[c]] = "Deleted"
    BY DEF Rows, Released
  <2> QED BY <1>3, <2>2, <2>3, ReleasedStays
<1> QED BY <1>3, <1>4, <1>6, <1>7, <1>8, <1>9 DEF Rows

\* The pass does not notice such steps.
LEMMA PassKept == ASSUME TypeOK, Rows, Pass, Kept, UNCHANGED orchestrator PROVE Pass'
<1>1. UNCHANGED <<pass, ready, failing, waiting, opened, orphaned, held>> BY DEF orchestrator
<1>2. \A n \in Node : state[n] \in Finished \cup {"Awaiting"} => state'[n] = state[n] BY DEF Kept
<1>3. ASSUME NEW p \in Node, Over(p)
      PROVE  Over(p)' /\ \A c \in Members(p) : state'[c] = state[c]
  <2>1. \A c \in Members(p) : c \in Node BY MembersAreJobs
  <2>2. \A c \in Members(p) : state'[c] = state[c] BY <1>2, <1>3, <2>1 DEF Over, Kept, Finished
  <2> QED BY <1>3, <2>2 DEF Over, Kept, Members
<1>4. Judging'
  <2>1. \A p \in ready : Over(p) /\ p \in Node BY DEF Pass, Judging, TypeOK
  <2>2. \A p \in ready : Over(p)' /\ \A c \in Members(p) : state'[c] = state[c] BY <1>3, <2>1
  <2> QED BY <1>1, <2>2 DEF Pass, Judging, Members
<1>5. \A p \in Node : LetsRun(p) => LetsRun(p)'
  BY <1>1, <1>2 DEF LetsRun, Seen, Finished
<1>6. Waits'
  <2>1. pass = "activating" =>
          \A c \in waiting : c \in Continuation /\ state[c] = "Awaiting" /\ LetsRun(Parent[c])
    BY DEF Pass, Waits
  <2>2. pass = "activating" => \A c \in waiting : state'[c] = "Awaiting" /\ LetsRun(Parent[c])'
    BY <1>2, <1>5, <2>1, ContinuationsHaveParents
  <2> QED BY <1>1, <2>1, <2>2 DEF Pass, Waits
<1>7. Orphans'
  <2>1. \A c \in orphaned : /\ c \in Continuation /\ held[c] = Unwritten /\ state[c] = "Awaiting"
                            /\ state[Parent[c]] = "Deleted"
    BY DEF Pass, Orphans
  <2>2. \A c \in orphaned : state'[c] = "Awaiting" /\ state'[Parent[c]] = "Deleted"
    BY <1>2, <2>1, ContinuationsHaveParents DEF Finished
  <2> QED BY <1>1, <2>1, <2>2 DEF Pass, Orphans, Members
<1>9. Opening'
  <2>1. opened # Null => state'[opened] = "Awaiting"
    BY <1>2, ContinuationsHaveParents DEF Pass, Opening
  <2> QED BY <1>1, <2>1 DEF Pass, Opening
<1>8. Writes'
  <2>1. ASSUME NEW n \in Node, IsVerdict(n) PROVE IsVerdict(n)'
    <3>1. state'[n] = "Processing" BY <2>1 DEF IsVerdict, Kept
    <3>2. \A c \in Members(n) : state[c] \in {"Absent", "Completed", "Failed"} => state'[c] = state[c]
      <4>1. \A c \in Members(n) : c \in Node BY MembersAreJobs
      <4> QED BY <1>2, <2>1, <4>1 DEF IsVerdict, Kept, Finished
    <3>3. Fits(n, held[n])' BY <1>1, <2>1, <3>2 DEF IsVerdict, Fits, Members
    <3> QED BY <1>1, <2>1, <3>1, <3>3 DEF IsVerdict
  <2>2. ASSUME NEW n \in Node, IsRelease(n) PROVE IsRelease(n)'
    <3>1. Parent[n] \in Node BY <2>2, ContinuationsHaveParents DEF IsRelease
    <3> QED BY <1>1, <1>2, <1>5, <2>2, <3>1 DEF IsRelease
  <2>3. ASSUME NEW n \in Node, IsMember(n) PROVE IsMember(n)'
    BY <1>1, <1>2, <2>3 DEF IsMember
  <2>4. ASSUME NEW n \in Node, IsFailed(n) PROVE IsFailed(n)'
    BY <1>1, <1>2, <2>4 DEF IsFailed
  <2>5. \A n \in Node : IsWrite(n) => IsWrite(n)' BY <2>1, <2>2, <2>3, <2>4 DEF IsWrite
  <2> QED BY <1>1, <2>5 DEF Pass, Writes, Members
<1> QED BY <1>4, <1>6, <1>7, <1>8, <1>9 DEF Pass

-------------------------------------------------------------------------------
(* The steps of the pass.                                                  *)

\* A write is on a row that no other step moves, and tells which row it is.
LEMMA WritesTell ==
  ASSUME Writes, NEW n \in Node
  PROVE  /\ held[n] \in {"Completed", "Failed"} => IsVerdict(n) \/ IsFailed(n)
         /\ state[n] \in Finished \cup {"Absent", "Enqueued"} => held[n] = Unwritten
         /\ held[n] \notin {"Deleted", "Awaiting", "Absent"}
         /\ held[n] # Unwritten => state[n] \in {"Awaiting", "Processing"}
BY DEF Writes, IsWrite, IsVerdict, IsRelease, IsMember, IsFailed, Unwritten, Finished

\* Writing on rows that wait unwritten leaves the conditions and the other writes as they are.
LEMMA LetsRunStays ==
  ASSUME NEW p \in Node, LetsRun(p), UNCHANGED state,
         held'[p] = held[p] \/ (held[p] = Unwritten /\ state[p] = "Awaiting")
  PROVE  LetsRun(p)'
BY DEF LetsRun, Seen

LEMMA WriteStays ==
  ASSUME NEW n \in Node, IsWrite(n), UNCHANGED state, orphaned \subseteq orphaned', held'[n] = held[n],
         \A x \in Node : held'[x] = held[x] \/ (held[x] = Unwritten /\ state[x] = "Awaiting")
  PROVE  IsWrite(n)'
<1>1. CASE IsVerdict(n)
  <2>1. IsVerdict(n)' BY <1>1 DEF IsVerdict, Fits, Members
  <2> QED BY <2>1 DEF IsWrite
<1>2. CASE IsRelease(n)
  <2>1. Parent[n] \in Node BY <1>2, ContinuationsHaveParents DEF IsRelease
  <2>2. LetsRun(Parent[n])' BY <1>2, <2>1, LetsRunStays DEF IsRelease
  <2>3. IsRelease(n)' BY <1>2, <2>2 DEF IsRelease
  <2> QED BY <2>3 DEF IsWrite
<1>3. CASE IsMember(n)
  <2>1. Parent[n] \in Node BY <1>3, TreeAssumption DEF IsMember
  <2>2. held'[Parent[n]] = held[Parent[n]] BY <1>3, <2>1 DEF IsMember, Unwritten
  <2>3. IsMember(n)' BY <1>3, <2>2 DEF IsMember
  <2> QED BY <2>3 DEF IsWrite
<1>4. CASE IsFailed(n)
  <2>1. IsFailed(n)' BY <1>4 DEF IsFailed
  <2> QED BY <2>1 DEF IsWrite
<1> QED BY <1>1, <1>2, <1>3, <1>4 DEF IsWrite

LEMMA SelectReadyKeeps ==
  ASSUME Separate, TypeOK, Rows, Pass, SelectReady PROVE Pass'
<1>1. /\ pass = "idle" /\ ready' = {p \in Node : Ready(p)}
      /\ pass' = IF ready' = {} THEN "finalized" ELSE "selected"
      /\ UNCHANGED <<state, failing, waiting, opened, orphaned, held>>
  BY DEF SelectReady, rows
<1>2. ASSUME NEW p \in Node, Ready(p) PROVE Over(p)
  <2>1. state[p] = "Processing"
    <3>1. SUFFICES ASSUME state[p] = "Awaiting" PROVE FALSE BY <1>2 DEF Ready
    <3>2. Kind[p] = "Batch" /\ p \in Continuation BY <1>2, <3>1 DEF Ready, Rows, Kinds
    <3>3. JobChildren(p) = Members(p) BY <3>2, ChildrenOfWaiting
    <3>4. \A c \in JobChildren(p) : state[c] = "Awaiting" BY <3>1, <3>2, <3>3 DEF Rows, Together
    <3> QED BY <1>2, <3>4 DEF Ready
  <2>2. Members(p) \subseteq JobChildren(p) BY MembersAreJobs DEF JobChildren
  <2>3. \A c \in Members(p) : state[c] # "Awaiting"
    BY <1>2, <2>1 DEF Ready, Rows, Together, Routed
  <2> QED BY <1>2, <2>1, <2>2, <2>3 DEF Over, Ready
<1>3. Judging' BY <1>1, <1>2 DEF Judging, Pass, Over, Members
<1>4. Waits' BY <1>1 DEF Pass, Waits
<1>5. Orphans' BY <1>1 DEF Pass, Orphans
<1>6. Writes' BY <1>1 DEF Pass, Writes, Unwritten
<1>7. Opening' BY <1>1 DEF Pass, Opening
<1> QED BY <1>3, <1>4, <1>5, <1>6, <1>7 DEF Pass

LEMMA JudgeReadyKeeps == ASSUME TypeOK, Rows, Pass, JudgeReady PROVE Pass'
<1>1. /\ pass = "selected" /\ pass' = "judged"
      /\ failing' = {p \in ready : \E c \in JobChildren(p) : state[c] = "Failed"}
      /\ UNCHANGED <<state, ready, waiting, opened, orphaned, held>>
  BY DEF JudgeReady, rows
\* A plain continuation of a running parent has not run.
<1>2. ASSUME NEW p \in ready, NEW c \in JobChildren(p), state[c] = "Failed" PROVE c \in Members(p)
  <2>1. p \in Node /\ state[p] = "Processing" BY DEF Pass, Judging, Over, TypeOK
  <2>2. c \notin Continuation
    BY <1>2, <2>1 DEF JobChildren, Rows, Released, Satisfied
  <2> QED BY <2>2 DEF JobChildren, Members
<1>3. \A p \in ready : Members(p) \subseteq JobChildren(p)
  BY MembersAreJobs DEF JobChildren, TypeOK
<1>4. Judging'
  <2>1. \A p \in ready : p \in failing' <=> \E c \in Members(p) : state[c] = "Failed"
    BY <1>1, <1>2, <1>3
  <2> QED BY <1>1, <2>1 DEF Judging, Pass, Over, Members
<1>5. Waits' BY <1>1 DEF Pass, Waits
<1>6. Orphans' BY <1>1 DEF Pass, Orphans
<1>7. Writes' BY <1>1 DEF Pass, Writes, Unwritten
<1>8. Opening' BY <1>1 DEF Pass, Opening
<1> QED BY <1>4, <1>5, <1>6, <1>7, <1>8 DEF Pass

LEMMA WriteParentsKeeps == ASSUME TypeOK, Rows, Pass, WriteParents PROVE Pass'
<1>1. /\ pass = "judged" /\ pass' = "finalized" /\ ready' = {} /\ failing' = {}
      /\ held' = [n \in Node |-> IF n \in ready THEN Verdict(n) ELSE held[n]]
      /\ UNCHANGED <<state, waiting, opened, orphaned>>
  BY DEF WriteParents, rows
<1>2. \A n \in Node : held[n] = Unwritten BY <1>1 DEF Pass, Writes
<1>3. ASSUME NEW n \in ready PROVE IsVerdict(n)'
  <2>1. n \in Node /\ held'[n] = Verdict(n) BY <1>1 DEF TypeOK
  <2>2. Over(n) /\ (n \in failing <=> \E c \in Members(n) : state[c] = "Failed")
    BY <1>1 DEF Pass, Judging
  <2>3. Fits(n, Verdict(n))
    <3>1. CASE n \in failing \ OnAny BY <2>2, <3>1 DEF Fits, Verdict, Over
    <3>2. CASE n \notin failing \ OnAny BY <2>2, <3>2 DEF Fits, Verdict, Over
    <3> QED BY <3>1, <3>2
  <2>4. Fits(n, held[n])' BY <1>1, <2>1, <2>3 DEF Fits, Members
  <2>5. Verdict(n) \in {"Completed", "Failed"} BY DEF Verdict
  <2> QED BY <1>1, <2>1, <2>2, <2>4, <2>5 DEF IsVerdict, Over
<1>4. Writes'
  <2>1. \A n \in Node : held'[n] = Unwritten \/ IsVerdict(n)' BY <1>1, <1>2, <1>3
  <2>2. \A n \in Node : held'[n] # "Processing" BY <1>1, <1>2 DEF Verdict, Unwritten
  <2> QED BY <1>1, <2>1, <2>2 DEF Writes, IsWrite
<1>5. Judging' BY <1>1 DEF Judging
<1>6. Waits' BY <1>1 DEF Pass, Waits
<1>7. Orphans' BY <1>1 DEF Pass, Orphans
<1>8. Opening' BY <1>1 DEF Pass, Opening
<1> QED BY <1>4, <1>5, <1>6, <1>7, <1>8 DEF Pass

LEMMA SelectAwaitingKeeps == ASSUME TypeOK, Rows, Pass, SelectAwaiting PROVE Pass'
<1>1. /\ pass = "finalized" /\ pass' = "activating"
      /\ waiting' = {c \in Node : Seen(c) = "Awaiting" /\ Parent[c] # Null /\ LetsRun(Parent[c])}
      /\ UNCHANGED <<state, ready, failing, opened, orphaned, held>>
  BY DEF SelectAwaiting, rows
<1>2. ASSUME NEW c \in waiting' PROVE c \in Continuation /\ state[c] = "Awaiting" /\ LetsRun(Parent[c])
  <2>1. c \in Node /\ Seen(c) = "Awaiting" /\ Parent[c] # Null /\ LetsRun(Parent[c]) BY <1>1
  <2>2. state[c] = "Awaiting" BY <2>1, WritesTell DEF Seen, Pass
  <2>3. c \in Continuation
    <3>1. SUFFICES ASSUME c \notin Continuation PROVE FALSE OBVIOUS
    <3>2. Parent[c] \in Node /\ c \in Members(Parent[c]) BY <2>1, <3>1, TreeAssumption DEF Members
    <3>3. Kind[Parent[c]] = "Batch"
      BY <2>2, <3>2, MembersAreJobs, KindsAre DEF Rows, Routed
    <3>4. state[Parent[c]] = "Awaiting" BY <2>2, <3>2, <3>3 DEF Rows, Together
    <3>5. held[Parent[c]] \notin {"Completed", "Failed"}
      BY <1>1, <3>2, <3>4, WritesTell DEF Pass, Orphans, IsVerdict, IsFailed
    <3> QED BY <2>1, <3>4, <3>5 DEF LetsRun, Seen
  <2> QED BY <2>1, <2>2, <2>3
<1>3. Waits' BY <1>1, <1>2 DEF Waits, LetsRun, Seen
<1>4. Judging' BY <1>1 DEF Judging, Pass
<1>5. Orphans' BY <1>1 DEF Pass, Orphans
<1>6. Writes'
  <2>1. \A n \in Node : IsWrite(n) => IsWrite(n)' BY <1>1, WriteStays
  <2> QED BY <1>1, <2>1 DEF Pass, Writes, Members
<1>7. Opening' BY <1>1 DEF Pass, Opening
<1> QED BY <1>3, <1>4, <1>5, <1>6, <1>7 DEF Pass

LEMMA ActivateKeeps ==
  ASSUME TypeOK, Rows, Pass, NEW c \in Node, Activate(c) PROVE Pass'
<1> DEFINE own == IF Kind[c] = "Batch" THEN "Processing" ELSE "Enqueued"
<1>1. /\ pass = "activating" /\ opened = Null /\ c \in waiting /\ waiting' = waiting \ {c}
      /\ held' = IF Seen(c) = "Awaiting" THEN [held EXCEPT ![c] = own] ELSE held
      /\ opened' = IF Kind[c] = "Batch" THEN c ELSE Null
      /\ UNCHANGED <<state, pass, ready, failing, orphaned>>
  BY DEF Activate, rows
<1>2. c \in Continuation /\ state[c] = "Awaiting" /\ LetsRun(Parent[c]) /\ Parent[c] \in Node
  BY <1>1, ContinuationsHaveParents DEF Pass, Waits
<1>3. held'[c] = own /\ \A x \in Node \ {c} : held'[x] = held[x]
  <2>1. CASE Seen(c) = "Awaiting" BY <1>1, <2>1 DEF TypeOK
  <2>2. CASE Seen(c) # "Awaiting"
    <3>1. held[c] # Unwritten BY <1>2, <2>2 DEF Seen
    <3>2. IsRelease(c) BY <1>2, <3>1 DEF Pass, Writes, IsWrite, IsVerdict, IsMember, IsFailed
    <3> QED BY <1>1, <2>2, <3>2 DEF IsRelease
  <2> QED BY <2>1, <2>2
\* Rows written were neither written nor settled before.
<1>4. \A x \in Node : held'[x] = held[x] \/ (held[x] = Unwritten /\ state[x] = "Awaiting")
  <2>1. CASE Seen(c) = "Awaiting"
    <3>1. held[c] = Unwritten BY <2>1, WritesTell DEF Seen, Pass
    <3> QED BY <1>2, <1>3, <3>1
  <2>2. CASE Seen(c) # "Awaiting" BY <1>1, <2>2
  <2> QED BY <2>1, <2>2
<1>5. IsRelease(c)'
  <2>1. LetsRun(Parent[c])' BY <1>1, <1>2, <1>4, LetsRunStays
  <2> QED BY <1>1, <1>2, <1>3, <2>1 DEF IsRelease
<1>6. Writes'
  <2>1. \A n \in Node : (held[n] = Unwritten \/ IsWrite(n))'
    <3> SUFFICES ASSUME NEW n \in Node PROVE (held[n] = Unwritten \/ IsWrite(n))' OBVIOUS
    <3>1. CASE n = c BY <1>5, <3>1 DEF IsWrite
    <3>2. CASE n # c
      <4>1. held'[n] = held[n] BY <1>3, <3>2
      <4>2. held[n] = Unwritten \/ IsWrite(n) BY DEF Pass, Writes
      <4> QED BY <1>1, <1>4, <4>1, <4>2, WriteStays
    <3> QED BY <3>1, <3>2
  <2>2. ASSUME NEW b \in Node, b # opened', Kind[b] = "Batch", held'[b] = "Processing",
               NEW x \in Members(b)
        PROVE  held'[x] = "Enqueued"
    <3>1. b # c /\ b # opened BY <1>1, <2>2, NullAssumption
    <3>2. x \in Node /\ x # c BY <1>2, MembersAreJobs
    <3>3. held[b] = "Processing" BY <1>3, <2>2, <3>1
    <3>4. held[x] = "Enqueued" BY <2>2, <3>1, <3>3 DEF Pass, Writes
    <3> QED BY <1>3, <3>2, <3>4
  <2> QED BY <1>1, <2>1, <2>2 DEF Writes, Members
<1>7. Judging' BY <1>1 DEF Pass, Judging, Over, Members
<1>8. Waits'
  <2>1. \A x \in waiting : x \in Continuation /\ state[x] = "Awaiting" /\ LetsRun(Parent[x])
    BY <1>1 DEF Pass, Waits
  <2>2. \A x \in waiting : LetsRun(Parent[x])'
    BY <1>1, <1>4, <2>1, ContinuationsHaveParents, LetsRunStays
  <2> QED BY <1>1, <2>1, <2>2 DEF Waits
<1>9. Opening' BY <1>1, <1>2, <1>3 DEF Opening
<1>10. Orphans' BY <1>1 DEF Pass, Orphans
<1> QED BY <1>6, <1>7, <1>8, <1>9, <1>10 DEF Pass

LEMMA ActivateMembersKeeps ==
  ASSUME Separate, TypeOK, Rows, Pass, ActivateMembers PROVE Pass'
<1> DEFINE with == ActivatedWith(opened)
<1>1. /\ opened # Null /\ opened' = Null
      /\ held' = [x \in Node |-> IF x \in with THEN "Enqueued" ELSE held[x]]
      /\ UNCHANGED <<state, pass, ready, failing, waiting, orphaned>>
  BY DEF ActivateMembers, rows
<1>2. /\ pass = "activating" /\ orphaned = {} /\ opened \in Continuation /\ opened \in Node
      /\ Kind[opened] = "Batch" /\ state[opened] = "Awaiting" /\ held[opened] = "Processing"
  BY <1>1, ContinuationsHaveParents DEF Pass, Opening, Orphans
<1>3. \A x \in with : /\ x \in Node /\ x \in Members(opened) /\ x # opened /\ Parent[x] = opened
                      /\ x \notin Continuation /\ state[x] = "Awaiting" /\ held[x] = Unwritten
  <2>1. \A x \in with : x \in Members(opened) /\ Seen(x) = "Awaiting"
    BY <1>2, ChildrenOfWaiting DEF ActivatedWith
  <2>2. \A x \in Node : Seen(x) = "Awaiting" => held[x] = Unwritten /\ state[x] = "Awaiting"
    BY WritesTell DEF Seen, Pass
  <2> QED BY <1>2, <2>1, <2>2, MembersAreJobs
<1>4. /\ \A x \in with : held'[x] = "Enqueued"
      /\ \A x \in Node \ with : held'[x] = held[x]
      /\ \A x \in Node : held'[x] = held[x] \/ (held[x] = Unwritten /\ state[x] = "Awaiting")
  BY <1>1, <1>3
<1> HIDE DEF with
<1>5. held'[opened] = "Processing" BY <1>2, <1>3, <1>4
<1>6. Writes'
  <2>1. \A n \in Node : (held[n] = Unwritten \/ IsWrite(n))'
    <3> SUFFICES ASSUME NEW n \in Node PROVE (held[n] = Unwritten \/ IsWrite(n))' OBVIOUS
    <3>1. CASE n \in with
      <4>1. IsMember(n)' BY <1>1, <1>2, <1>3, <1>4, <1>5, <3>1, NullAssumption DEF IsMember
      <4> QED BY <4>1 DEF IsWrite
    <3>2. CASE n \notin with
      <4>1. held'[n] = held[n] BY <1>4, <3>2
      <4>2. held[n] = Unwritten \/ IsWrite(n) BY DEF Pass, Writes
      <4> QED BY <1>1, <1>4, <4>1, <4>2, WriteStays
    <3> QED BY <3>1, <3>2
  <2>2. ASSUME NEW b \in Node, Kind[b] = "Batch", held'[b] = "Processing", NEW x \in Members(b)
        PROVE  held'[x] = "Enqueued"
    <3>1. x \in Node /\ Kind[x] = "Job" /\ x \notin Continuation BY MembersAreJobs
    <3>2. CASE b = opened
      <4>1. state[x] = "Awaiting" BY <1>2, <2>2, <3>2 DEF Rows, Together
      <4>2. CASE held[x] = Unwritten
        <5>1. x \in with
          BY <1>2, <2>2, <3>2, <4>1, <4>2, ChildrenOfWaiting DEF with, ActivatedWith, Seen
        <5> QED BY <1>4, <5>1
      <4>3. CASE held[x] # Unwritten
        <5>1. IsMember(x) BY <1>2, <3>1, <4>3 DEF Pass, Writes, IsWrite, IsVerdict, IsRelease, IsFailed
        <5> QED BY <1>4, <3>1, <4>3, <5>1 DEF IsMember
      <4> QED BY <4>2, <4>3
    <3>3. CASE b # opened
      <4>1. b \notin with BY <2>2, <1>3, MembersAreJobs, <1>2
      <4>2. held[x] = "Enqueued" BY <1>4, <2>2, <3>3, <4>1 DEF Pass, Writes
      <4> QED BY <1>4, <3>1, <4>2 DEF Unwritten
    <3> QED BY <3>2, <3>3
  <2> QED BY <1>1, <1>2, <2>1, <2>2 DEF Writes, Members
<1>7. Judging' BY <1>1 DEF Pass, Judging, Over, Members
<1>8. Waits'
  <2>1. \A x \in waiting : x \in Continuation /\ state[x] = "Awaiting" /\ LetsRun(Parent[x])
    BY <1>2 DEF Pass, Waits
  <2>2. \A x \in waiting : LetsRun(Parent[x])'
    BY <1>1, <1>4, <2>1, ContinuationsHaveParents, LetsRunStays
  <2> QED BY <1>1, <1>2, <2>1, <2>2 DEF Waits
<1>9. Opening' BY <1>1 DEF Opening
<1>10. Orphans' BY <1>1, <1>2 DEF Pass, Orphans
<1> QED BY <1>6, <1>7, <1>8, <1>9, <1>10 DEF Pass

LEMMA SelectOrphanedKeeps == ASSUME TypeOK, Rows, Pass, SelectOrphaned PROVE Pass'
<1>1. /\ pass = "activating" /\ pass' = "failing" /\ opened = Null /\ waiting = {}
      /\ orphaned' = {c \in Node : /\ Seen(c) = "Awaiting" /\ Parent[c] # Null
                                   /\ Seen(Parent[c]) = "Deleted"}
      /\ waiting' = {c \in orphaned' : Kind[c] = "Batch"}
      /\ UNCHANGED <<state, ready, failing, opened, held>>
  BY DEF SelectOrphaned, rows
<1>2. ASSUME NEW c \in orphaned'
      PROVE  /\ c \in Continuation /\ held[c] = Unwritten /\ state[c] = "Awaiting"
             /\ state[Parent[c]] = "Deleted"
  <2>1. c \in Node /\ Parent[c] \in Node /\ Parent[c] # Null /\ Seen(c) = "Awaiting"
        /\ Seen(Parent[c]) = "Deleted"
    BY <1>1, TreeAssumption
  <2>2. held[c] = Unwritten /\ state[c] = "Awaiting" /\ state[Parent[c]] = "Deleted"
    BY <2>1, WritesTell DEF Seen, Pass
  <2>3. Kind[Parent[c]] = "Job" BY <2>1, <2>2, KindsAre DEF Rows, Kinds
  <2> QED BY <2>1, <2>2, <2>3, TreeAssumption
<1>3. Orphans' BY <1>1, <1>2 DEF Orphans
<1>4. Waits' BY <1>1 DEF Waits
<1>5. Judging' BY <1>1 DEF Judging, Pass
<1>6. Writes'
  <2>1. orphaned \subseteq orphaned' BY <1>1 DEF Pass, Orphans
  <2>2. \A n \in Node : IsWrite(n) => IsWrite(n)' BY <1>1, <2>1, WriteStays
  <2> QED BY <1>1, <2>2 DEF Pass, Writes, Members
<1>7. Opening' BY <1>1 DEF Opening
<1> QED BY <1>3, <1>4, <1>5, <1>6, <1>7 DEF Pass

\* The orphans, and where they hang.
LEMMA OrphansAre ==
  ASSUME Rows, Pass, NEW c \in orphaned
  PROVE  /\ c \in Continuation /\ c \in Node /\ Kind[c] \in {"Job", "Batch"}
         /\ held[c] = Unwritten /\ state[c] = "Awaiting"
         /\ Parent[c] \in Node /\ state[Parent[c]] = "Deleted" /\ Kind[Parent[c]] = "Job"
<1>1. /\ c \in Continuation /\ held[c] = Unwritten /\ state[c] = "Awaiting"
      /\ state[Parent[c]] = "Deleted"
  BY DEF Pass, Orphans
<1> QED BY <1>1, ContinuationsHaveParents, KindsAre DEF Rows, Kinds

LEMMA FailMembersKeeps ==
  ASSUME Separate, TypeOK, Rows, Pass, NEW b \in Node, FailMembers(b) PROVE Pass'
<1> DEFINE with == FailedWith(b)
<1>1. /\ pass = "failing" /\ b \in waiting /\ waiting' = waiting \ {b}
      /\ held' = [x \in Node |-> IF x \in with THEN "Failed" ELSE held[x]]
      /\ UNCHANGED <<state, pass, ready, failing, opened, orphaned>>
  BY DEF FailMembers, rows
<1>2. /\ b \in orphaned /\ Kind[b] = "Batch" /\ b \in Continuation
      /\ held[b] = Unwritten /\ state[b] = "Awaiting" /\ Kind[Parent[b]] = "Job"
  <2>1. b \in orphaned /\ Kind[b] = "Batch" BY <1>1 DEF Pass, Waits
  <2> QED BY <2>1, OrphansAre
<1>3. \A x \in with : /\ x \in Node /\ x \notin Continuation /\ Parent[x] = b
                      /\ state[x] = "Awaiting" /\ held[x] = Unwritten
  <2>1. \A x \in Node : Seen(x) = "Awaiting" => held[x] = Unwritten /\ state[x] = "Awaiting"
    BY WritesTell DEF Seen, Pass
  <2> QED BY <1>2, <2>1 DEF FailedWith, Separate
<1>4. /\ \A x \in with : held'[x] = "Failed"
      /\ \A x \in Node \ with : held'[x] = held[x]
      /\ \A x \in Node : held'[x] = held[x] \/ (held[x] = Unwritten /\ state[x] = "Awaiting")
  BY <1>1, <1>3
<1>5. \A x \in Node : Parent[x] = b /\ state[x] = "Awaiting" /\ held[x] = Unwritten => x \in with
  BY DEF FailedWith, Seen
<1> HIDE DEF with
<1>6. Writes'
  <2>1. \A n \in Node : (held[n] = Unwritten \/ IsWrite(n))'
    <3> SUFFICES ASSUME NEW n \in Node PROVE (held[n] = Unwritten \/ IsWrite(n))' OBVIOUS
    <3>1. CASE n \in with
      <4>1. IsFailed(n)' BY <1>1, <1>2, <1>3, <1>4, <3>1 DEF IsFailed
      <4> QED BY <4>1 DEF IsWrite
    <3>2. CASE n \notin with
      <4>1. held'[n] = held[n] BY <1>4, <3>2
      <4>2. held[n] = Unwritten \/ IsWrite(n) BY DEF Pass, Writes
      <4> QED BY <1>1, <1>4, <4>1, <4>2, WriteStays
    <3> QED BY <3>1, <3>2
  <2>2. ASSUME NEW d \in Node, d # opened, Kind[d] = "Batch", held'[d] = "Processing",
               NEW x \in Members(d)
        PROVE  held'[x] = "Enqueued"
    <3>1. held[d] = "Processing" BY <1>4, <2>2
    <3>2. held[x] = "Enqueued" /\ x \in Node BY <2>2, <3>1, MembersAreJobs DEF Pass, Writes
    <3> QED BY <1>4, <3>2 DEF Unwritten
  <2> QED BY <1>1, <2>1, <2>2 DEF Writes, Members
<1>7. Orphans'
  <2>1. \A c \in orphaned : held'[c] = Unwritten BY <1>3, <1>4, OrphansAre
  <2>2. ASSUME NEW c \in orphaned, c \notin waiting', Kind[c] = "Batch", NEW x \in Members(c)
        PROVE  held'[x] = "Failed"
    <3>1. c \in Node BY OrphansAre
    <3>2. x \in Node /\ Parent[x] = c /\ x \notin Continuation /\ Kind[x] = "Job" BY <3>1, MembersAreJobs
    <3>3. CASE c # b
      <4>1. held[x] = "Failed" BY <1>1, <2>2, <3>3 DEF Pass, Orphans
      <4> QED BY <1>4, <3>2, <4>1 DEF Unwritten
    <3>4. CASE c = b
      <4>1. state[x] = "Awaiting" BY <1>2, <2>2, <3>1, <3>4 DEF Rows, Together
      <4>2. CASE held[x] = Unwritten BY <1>4, <1>5, <3>2, <3>4, <4>1, <4>2
      <4>3. CASE held[x] # Unwritten
        <5>1. IsFailed(x)
          BY <1>2, <3>2, <3>4, <4>3
             DEF Pass, Writes, IsWrite, IsVerdict, IsRelease, IsMember, Unwritten
        <5> QED BY <1>4, <3>2, <4>3, <5>1 DEF IsFailed
      <4> QED BY <4>2, <4>3
    <3> QED BY <3>3, <3>4
  <2> QED BY <1>1, <2>1, <2>2 DEF Pass, Orphans, Members
<1>8. Judging' BY <1>1 DEF Pass, Judging, Over, Members
<1>9. Waits' BY <1>1 DEF Pass, Waits
<1>10. Opening' BY <1>1 DEF Pass, Opening
<1> QED BY <1>6, <1>7, <1>8, <1>9, <1>10 DEF Pass

LEMMA CloseKeeps == ASSUME Close PROVE Pass'
BY NullAssumption DEF Close, Pass, Judging, Waits, Opening, Orphans, Writes, Unwritten

\* A commit: what was written becomes the rows, and the orphans fail with their jobs.
Doomed == orphaned \cup {x \in Node : IsFailed(x)}

LEMMA FailOrphanedKeeps ==
  ASSUME Separate, TypeOK, Rows, Pass, FailOrphaned PROVE Rows'
<1>1. /\ pass = "failing" /\ waiting = {} /\ UNCHANGED worked
      /\ state' = [n \in Node |-> IF n \in orphaned THEN "Failed" ELSE Seen(n)]
  BY DEF FailOrphaned
<1>2. \A c \in orphaned : /\ c \in Continuation /\ c \in Node
                          /\ held[c] = Unwritten /\ state[c] = "Awaiting"
                          /\ Parent[c] \in Node /\ state[Parent[c]] = "Deleted"
                          /\ Kind[Parent[c]] = "Job"
  BY OrphansAre
<1>3. ASSUME NEW x \in Doomed
      PROVE  /\ x \in Node /\ state[x] = "Awaiting" /\ Seen(x) \in {"Awaiting", "Failed"}
             /\ x \in orphaned \/ (/\ Parent[x] \in orphaned /\ Kind[Parent[x]] = "Batch"
                                   /\ x \in Members(Parent[x]))
  <2>1. CASE x \in orphaned BY <1>2, <2>1 DEF Seen
  <2>2. CASE x \notin orphaned BY <2>2 DEF Doomed, IsFailed, Members, Seen, Unwritten
  <2> QED BY <2>1, <2>2
<1>4. ASSUME NEW b \in orphaned, Kind[b] = "Batch", NEW c \in Members(b) PROVE c \in Doomed
  <2>1. b \in Node BY <1>2
  <2>2. c \in Node /\ Parent[c] = b /\ c \notin Continuation /\ Kind[c] = "Job" BY <2>1, MembersAreJobs
  <2>3. held[c] = "Failed" BY <1>1, <1>4 DEF Pass, Orphans
  <2>4. IsFailed(c)
    BY <2>2, <2>3 DEF Pass, Writes, IsWrite, IsVerdict, IsRelease, IsMember, Unwritten
  <2> QED BY <2>2, <2>4 DEF Doomed
<1>5. \A n \in Node : /\ n \in Doomed => state'[n] = "Failed"
                      /\ n \notin Doomed => state'[n] = Seen(n)
  BY <1>1 DEF Doomed, IsFailed, Seen, Unwritten
<1>6. \A n \in Node : /\ state[n] \in Finished \cup {"Absent", "Enqueued"} => state'[n] = state[n]
                      /\ Kind[n] = "Job" /\ state[n] = "Processing" => state'[n] = state[n]
  <2>1. \A n \in Node : state[n] # "Awaiting" => n \notin Doomed BY <1>3
  <2>2. \A n \in Node : state[n] \in Finished \cup {"Absent", "Enqueued"} => Seen(n) = state[n]
    BY WritesTell DEF Seen, Pass
  <2>3. \A n \in Node : Kind[n] = "Job" /\ state[n] = "Processing" => Seen(n) = state[n]
    BY DEF Seen, Pass, Writes, IsWrite, IsVerdict, IsRelease, IsMember, IsFailed
  <2> QED BY <1>5, <2>1, <2>2, <2>3 DEF Finished
<1>7. ASSUME NEW n \in Node, n \notin Doomed, held[n] # Unwritten
      PROVE  /\ state'[n] = held[n]
             /\ IsVerdict(n) \/ IsRelease(n) \/ IsMember(n)
  BY <1>5, <1>7 DEF Seen, Pass, Writes, IsWrite, Doomed
<1>8. ASSUME NEW n \in Node, held[n] = Unwritten, n \notin Doomed PROVE state'[n] = state[n]
  BY <1>5, <1>8 DEF Seen
<1>9. ASSUME NEW n \in Node, IsMember(n) PROVE Kind[n] = "Job" /\ n \in Members(Parent[n]) /\ Parent[n] \in Node
  <2>1. Parent[n] \in Node /\ n \in Members(Parent[n]) BY <1>9, TreeAssumption DEF IsMember, Members
  <2> QED BY <2>1, MembersAreJobs
<1>10. Kinds'
  <2>1. \A n \in Node : worked'[n] => Kind[n] = "Job" /\ state'[n] = "Processing"
    BY <1>1, <1>6 DEF Rows, Kinds
  <2>2. ASSUME NEW n \in Node, Kind[n] = "Batch"
        PROVE  /\ state'[n] \in {"Absent", "Awaiting", "Processing", "Completed", "Failed"}
               /\ state'[n] = "Awaiting" => n \in Continuation
    <3>1. CASE n \in Doomed BY <1>5, <3>1
    <3>2. CASE n \notin Doomed /\ held[n] # Unwritten
      BY <1>7, <1>9, <2>2, <3>2 DEF IsVerdict, IsRelease
    <3>3. CASE n \notin Doomed /\ held[n] = Unwritten BY <1>8, <2>2, <3>3 DEF Rows, Kinds
    <3> QED BY <3>1, <3>2, <3>3
  <2>3. ASSUME NEW n \in Node, Kind[n] = "Message"
        PROVE  state'[n] \in {"Absent", "Enqueued", "Processing", "Completed", "Failed"}
    <3>1. CASE n \in Doomed BY <1>5, <3>1
    <3>2. CASE n \notin Doomed /\ held[n] # Unwritten
      BY <1>7, <1>9, <2>3, <3>2, ContinuationsHaveParents DEF IsVerdict, IsRelease
    <3>3. CASE n \notin Doomed /\ held[n] = Unwritten BY <1>8, <2>3, <3>3 DEF Rows, Kinds
    <3> QED BY <3>1, <3>2, <3>3
  <2> QED BY <2>1, <2>2, <2>3 DEF Kinds
\* Who still waits, and who was inserted.
<1>11. \A n \in Node : state'[n] = "Awaiting" <=>
         state[n] = "Awaiting" /\ held[n] = Unwritten /\ n \notin Doomed
  BY <1>5, <1>7, <1>8, WritesTell DEF Pass
<1>12. \A n \in Node : state'[n] = "Absent" <=> state[n] = "Absent"
  BY <1>5, <1>6, <1>7, <1>8, WritesTell DEF Pass
<1>13. Together'
  <2> SUFFICES ASSUME NEW b \in Node, Kind[b] = "Batch", NEW c \in Members(b)
               PROVE  /\ state'[b] = "Absent" <=> state'[c] = "Absent"
                      /\ state'[b] = "Awaiting" <=> state'[c] = "Awaiting"
    BY DEF Together, Members
  <2>1. c \in Node /\ Parent[c] = b /\ c \notin Continuation /\ Kind[c] = "Job" BY MembersAreJobs
  <2>2. /\ state[b] = "Absent" <=> state[c] = "Absent"
        /\ state[b] = "Awaiting" <=> state[c] = "Awaiting"
    BY DEF Rows, Together
  <2>3. b \in Doomed <=> c \in Doomed
    <3>1. ASSUME b \in Doomed PROVE c \in Doomed
      <4>1. b \in orphaned BY <1>3, <3>1, MembersAreJobs, <1>2
      <4> QED BY <1>4, <4>1
    <3>2. ASSUME c \in Doomed PROVE b \in Doomed
      <4>1. b \in orphaned BY <1>2, <1>3, <2>1, <3>2
      <4> QED BY <4>1 DEF Doomed
    <3> QED BY <3>1, <3>2
  <2>4. ASSUME state[b] = "Awaiting", b \notin Doomed
        PROVE  held[b] = Unwritten <=> held[c] = Unwritten
    <3>1. ASSUME held[b] # Unwritten PROVE held[c] # Unwritten
      <4>1. IsRelease(b) BY <1>7, <1>9, <2>4, <3>1 DEF IsVerdict
      <4> QED BY <1>1, <4>1, NullAssumption DEF IsRelease, Pass, Opening, Writes, Unwritten
    <3>2. ASSUME held[c] # Unwritten PROVE held[b] # Unwritten
      <4>1. IsMember(c) BY <1>7, <2>1, <2>3, <2>4, <3>2 DEF IsVerdict, IsRelease
      <4> QED BY <2>1, <4>1 DEF IsMember, Unwritten
    <3> QED BY <3>1, <3>2
  <2> QED BY <1>11, <1>12, <2>1, <2>2, <2>3, <2>4
<1>14. Routed'
  <2> SUFFICES ASSUME NEW m \in Node, Kind[m] = "Message", NEW c \in Members(m)
               PROVE  /\ state'[m] \in {"Absent", "Enqueued"} => state'[c] = "Absent"
                      /\ state'[c] # "Awaiting"
    BY DEF Routed, Members
  <2>1. c \in Node BY MembersAreJobs
  <2>2. state'[c] # "Awaiting" BY <1>11, <2>1 DEF Rows, Routed
  <2>3. state'[m] \in {"Absent", "Enqueued"} => state[m] \in {"Absent", "Enqueued"}
    <3>1. CASE m \in Doomed BY <1>5, <3>1
    <3>2. CASE m \notin Doomed /\ held[m] # Unwritten
      BY <1>7, <1>9, <3>2, ContinuationsHaveParents DEF IsVerdict, IsRelease
    <3>3. CASE m \notin Doomed /\ held[m] = Unwritten BY <1>8, <3>3
    <3> QED BY <3>1, <3>2, <3>3
  <2> QED BY <1>12, <2>1, <2>2, <2>3 DEF Rows, Routed
<1>15. ASSUME NEW p \in Node PROVE \A s \in RowState : Fits(p, s) => Fits(p, s)'
  <2>1. \A c \in Members(p) : state[c] \in {"Absent", "Completed", "Failed"} => state'[c] = state[c]
    BY <1>6, MembersAreJobs DEF Finished
  <2> QED BY <2>1, FitsStays
<1>16. Judged'
  <2> SUFFICES ASSUME NEW p \in Node, Kind[p] # "Job" PROVE Fits(p, state[p])'
    BY DEF Judged
  <2>1. CASE p \in Doomed
    <3>1. p \in orphaned BY <1>3, <2>1, <1>2, MembersAreJobs
    <3>2. Kind[p] = "Batch" /\ p \in Continuation BY <1>2, <3>1, KindsAre, ContinuationsHaveParents
    <3>3. \A c \in Members(p) : state'[c] = "Failed" BY <1>4, <1>5, <3>1, <3>2, MembersAreJobs
    <3>4. \E c \in Members(p) : TRUE BY <3>2, BatchAssumption DEF Members
    <3> QED BY <1>5, <2>1, <3>2, <3>3, <3>4 DEF Fits, Members
  <2>2. CASE p \notin Doomed /\ held[p] # Unwritten
    <3>1. IsVerdict(p) \/ IsRelease(p) BY <1>7, <1>9, <2>2
    <3>2. CASE IsVerdict(p)
      <4>1. Fits(p, held[p]) /\ held[p] \in RowState BY <3>2 DEF IsVerdict, RowState, Finished
      <4>2. state'[p] = held[p] BY <1>7, <2>2
      <4> QED BY <1>15, <4>1, <4>2 DEF Fits, Members
    <3>3. CASE IsRelease(p)
      <4>1. state'[p] = "Processing" \/ state'[p] = "Enqueued" BY <1>7, <2>2, <3>3 DEF IsRelease
      <4> QED BY <4>1 DEF Fits
    <3> QED BY <3>1, <3>2, <3>3
  <2>3. CASE p \notin Doomed /\ held[p] = Unwritten
    <3>1. state'[p] = state[p] BY <1>8, <2>3
    <3>2. Fits(p, state[p]) /\ state[p] \in RowState BY DEF Rows, Judged, TypeOK
    <3> QED BY <1>15, <3>1, <3>2 DEF Fits, Members
  <2> QED BY <2>1, <2>2, <2>3
<1>17. Released'
  <2> SUFFICES ASSUME NEW c \in Continuation
               PROVE  (\/ state[c] \in {"Absent", "Awaiting"}
                       \/ Satisfied(Parent[c])
                       \/ state[c] = "Failed" /\ state[Parent[c]] = "Deleted")'
    BY DEF Released
  <2>1. c \in Node /\ Parent[c] \in Node BY ContinuationsHaveParents
  <2>2. \/ state[c] \in {"Absent", "Awaiting"}
        \/ Satisfied(Parent[c])
        \/ state[c] = "Failed" /\ state[Parent[c]] = "Deleted"
    BY DEF Rows, Released
  <2>3. Satisfied(Parent[c]) => Satisfied(Parent[c])' BY <1>6, <2>1 DEF Satisfied, Finished
  <2>4. CASE c \in Doomed
    <3>1. c \in orphaned BY <1>2, <1>3, <2>4, MembersAreJobs
    <3>2. state'[Parent[c]] = "Deleted" BY <1>2, <1>6, <2>1, <3>1 DEF Finished
    <3> QED BY <1>5, <2>1, <2>4, <3>2
  <2>5. CASE c \notin Doomed /\ held[c] # Unwritten
    <3>1. IsVerdict(c) \/ IsRelease(c) BY <1>7, <2>1, <2>5 DEF IsMember
    <3>2. CASE IsVerdict(c) BY <2>2, <2>3, <3>2 DEF IsVerdict
    <3>3. CASE IsRelease(c)
      <4>1. LetsRun(Parent[c]) BY <3>3 DEF IsRelease
      <4>2. Seen(Parent[c]) # "Awaiting" BY <4>1 DEF LetsRun
      <4>3. Parent[c] \notin Doomed
        <5>1. SUFFICES ASSUME Parent[c] \in Doomed PROVE FALSE OBVIOUS
        <5>2. Seen(Parent[c]) = "Failed" BY <1>3, <4>2, <5>1
        <5>3. Kind[Parent[c]] = "Batch" BY <4>1, <5>2, TreeAssumption DEF LetsRun
        <5>4. Parent[c] \in orphaned BY <1>2, <1>3, <5>1, <5>3, MembersAreJobs
        <5> QED BY <1>2, <4>2, <5>4 DEF Seen
      <4>4. state'[Parent[c]] = Seen(Parent[c]) BY <1>5, <2>1, <4>3
      <4> QED BY <4>1, <4>4 DEF LetsRun, Satisfied
    <3> QED BY <3>1, <3>2, <3>3
  <2>6. CASE c \notin Doomed /\ held[c] = Unwritten
    <3>1. state'[c] = state[c] BY <1>8, <2>1, <2>6
    <3>2. state[Parent[c]] = "Deleted" => state'[Parent[c]] = "Deleted" BY <1>6, <2>1 DEF Finished
    <3> QED BY <2>2, <2>3, <3>1, <3>2
  <2> QED BY <2>4, <2>5, <2>6
<1> QED BY <1>10, <1>13, <1>14, <1>16, <1>17 DEF Rows

-------------------------------------------------------------------------------
(* The theorems.                                                           *)

LEMMA InitInv == Init => Rows /\ Pass
<1> SUFFICES ASSUME Init PROVE Rows /\ Pass OBVIOUS
<1>1. Rows
  <2>1. \A p \in Node : \A c \in Members(p) : c \in Node BY MembersAreJobs
  <2> QED BY <2>1, ContinuationsHaveParents
          DEF Init, Rows, Kinds, Together, Routed, Judged, Fits, Released
<1>2. Pass BY DEF Init, Pass, Judging, Waits, Opening, Orphans, Writes, Unwritten
<1> QED BY <1>1, <1>2

\* Without commands nothing is requeued.
LEMMA QuietKept ==
  ASSUME MaxCommands = 0, TypeOK, Quiet, [Next]_vars
  PROVE  Quiet' /\ ~RequeueJob /\ ~RequeueAborted /\ \A n \in Node : ~DeleteJob(n) /\ ~RequeueLock(n)
<1>1. ~RequeueJob /\ ~RequeueAborted BY DEF Quiet, RequeueJob, RequeueAborted
<1>2. \A n \in Node : ~DeleteJob(n) /\ ~RequeueLock(n) BY DEF Quiet, DeleteJob, RequeueLock
<1>3. CASE \E n \in Node : Publish(n) \/ Route(n) \/ Claim(n) \/ End(n)
  BY <1>1, <1>2, <1>3 DEF Publish, Route, Claim, End, Quiet
<1>4. CASE SelectReady \/ JudgeReady \/ WriteParents \/ SelectAwaiting
  BY <1>1, <1>2, <1>4 DEF SelectReady, JudgeReady, WriteParents, SelectAwaiting, Quiet
<1>5. CASE \/ \E n \in Node : Activate(n) \/ FailMembers(n)
           \/ ActivateMembers \/ SelectOrphaned \/ FailOrphaned \/ Rollback
  BY <1>1, <1>2, <1>5
     DEF Activate, ActivateMembers, SelectOrphaned, FailMembers, FailOrphaned, Rollback, Quiet
<1>6. CASE UNCHANGED vars BY <1>1, <1>2, <1>6 DEF vars, Quiet
<1> QED BY <1>1, <1>2, <1>3, <1>4, <1>5, <1>6 DEF Next

LEMMA RowsStay == ASSUME Rows, UNCHANGED rows PROVE Rows'
<1>1. UNCHANGED <<state, worked>> BY DEF rows
<1>2. Kinds' BY <1>1 DEF Rows, Kinds
<1>3. Together' BY <1>1 DEF Rows, Together, Members
<1>4. Routed' BY <1>1 DEF Rows, Routed, Members
<1>5. Judged' BY <1>1 DEF Rows, Judged, Fits, Members
<1>6. Released' BY <1>1 DEF Rows, Released, Satisfied
<1> QED BY <1>2, <1>3, <1>4, <1>5, <1>6 DEF Rows

LEMMA StepInv ==
  ASSUME Separate, MaxCommands = 0, TypeOK, Quiet, Rows, Pass, [Next]_vars PROVE Rows' /\ Pass'
<1>1. ASSUME NEW n \in Node, Publish(n) PROVE Rows' /\ Pass'
  <2>1. Rows' /\ Kept BY <1>1, PublishKeeps
  <2> QED BY <1>1, <2>1, PassKept DEF Publish
<1>2. ASSUME NEW n \in Node, Route(n) PROVE Rows' /\ Pass'
  <2>1. Rows' /\ Kept BY <1>2, RouteKeeps
  <2> QED BY <1>2, <2>1, PassKept DEF Route
<1>3. ASSUME NEW n \in Node, Claim(n) PROVE Rows' /\ Pass'
  <2>1. worked' = [worked EXCEPT ![n] = ("Processing" = "Processing")] BY <1>3 DEF Claim, TypeOK
  <2>2. Rows' /\ Kept BY <1>3, <2>1, JobMoves DEF Claim
  <2> QED BY <1>3, <2>2, PassKept DEF Claim
<1>4. ASSUME NEW n \in Node, End(n) PROVE Rows' /\ Pass'
  <2>1. Kind[n] = "Job" /\ state[n] = "Processing" BY <1>4 DEF End, Rows, Kinds
  <2>2. PICK s \in Finished \cup {"Enqueued"} : state' = [state EXCEPT ![n] = s] BY <1>4 DEF End
  <2>3. worked' = [worked EXCEPT ![n] = (s = "Processing")] BY <1>4 DEF End, Finished
  <2>4. Rows' /\ Kept BY <2>1, <2>2, <2>3, JobMoves
  <2> QED BY <1>4, <2>4, PassKept DEF End
<1>5. CASE SelectReady BY <1>5, SelectReadyKeeps, RowsStay DEF SelectReady
<1>6. CASE JudgeReady BY <1>6, JudgeReadyKeeps, RowsStay DEF JudgeReady
<1>7. CASE WriteParents BY <1>7, WriteParentsKeeps, RowsStay DEF WriteParents
<1>8. CASE SelectAwaiting BY <1>8, SelectAwaitingKeeps, RowsStay DEF SelectAwaiting
<1>9. ASSUME NEW n \in Node, Activate(n) PROVE Rows' /\ Pass'
  BY <1>9, ActivateKeeps, RowsStay DEF Activate
<1>10. CASE SelectOrphaned BY <1>10, SelectOrphanedKeeps, RowsStay DEF SelectOrphaned
<1>11. CASE FailOrphaned BY <1>11, FailOrphanedKeeps, CloseKeeps DEF FailOrphaned
<1>12. CASE Rollback BY <1>12, CloseKeeps, RowsStay DEF Rollback
<1>13. CASE UNCHANGED vars
  <2>1. Rows' BY <1>13, RowsStay DEF vars
  <2>2. Kept BY <1>13 DEF vars, rows, Kept
  <2> QED BY <1>13, <2>1, <2>2, PassKept DEF vars
<1>14. CASE ActivateMembers BY <1>14, ActivateMembersKeeps, RowsStay DEF ActivateMembers
<1>15. ASSUME NEW n \in Node, FailMembers(n) PROVE Rows' /\ Pass'
  BY <1>15, FailMembersKeeps, RowsStay DEF FailMembers
<1> QED BY <1>1, <1>2, <1>3, <1>4, <1>5, <1>6, <1>7, <1>8, <1>9, <1>10, <1>11, <1>12, <1>13,
           <1>14, <1>15, QuietKept DEF Next

LEMMA RowsSuffice == TypeOK /\ Rows => ContinuationsWait /\ VerdictFitsMembers /\ BatchMovesAsOne
<1> SUFFICES ASSUME TypeOK, Rows PROVE ContinuationsWait /\ VerdictFitsMembers /\ BatchMovesAsOne
  OBVIOUS
<1>1. ContinuationsWait BY DEF Rows, Released, ContinuationsWait
<1>2. VerdictFitsMembers
  <2>1. \A p \in Node : Kind[p] # "Job" => Fits(p, state[p]) BY DEF Rows, Judged
  <2> QED BY <2>1 DEF VerdictFitsMembers, Fits
<1>3. BatchMovesAsOne BY DEF Rows, Together, BatchMovesAsOne
<1> QED BY <1>1, <1>2, <1>3

\* Every variable keeps its type, for any forest and with any commands.
THEOREM TypeCorrect == Spec => []TypeOK
<1>1. Init => TypeOK /\ Unjudged BY InitTyped DEF Init, Unjudged
<1>2. TypeOK /\ Unjudged /\ [Next]_vars => (TypeOK /\ Unjudged)' BY StepTyped, UnjudgedKept
<1> QED BY <1>1, <1>2, PTL DEF Spec

\* The invariant of rows and passes.
THEOREM PassesAreSound ==
  ASSUME MaxCommands = 0, Separate PROVE Spec => [](TypeOK /\ Quiet /\ Rows /\ Pass)
<1>1. Init => TypeOK /\ Quiet /\ Rows /\ Pass BY InitTyped, InitInv DEF Init, Quiet
<1>2. TypeOK /\ Quiet /\ Rows /\ Pass /\ [Next]_vars => (TypeOK /\ Quiet /\ Rows /\ Pass)'
  <2>1. Pass => Unjudged BY DEF Pass, Judging, Unjudged
  <2> QED BY <2>1, StepTyped, QuietKept, StepInv
<1> QED BY <1>1, <1>2, PTL DEF Spec

\* In any forest as Separate has it, whatever passes fail and wherever they are interrupted
\* by workers, publishers and the router: a continuation runs after a parent that lets it,
\* and fails with one that was deleted.
THEOREM ContinuationsRunAfter ==
  ASSUME MaxCommands = 0, Separate PROVE Spec => []ContinuationsWait
BY PassesAreSound, RowsSuffice, PTL

\* The verdict, given by Id on what two queries read, is right when it is committed, and
\* stays so.
THEOREM VerdictsAreRight ==
  ASSUME MaxCommands = 0, Separate PROVE Spec => []VerdictFitsMembers
BY PassesAreSound, RowsSuffice, PTL

\* A batch and its jobs are inserted, activated and failed together.
THEOREM BatchesMoveAsOne ==
  ASSUME MaxCommands = 0, Separate PROVE Spec => []BatchMovesAsOne
BY PassesAreSound, RowsSuffice, PTL
=============================================================================
