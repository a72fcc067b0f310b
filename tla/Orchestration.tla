--------------------------- MODULE Orchestration ---------------------------
(***************************************************************************)
(* Jobs that depend on each other: messages and the jobs MessageRouter     *)
(* creates for their handlers, batches and their jobs, continuations, and  *)
(* the Orchestrator that finalizes parents, activates what waits for them  *)
(* and fails what waits for a deleted parent.                              *)
(*                                                                         *)
(* A pass of the Orchestrator is one READ COMMITTED transaction of several *)
(* statements.  Each statement is a step: it reads the committed rows and  *)
(* the pass's own writes.  A write is kept in `held` until the commit; the *)
(* row is locked meanwhile, and others go on reading its committed state.  *)
(* What workers do to a single job is modelled in JobLifecycle; here it is *)
(* a claim and an end, and counters are left to JobLifecycle.              *)
(***************************************************************************)
EXTENDS Integers, FiniteSets

CONSTANTS
  Node,          \* ids of the rows that may be published
  Null,          \* no parent, no row
  Kind,          \* JobKind of each
  Parent,        \* ParentJobId of each
  Continuation,  \* those published to run after their parent, not as a part of it
  OnAny,         \* those with ContinuationOptions = OnAnyFinishedState
  Handlers,      \* bound: handlers registered for a message type
  MaxCommands,   \* bound: DeleteJob and RequeueJob calls that find a row to change
  RowsFail       \* a pass may fail: server crash, lost connection, deadlock victim

ASSUME NullAssumption == Null \notin Node
ASSUME TreeAssumption ==
  /\ Kind \in [Node -> {"Job", "Message", "Batch"}]
  /\ Parent \in [Node -> Node \cup {Null}]
  /\ Continuation \subseteq {n \in Node : Parent[n] # Null /\ Kind[n] # "Message"}
  /\ OnAny \subseteq {n \in Node : Kind[n] = "Batch"}
  /\ \A n \in Node : Parent[n] # Null /\ n \notin Continuation =>
       Kind[n] = "Job" /\ Kind[Parent[n]] # "Job"
\* An empty list of jobs is refused.
ASSUME BatchAssumption ==
  \A b \in Node : Kind[b] = "Batch" => \E n \in Node : Parent[n] = b /\ n \notin Continuation
ASSUME BoundAssumption ==
  Handlers \in Nat \ {0} /\ MaxCommands \in Nat /\ RowsFail \in BOOLEAN

VARIABLES
  state,      \* CurrentState; "Absent" before the insert
  worked,     \* a worker holds the job and refreshes its LastKeepAlive
  pass,       \* where the Orchestrator's pass is
  ready,      \* readyParents
  failing,    \* failedParentIdSet
  waiting,    \* awaitingChildren, later the orphaned batches, that its loop has not reached
  opened,     \* the batch just activated, whose jobs the next update enqueues
  orphaned,   \* orphaned
  held,       \* states written by the pass and not committed
  requeuing,  \* the row RequeueJob has locked, while it waits for the parent's lock
  commands    \* such calls so far

rows == <<state, worked>>
orchestrator == <<pass, ready, failing, waiting, opened, orphaned, held>>
vars == <<rows, orchestrator, requeuing, commands>>

Finished == {"Completed", "Failed", "Deleted"}
RowState == {"Absent", "Awaiting", "Enqueued", "Processing"} \cup Finished
Unwritten == "unwritten"

\* Children the queries below look at: plain jobs, continuations included.
JobChildren(p) == {c \in Node : Parent[c] = p /\ Kind[c] = "Job"}
\* The jobs of a batch or of a message, without those that run after it.
Members(p) == {c \in Node : Parent[c] = p} \ Continuation

TypeOK ==
  /\ state \in [Node -> RowState]
  /\ worked \in [Node -> BOOLEAN]
  /\ pass \in {"idle", "selected", "judged", "finalized", "activating", "failing"}
  /\ ready \subseteq Node /\ failing \subseteq ready
  /\ waiting \subseteq Node /\ opened \in Node \cup {Null} /\ orphaned \subseteq Node
  /\ held \in [Node -> RowState \cup {Unwritten}]
  /\ requeuing \in Node \cup {Null}
  /\ commands \in 0..MaxCommands

Init ==
  /\ state = [n \in Node |-> "Absent"]
  /\ worked = [n \in Node |-> FALSE]
  /\ pass = "idle"
  /\ ready = {} /\ failing = {} /\ waiting = {} /\ opened = Null /\ orphaned = {}
  /\ held = [n \in Node |-> Unwritten]
  /\ requeuing = Null
  /\ commands = 0

\* Row locks: the pass waits for RequeueJob, and everybody else for both.
FreeForPass(S) == requeuing \notin S
Free(n) == held[n] = Unwritten /\ requeuing # n

----------------------------------------------------------------------------
(* Publisher, BatchPublisher, MessageRouter and the workers.               *)

\* The state a row is inserted in.
FirstState(n) ==
  CASE n \in Continuation -> "Awaiting"
    [] n \notin Continuation /\ Kind[n] = "Batch" -> "Processing"
    [] OTHER -> "Enqueued"

\* A batch and its jobs are saved together; they await the same parent, if any.
Publish(n) ==
  /\ state[n] = "Absent"
  /\ IF n \in Continuation THEN state[Parent[n]] # "Absent" ELSE Parent[n] = Null
  /\ LET jobs == IF Kind[n] = "Batch" THEN Members(n) ELSE {}
         jobState == IF n \in Continuation THEN "Awaiting" ELSE "Enqueued" IN
     state' = [x \in Node |-> CASE x = n -> FirstState(n)
                                [] x \in jobs -> jobState
                                [] OTHER -> state[x]]
  /\ UNCHANGED <<worked, orchestrator, requeuing, commands>>

\* The claim (SKIP LOCKED) and the jobs for the handlers, in one transaction; or no
\* handler is found.
Route(m) ==
  /\ Kind[m] = "Message" /\ state[m] = "Enqueued" /\ Free(m)
  /\ \/ \E S \in SUBSET {c \in Members(m) : state[c] = "Absent"} :
          /\ Cardinality(S) = Handlers
          /\ state' = [x \in Node |-> CASE x = m -> "Processing"
                                        [] x \in S -> "Enqueued"
                                        [] OTHER -> state[x]]
     \/ state' = [state EXCEPT ![m] = "Failed"]
  /\ UNCHANGED <<worked, orchestrator, requeuing, commands>>

Claim(n) ==
  /\ Kind[n] = "Job" /\ state[n] = "Enqueued" /\ Free(n)
  /\ state' = [state EXCEPT ![n] = "Processing"]
  /\ worked' = [worked EXCEPT ![n] = TRUE]
  /\ UNCHANGED <<orchestrator, requeuing, commands>>

\* Finalization by Id: finished, or queued again (a retry, or crash recovery).
End(n) ==
  /\ worked[n] /\ Free(n)
  /\ \E s \in Finished \cup {"Enqueued"} : state' = [state EXCEPT ![n] = s]
  /\ worked' = [worked EXCEPT ![n] = FALSE]
  /\ UNCHANGED <<orchestrator, requeuing, commands>>

----------------------------------------------------------------------------
(* The Orchestrator.                                                       *)

\* What a statement of the pass sees in row n.
Seen(n) == IF held[n] = Unwritten THEN state[n] ELSE held[n]

\* Mutants: a failed child holds its parent back; the first child to end is enough.
ReadyCompleted(p) ==
  /\ Kind[p] \in {"Message", "Batch"}
  /\ state[p] \in {"Awaiting", "Processing"}
  /\ \A c \in JobChildren(p) : state[c] \in {"Absent", "Completed", "Awaiting"}
ReadyOnFirst(p) ==
  /\ Kind[p] \in {"Message", "Batch"}
  /\ state[p] \in {"Awaiting", "Processing"}
  /\ \E c \in JobChildren(p) : state[c] \in {"Completed", "Failed"}

Ready(p) ==
  /\ Kind[p] \in {"Message", "Batch"}
  /\ state[p] \in {"Awaiting", "Processing"}
  /\ \A c \in JobChildren(p) : state[c] \in {"Absent", "Completed", "Failed", "Awaiting"}
  /\ \E c \in JobChildren(p) : state[c] \in {"Completed", "Failed"}

SelectReady ==
  /\ pass = "idle"
  /\ ready' = {p \in Node : Ready(p)}
  /\ pass' = IF ready' = {} THEN "finalized" ELSE "selected"
  /\ UNCHANGED <<rows, failing, waiting, opened, orphaned, held, requeuing, commands>>

\* Which of them have a failed child: a second query, later.
JudgeReady ==
  /\ pass = "selected"
  /\ failing' = {p \in ready : \E c \in JobChildren(p) : state[c] = "Failed"}
  /\ pass' = "judged"
  /\ UNCHANGED <<rows, ready, waiting, opened, orphaned, held, requeuing, commands>>

Verdict(p) == IF p \in failing \ OnAny THEN "Failed" ELSE "Completed"

\* UPDATE by Id, without looking at the row again.
WriteParents ==
  /\ pass = "judged"
  /\ FreeForPass(ready)
  /\ held' = [n \in Node |-> IF n \in ready THEN Verdict(n) ELSE held[n]]
  /\ pass' = "finalized"
  /\ ready' = {} /\ failing' = {}
  /\ UNCHANGED <<rows, waiting, opened, orphaned, requeuing, commands>>

\* Mutants: any finished parent lets its continuations run; only a group does.
LetsRunFinished(p) == Seen(p) \in {"Completed", "Failed"}
LetsRunOfGroup(p) == Kind[p] # "Job" /\ Seen(p) = "Completed"

LetsRun(p) == Seen(p) = "Completed" \/ (Seen(p) = "Failed" /\ p \in OnAny)

SelectAwaiting ==
  /\ pass = "finalized"
  /\ waiting' = {c \in Node : Seen(c) = "Awaiting" /\ Parent[c] # Null /\ LetsRun(Parent[c])}
  /\ pass' = "activating"
  /\ UNCHANGED <<rows, ready, failing, opened, orphaned, held, requeuing, commands>>

\* A conditional update of the child.
Activate(c) ==
  /\ pass = "activating"
  /\ opened = Null
  /\ c \in waiting
  /\ FreeForPass({c})
  /\ LET own == IF Kind[c] = "Batch" THEN "Processing" ELSE "Enqueued" IN
     held' = IF Seen(c) = "Awaiting" THEN [held EXCEPT ![c] = own] ELSE held
  /\ opened' = IF Kind[c] = "Batch" THEN c ELSE Null
  /\ waiting' = waiting \ {c}
  /\ UNCHANGED <<rows, pass, ready, failing, orphaned, requeuing, commands>>

\* Mutant: the batch starts, its jobs are forgotten.
ActivatedAlone(b) == {}

\* The jobs enqueued with a batch: its Awaiting children of kind Job.
ActivatedWith(b) == {x \in JobChildren(b) : Seen(x) = "Awaiting"}

\* A second update, whether or not the first one found the batch waiting.
ActivateMembers ==
  /\ opened # Null
  /\ FreeForPass(ActivatedWith(opened))
  /\ held' = [x \in Node |-> IF x \in ActivatedWith(opened) THEN "Enqueued" ELSE held[x]]
  /\ opened' = Null
  /\ UNCHANGED <<rows, pass, ready, failing, waiting, orphaned, requeuing, commands>>

SelectOrphaned ==
  /\ pass = "activating"
  /\ opened = Null /\ waiting = {}
  /\ orphaned' = {c \in Node : /\ Seen(c) = "Awaiting" /\ Parent[c] # Null
                               /\ Seen(Parent[c]) = "Deleted"}
  /\ waiting' = {c \in orphaned' : Kind[c] = "Batch"}
  /\ pass' = "failing"
  /\ UNCHANGED <<rows, ready, failing, opened, held, requeuing, commands>>

\* What fails with an orphaned batch: its Awaiting children of any kind.
FailedWith(b) == {x \in Node : Seen(x) = "Awaiting" /\ Parent[x] = b}

FailMembers(b) ==
  /\ pass = "failing"
  /\ b \in waiting
  /\ FreeForPass(FailedWith(b))
  /\ held' = [x \in Node |-> IF x \in FailedWith(b) THEN "Failed" ELSE held[x]]
  /\ waiting' = waiting \ {b}
  /\ UNCHANGED <<rows, pass, ready, failing, opened, orphaned, requeuing, commands>>

\* The pass is over and its locks are gone.
Close ==
  /\ pass' = "idle"
  /\ ready' = {} /\ failing' = {} /\ waiting' = {} /\ opened' = Null /\ orphaned' = {}
  /\ held' = [n \in Node |-> Unwritten]

\* The orphans are saved as Failed, by Id, and the pass commits.
FailOrphaned ==
  /\ pass = "failing"
  /\ waiting = {}
  /\ FreeForPass(orphaned)
  /\ state' = [n \in Node |-> IF n \in orphaned THEN "Failed" ELSE Seen(n)]
  /\ Close
  /\ UNCHANGED <<worked, requeuing, commands>>

Rollback ==
  /\ RowsFail
  /\ pass # "idle"
  /\ Close
  /\ UNCHANGED <<rows, requeuing, commands>>

----------------------------------------------------------------------------
(* The user.                                                               *)

\* A Processing row is only marked; JobLifecycle models the mark.
DeleteJob(n) ==
  /\ commands < MaxCommands
  /\ Free(n)
  /\ state[n] \in {"Awaiting", "Enqueued", "Completed", "Failed"}
  /\ state' = [state EXCEPT ![n] = "Deleted"]
  /\ commands' = commands + 1
  /\ UNCHANGED <<worked, orchestrator, requeuing>>

RequeueLock(n) ==
  /\ requeuing = Null
  /\ commands < MaxCommands
  /\ Free(n)
  /\ state[n] \in {"Awaiting"} \cup Finished
  /\ requeuing' = n
  /\ commands' = commands + 1
  /\ UNCHANGED <<rows, orchestrator>>

\* What RequeueJob leaves the parent in.
Reopened(p) ==
  IF state[p] \in {"Completed", "Failed"}
  THEN IF Kind[p] = "Batch" THEN "Awaiting" ELSE "Processing"
  ELSE state[p]

\* The parent's lock, the updates and the commit.
RequeueJob ==
  LET n == requeuing
      p == Parent[n] IN
  /\ n # Null
  /\ p # Null => held[p] = Unwritten
  /\ state' = [x \in Node |-> CASE x = n -> "Enqueued"
                                [] x = p -> Reopened(p)
                                [] OTHER -> state[x]]
  /\ requeuing' = Null
  /\ UNCHANGED <<worked, orchestrator, commands>>

\* It fails, or is the victim of a deadlock with the pass.
RequeueAborted ==
  /\ requeuing # Null
  /\ requeuing' = Null
  /\ UNCHANGED <<rows, orchestrator, commands>>

----------------------------------------------------------------------------
Next ==
  \/ \E n \in Node : Publish(n)
  \/ \E n \in Node : Route(n)
  \/ \E n \in Node : Claim(n)
  \/ \E n \in Node : End(n)
  \/ SelectReady
  \/ JudgeReady
  \/ WriteParents
  \/ SelectAwaiting
  \/ \E n \in Node : Activate(n)
  \/ ActivateMembers
  \/ SelectOrphaned
  \/ \E n \in Node : FailMembers(n)
  \/ FailOrphaned
  \/ Rollback
  \/ \E n \in Node : DeleteJob(n)
  \/ \E n \in Node : RequeueLock(n)
  \/ RequeueJob
  \/ RequeueAborted

Spec == Init /\ [][Next]_vars

(***************************************************************************)
(* Fairness.  The router and the workers run on timers; a handler does not *)
(* retry for ever (RetryPipelineBehavior counts attempts); the passes      *)
(* follow each other, and from some point on none of them fails (a failure *)
(* that loses nothing looks like a commit, and is allowed).                *)
(***************************************************************************)
PassStep ==
  \/ SelectReady \/ JudgeReady \/ WriteParents
  \/ SelectAwaiting \/ (\E n \in Node : Activate(n)) \/ ActivateMembers
  \/ SelectOrphaned \/ (\E n \in Node : FailMembers(n)) \/ FailOrphaned

Fairness ==
  /\ \A n \in {x \in Node : Kind[x] = "Job"} :
       /\ WF_vars(Claim(n))
       /\ SF_vars(End(n) /\ state'[n] # "Enqueued")
  /\ \A n \in {x \in Node : Kind[x] = "Message"} : WF_vars(Route(n))
  /\ WF_vars(PassStep)
  /\ WF_vars(RequeueJob \/ RequeueAborted)
  /\ <>[][Rollback => FailOrphaned]_vars

FairSpec == Spec /\ Fairness

----------------------------------------------------------------------------
(* Safety, as long as users give no commands.                              *)

\* The condition a continuation waits for, on committed rows.
Satisfied(p) == state[p] = "Completed" \/ (state[p] = "Failed" /\ p \in OnAny)

\* A continuation starts after its parent, and only if the parent's outcome and options
\* let it; what waits for a deleted parent fails without having run.
ContinuationsWait ==
  \A c \in Continuation :
    \/ state[c] \in {"Absent", "Awaiting"}
    \/ Satisfied(Parent[c])
    \/ state[c] = "Failed" /\ state[Parent[c]] \in {"Deleted", "Failed"}

\* The verdict on a parent is final and fits its jobs: Completed when all completed, or
\* all ended and any end will do; Failed when all ended and one failed.  A parent may
\* also fail without its jobs having run.
VerdictFitsMembers ==
  \A p \in Node : Kind[p] # "Job" =>
    /\ state[p] = "Completed" => \A c \in Members(p) :
         state[c] \in {"Absent", "Completed"} \cup (IF p \in OnAny THEN {"Failed"} ELSE {})
    /\ state[p] = "Failed" =>
         \/ /\ \A c \in Members(p) : state[c] \in {"Absent", "Completed", "Failed"}
            /\ \E c \in Members(p) : state[c] = "Failed"
            /\ p \notin OnAny \/ p \in Continuation
         \/ Kind[p] = "Message" /\ \A c \in Members(p) : state[c] = "Absent"

\* A batch and its jobs leave Awaiting in the same step, whichever way they leave it.
BatchMovesAsOne ==
  \A b \in Node : Kind[b] = "Batch" =>
    \A c \in Members(b) : state[b] = "Awaiting" <=> state[c] = "Awaiting"

(* Liveness.                                                               *)

\* A running batch or message is finalized, unless one of its jobs ends Deleted.
ParentEnds ==
  \A p \in Node : Kind[p] # "Job" /\ state[p] = "Processing" ~>
    state[p] \in Finished \/ \E c \in Members(p) : state[c] = "Deleted"

\* A continuation does not wait for ever for a parent that has satisfied it, nor for one
\* that was deleted.
Settled(p) == Satisfied(p) \/ state[p] = "Deleted"
AwaitingEnds ==
  \A c \in Continuation :
    Settled(Parent[c]) /\ state[c] = "Awaiting" ~> state[c] # "Awaiting" \/ ~Settled(Parent[c])

(* Properties that documents state and some run violates.                  *)

\* After RequeueJob on one of its jobs a batch waits for that job again: a finished
\* batch has no queued or running job.
FinishedBatchIsOver ==
  \A b \in Node : Kind[b] = "Batch" /\ state[b] \in {"Completed", "Failed"} =>
    \A c \in Members(b) : state[c] \notin {"Enqueued", "Processing"}

============================================================================
