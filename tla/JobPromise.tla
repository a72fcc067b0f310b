---------------------------- MODULE JobPromise ----------------------------
(***************************************************************************)
(* What the job table promises the users of the library, with no keep-     *)
(* alives, monitors, saves or snapshots in sight.  A submitted job waits;  *)
(* one worker at a time runs it; only the worker that is busy with it ends *)
(* the run, and it is taken over only when no worker is busy with it; and  *)
(* the totals of completed, failed and deleted jobs change in the same     *)
(* step as the job does.                                                   *)
(***************************************************************************)
EXTENDS Integers

CONSTANTS Job, Worker, Null

VARIABLES
  phase,    \* where each job stands: absent, waiting, running, finished or gone
  runner,   \* the worker a running job was given to
  busy,     \* the job each worker is at work on
  tally     \* each job's share of the three totals

Finished == {"Completed", "Failed", "Deleted"}

Share(p) == [f \in Finished |-> IF f = p THEN 1 ELSE 0]

Init ==
  /\ phase = [j \in Job |-> "absent"]
  /\ runner = [j \in Job |-> Null]
  /\ busy = [w \in Worker |-> Null]
  /\ tally = [j \in Job |-> Share("absent")]

\* Every job of S moves to its phase in `to`, nobody runs it, and the totals follow.
Move(S, to) ==
  /\ phase' = [j \in Job |-> IF j \in S THEN to[j] ELSE phase[j]]
  /\ runner' = [j \in Job |-> IF j \in S THEN Null ELSE runner[j]]
  /\ tally' = [j \in Job |-> IF j \in S THEN Share(to[j]) ELSE tally[j]]

Submit(j) ==
  /\ phase[j] = "absent"
  /\ Move({j}, [i \in {j} |-> "waiting"])
  /\ UNCHANGED busy

Start(j, w) ==
  /\ phase[j] = "waiting"
  /\ busy[w] = Null
  /\ phase' = [phase EXCEPT ![j] = "running"]
  /\ runner' = [runner EXCEPT ![j] = w]
  /\ busy' = [busy EXCEPT ![w] = j]
  /\ UNCHANGED tally

\* The worker ends its run of j: for good, or to have it run again.
Finish(j, w) ==
  /\ phase[j] = "running" /\ runner[j] = w /\ busy[w] = j
  /\ \E p \in Finished \cup {"waiting"} : Move({j}, [i \in {j} |-> p])
  /\ busy' = [busy EXCEPT ![w] = Null]

\* The worker dies, or gives up and leaves the job to be taken over.
Drop(w) ==
  /\ busy[w] # Null
  /\ busy' = [busy EXCEPT ![w] = Null]
  /\ UNCHANGED <<phase, runner, tally>>

Orphan(j) == phase[j] = "running" /\ \A w \in Worker : busy[w] # j

TakeOver ==
  \E S \in SUBSET {j \in Job : Orphan(j)} :
    /\ \E to \in [S -> {"waiting", "Failed", "Deleted"}] : Move(S, to)
    /\ UNCHANGED busy

\* The user's commands never touch a running job.
Delete(j) ==
  /\ phase[j] \in {"waiting", "Completed", "Failed"}
  /\ Move({j}, [i \in {j} |-> "Deleted"])
  /\ UNCHANGED busy

Again(j) ==
  /\ phase[j] \in Finished
  /\ Move({j}, [i \in {j} |-> "waiting"])
  /\ UNCHANGED busy

\* Rows are removed; the totals outlive them.
Forget ==
  \E S \in SUBSET {j \in Job : phase[j] \notin {"absent", "gone"}} :
    /\ phase' = [j \in Job |-> IF j \in S THEN "gone" ELSE phase[j]]
    /\ runner' = [j \in Job |-> IF j \in S THEN Null ELSE runner[j]]
    /\ UNCHANGED <<busy, tally>>

Next ==
  \/ \E j \in Job : Submit(j) \/ Delete(j) \/ Again(j)
  \/ \E j \in Job, w \in Worker : Start(j, w) \/ Finish(j, w)
  \/ \E w \in Worker : Drop(w)
  \/ TakeOver
  \/ Forget

Spec == Init /\ [][Next]_<<phase, runner, busy, tally>>

============================================================================
