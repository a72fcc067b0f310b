--------------------------- MODULE JobLifecycle ---------------------------
(***************************************************************************)
(* The life of a plain job, without parent or continuations: rows of the   *)
(* Job table, the workers of WarpWorkerService that claim, execute and     *)
(* finalize them, the monitor that runs beside each handler,               *)
(* StaleJobRecovery, ScheduledJobActivation, ExpirationCleanup and the     *)
(* user's DeleteJob and RequeueJob.                                        *)
(*                                                                         *)
(* Every database statement is one atomic step; what a process read before *)
(* it and uses after it is kept in a variable of that process.  Time is    *)
(* reduced to what the code compares: a keep-alive is "fresh" or older     *)
(* than InvisibilityTimeout ("stale").                                     *)
(***************************************************************************)
EXTENDS Integers

CONSTANTS
  Job,             \* ids of the jobs that may be published
  Worker,          \* worker loops, on one server or on several
  Null,            \* no worker, no job
  NoRestart,       \* jobs whose metadata says CanBeRestarted = false
  Mortal,          \* workers whose process may die
  MaxClaims,       \* bound: claims of one job
  MaxRequeues,     \* bound: RequeueJob calls that change one job
  Timely,          \* a worker's own steps take less than InvisibilityTimeout
  PromptHandlers,  \* so does a handler that nothing monitors any more
  DbFailures       \* a save may fail (deadlock victim, lost connection)

ASSUME NullAssumption == Null \notin Job \cup Worker
ASSUME JobAssumption == NoRestart \subseteq Job
ASSUME WorkerAssumption == Mortal \subseteq Worker
ASSUME BoundAssumption == MaxClaims \in Nat /\ MaxRequeues \in Nat
ASSUME SwitchAssumption ==
  /\ Timely \in BOOLEAN
  /\ PromptHandlers \in BOOLEAN
  /\ DbFailures \in BOOLEAN

VARIABLES
  \* columns of the Job row
  state,        \* CurrentState; "Absent" before the insert, "Purged" after the delete
  owner,        \* CurrentWorkerId
  keepAlive,    \* LastKeepAlive: "none" (NULL), "fresh" or "stale"
  cancelling,   \* CancellationMode = Graceful
  expires,      \* ExpireAt is set
  \* the worker loops
  pc,           \* where GetAndProcessJob is
  task,         \* the claimed job
  snapshot,     \* CancellationMode of the tracked entity when it was claimed
  token,        \* the handler's CancellationToken is cancelled
  monitor,      \* RunJobMonitor: "off", "waiting", or "updating" (it read None)
  watched,      \* the job it was started for
  outcome,      \* the state the job is about to be given
  threw,        \* the handler, or the first save, threw
  tracked,      \* outcome of a failed first save: its counters are still tracked
  \* the other actors
  condemned,    \* ids ExpirationCleanup has selected and not yet deleted
  \* accounts
  stats,        \* each job's share of the counters stats:succeeded, :failed, :deleted
  asked,        \* DeleteJob was called on the job since it was published or requeued
  claims,       \* executions begun, per job
  grants,       \* executions authorised, per job
  requeues      \* RequeueJob calls that changed the job

row == <<state, owner, keepAlive, cancelling, expires>>
loops == <<pc, task, snapshot, token, monitor, watched, outcome, threw, tracked>>
accounts == <<stats, asked, claims, grants, requeues>>
vars == <<row, loops, condemned, accounts>>

Finished == {"Completed", "Failed", "Deleted"}
Queued == {"Enqueued", "Scheduled"}
Outcome == Finished \cup Queued
RowState == {"Absent", "Processing", "Purged"} \cup Outcome

Present(j) == state[j] \notin {"Absent", "Purged"}
Holds(w, j) == pc[w] \in {"claimed", "running", "leaving"} /\ task[w] = j

TypeOK ==
  /\ state \in [Job -> RowState]
  /\ owner \in [Job -> Worker \cup {Null}]
  /\ keepAlive \in [Job -> {"none", "fresh", "stale"}]
  /\ cancelling \in [Job -> BOOLEAN]
  /\ expires \in [Job -> BOOLEAN]
  /\ pc \in [Worker -> {"idle", "claimed", "running", "leaving", "down"}]
  /\ task \in [Worker -> Job \cup {Null}]
  /\ snapshot \in [Worker -> BOOLEAN]
  /\ token \in [Worker -> BOOLEAN]
  /\ monitor \in [Worker -> {"off", "waiting", "updating"}]
  /\ watched \in [Worker -> Job \cup {Null}]
  /\ outcome \in [Worker -> Outcome \cup {"none"}]
  /\ threw \in [Worker -> BOOLEAN]
  /\ tracked \in [Worker -> Outcome \cup {"none"}]
  /\ condemned \in SUBSET Job
  /\ stats \in [Job -> [Finished -> Int]]
  /\ asked \in [Job -> BOOLEAN]
  /\ claims \in [Job -> Nat]
  /\ grants \in [Job -> Nat]
  /\ requeues \in [Job -> Nat]
  /\ \A w \in Worker : pc[w] \in {"claimed", "running", "leaving"} => task[w] \in Job
  /\ \A w \in Worker : pc[w] = "leaving" => outcome[w] \in Outcome

Init ==
  /\ state = [j \in Job |-> "Absent"]
  /\ owner = [j \in Job |-> Null]
  /\ keepAlive = [j \in Job |-> "none"]
  /\ cancelling = [j \in Job |-> FALSE]
  /\ expires = [j \in Job |-> FALSE]
  /\ pc = [w \in Worker |-> "idle"]
  /\ task = [w \in Worker |-> Null]
  /\ snapshot = [w \in Worker |-> FALSE]
  /\ token = [w \in Worker |-> FALSE]
  /\ monitor = [w \in Worker |-> "off"]
  /\ watched = [w \in Worker |-> Null]
  /\ outcome = [w \in Worker |-> "none"]
  /\ threw = [w \in Worker |-> FALSE]
  /\ tracked = [w \in Worker |-> "none"]
  /\ condemned = {}
  /\ stats = [j \in Job |-> [f \in Finished |-> 0]]
  /\ asked = [j \in Job |-> FALSE]
  /\ claims = [j \in Job |-> 0]
  /\ grants = [j \in Job |-> 0]
  /\ requeues = [j \in Job |-> 0]

----------------------------------------------------------------------------
(* Counters.  A Counter row {key, +1 or -1} is the step of one share.      *)

One(b) == IF b THEN 1 ELSE 0

\* The counters of job j after a row with +1 for state s (none, if s is not finished).
Counted(j, s) == [f \in Finished |-> stats[j][f] + One(f = s)]

\* Mutant: the old state keeps its count.
MovedWithoutDecrement(j, from, to) == Counted(j, to)

\* The same after DecrementStatForState(from) and +1 for `to`.
Moved(j, from, to) == [f \in Finished |-> stats[j][f] + One(f = to) - One(f = from)]

\* CurrentWorkerId = NULL, LastKeepAlive = NULL on the rows of S.
Release(S) ==
  /\ owner' = [j \in Job |-> IF j \in S THEN Null ELSE owner[j]]
  /\ keepAlive' = [j \in Job |-> IF j \in S THEN "none" ELSE keepAlive[j]]

----------------------------------------------------------------------------
(* Publishing and activation.                                              *)

Publish(j) ==
  /\ state[j] = "Absent"
  /\ \E s \in Queued : state' = [state EXCEPT ![j] = s]
  /\ grants' = [grants EXCEPT ![j] = 1]
  /\ UNCHANGED <<owner, keepAlive, cancelling, expires, loops, condemned,
                 stats, asked, claims, requeues>>

\* One UPDATE flips every due Scheduled row; which are due is left open.
ActivateScheduled ==
  \E due \in SUBSET {j \in Job : state[j] = "Scheduled"} :
    /\ due # {}
    /\ state' = [j \in Job |-> IF j \in due THEN "Enqueued" ELSE state[j]]
    /\ UNCHANGED <<owner, keepAlive, cancelling, expires, loops, condemned, accounts>>

----------------------------------------------------------------------------
(* A worker: GetAndProcessJob.                                             *)

\* RunJobMonitor returns.
MonitorEnds(w) ==
  /\ monitor' = [monitor EXCEPT ![w] = "off"]
  /\ watched' = [watched EXCEPT ![w] = Null]

\* GetAndProcessJob is left and its locals are gone; the monitor is a task of its own.
Leave(w, where) ==
  /\ pc' = [pc EXCEPT ![w] = where]
  /\ task' = [task EXCEPT ![w] = Null]
  /\ snapshot' = [snapshot EXCEPT ![w] = FALSE]
  /\ token' = [token EXCEPT ![w] = FALSE]
  /\ outcome' = [outcome EXCEPT ![w] = "none"]
  /\ threw' = [threw EXCEPT ![w] = FALSE]
  /\ tracked' = [tracked EXCEPT ![w] = "none"]

\* Mutants: the claim also takes rows in flight; it shuns rows marked for cancelling.
ClaimableInFlight(j) == state[j] \in {"Enqueued", "Processing"}
ClaimableUnmarked(j) == state[j] = "Enqueued" /\ ~cancelling[j]

\* The rows the claim statement may take.
Claimable(j) == state[j] = "Enqueued"

\* Mutant: the claim leaves LastKeepAlive to the monitor.
TakeWithoutKeepAlive(w, j) ==
  /\ state' = [state EXCEPT ![j] = "Processing"]
  /\ owner' = [owner EXCEPT ![j] = w]
  /\ UNCHANGED keepAlive

\* The SET clause of the claim statement.
Take(w, j) ==
  /\ state' = [state EXCEPT ![j] = "Processing"]
  /\ owner' = [owner EXCEPT ![j] = w]
  /\ keepAlive' = [keepAlive EXCEPT ![j] = "fresh"]

\* UPDATE ... RETURNING: the row, and the tracked copy the worker keeps of it.
Claim(w, j) ==
  /\ pc[w] = "idle"
  /\ Claimable(j)
  /\ claims[j] < MaxClaims
  /\ Take(w, j)
  /\ claims' = [claims EXCEPT ![j] = @ + 1]
  /\ pc' = [pc EXCEPT ![w] = "claimed"]
  /\ task' = [task EXCEPT ![w] = j]
  /\ snapshot' = [snapshot EXCEPT ![w] = cancelling[j]]
  /\ UNCHANGED <<cancelling, expires, token, monitor, watched, outcome, threw, tracked,
                 condemned, stats, asked, grants, requeues>>

\* The "Processing" log row is saved; the monitor and the handler start.
Begin(w) ==
  /\ pc[w] = "claimed"
  /\ Present(task[w])
  /\ pc' = [pc EXCEPT ![w] = "running"]
  /\ monitor' = [monitor EXCEPT ![w] = "waiting"] /\ watched' = [watched EXCEPT ![w] = task[w]]
  /\ UNCHANGED <<row, task, snapshot, token, outcome, threw, tracked, condemned, accounts>>

\* RunJobMonitor's first statement: read CancellationMode (None when the row is gone).
MonitorRead(w) ==
  /\ monitor[w] = "waiting"
  /\ IF cancelling[watched[w]] /\ Present(watched[w])
     THEN token' = [token EXCEPT ![w] = TRUE] /\ MonitorEnds(w)
     ELSE monitor' = [monitor EXCEPT ![w] = "updating"] /\ UNCHANGED <<token, watched>>
  /\ UNCHANGED <<row, pc, task, snapshot, outcome, threw, tracked, condemned, accounts>>

\* Its second: LastKeepAlive = now WHERE Id = the job, whatever state the row is in; if
\* it fails, the loop goes on.  The loop ends if the handler has.
MonitorUpdate(w) ==
  /\ monitor[w] = "updating"
  /\ \/ Present(watched[w]) /\ keepAlive' = [keepAlive EXCEPT ![watched[w]] = "fresh"]
     \/ (DbFailures \/ ~Present(watched[w])) /\ UNCHANGED keepAlive
  /\ IF pc[w] = "running"
     THEN monitor' = [monitor EXCEPT ![w] = "waiting"] /\ UNCHANGED watched
     ELSE MonitorEnds(w)
  /\ UNCHANGED <<state, owner, cancelling, expires, pc, task, snapshot, token,
                 outcome, threw, tracked, condemned, accounts>>

\* Its delay is interrupted: the handler is done, or the host is stopping.
MonitorStop(w) ==
  /\ monitor[w] = "waiting"
  /\ MonitorEnds(w)
  /\ UNCHANGED <<row, pc, task, snapshot, token, outcome, threw, tracked, condemned, accounts>>

\* What a handler and its pipeline may end in: any outcome by returning, and by throwing as
\* well, for a JobOutcome set before the throw stands.
ReturnedUnchecked == Outcome \cup {"Processing"}    \* Mutant: any State is an outcome
Returned == Outcome

HandlerEnds(w) ==
  /\ pc[w] = "running"
  /\ \E failed \in BOOLEAN, s \in Returned :
       /\ outcome' = [outcome EXCEPT ![w] = s]
       /\ threw' = [threw EXCEPT ![w] = failed]
  /\ pc' = [pc EXCEPT ![w] = "leaving"]
  /\ UNCHANGED <<row, task, snapshot, token, monitor, watched, tracked, condemned, accounts>>

\* SaveChanges writes only the columns whose value differs from the claimed entity:
\* CancellationMode = None is written only if it was not None at the claim.
ModeAfterSave(w) == IF snapshot[w] THEN FALSE ELSE cancelling[task[w]]

\* Mutant: every finished row is retained for a while.
ExpiryOfFinished(w) == outcome[w] \in Finished \/ expires[task[w]]

\* ExpireAt is written by the outcomes that retain the row for a while only.
ExpiryAfterSave(w) ==
  ({outcome[w], tracked[w]} \cap {"Completed", "Deleted"} # {}) \/ expires[task[w]]

\* Mutant: the worker does not wait for the monitor it has told to stop.
UnjoinedMonitor(w) == TRUE

\* The monitor task has been awaited.
MonitorJoined(w) == monitor[w] = "off"

\* FinalizeJobState and its save, by Id alone; the counters of a failed first save
\* go out with it.
Finalize(w) ==
  LET j == task[w] IN
  /\ pc[w] = "leaving"
  /\ MonitorJoined(w)
  /\ Present(j)
  /\ state' = [state EXCEPT ![j] = outcome[w]]
  /\ Release({j})
  /\ cancelling' = [cancelling EXCEPT ![j] = ModeAfterSave(w)]
  /\ expires' = [expires EXCEPT ![j] = ExpiryAfterSave(w)]
  /\ stats' = [stats EXCEPT ![j] =
       [f \in Finished |-> @[f] + One(f = outcome[w]) + One(f = tracked[w])]]
  /\ grants' = [grants EXCEPT ![j] = @ + One(outcome[w] \in Queued)]
  /\ Leave(w, "idle")
  /\ UNCHANGED <<monitor, watched, condemned, asked, claims, requeues>>

\* The save of the success path throws inside the try block: catch (Exception) runs
\* FinalizeJobState again on the same context.  A pipeline's JobOutcome stands; without one
\* the job, Completed so far, has Failed now.
SaveFails(w) ==
  /\ DbFailures
  /\ pc[w] = "leaving"
  /\ MonitorJoined(w)
  /\ ~threw[w]
  /\ threw' = [threw EXCEPT ![w] = TRUE]
  /\ tracked' = [tracked EXCEPT ![w] = outcome[w]]
  /\ \E s \in {outcome[w]} \cup (IF outcome[w] = "Completed" THEN {"Failed"} ELSE {}) :
       outcome' = [outcome EXCEPT ![w] = s]
  /\ UNCHANGED <<row, pc, task, snapshot, token, monitor, watched, condemned, accounts>>

\* A save outside the try block, or in a catch block, throws (always, when the row is
\* gone): the loop goes on and the row stays as it is.
Abandon(w) ==
  /\ pc[w] \in {"claimed", "leaving"}
  /\ MonitorJoined(w)
  /\ DbFailures \/ ~Present(task[w])
  /\ Leave(w, "idle")
  /\ UNCHANGED <<monitor, watched, row, condemned, accounts>>

Crash(w) ==
  /\ w \in Mortal
  /\ pc[w] # "down"
  /\ Leave(w, "down") /\ MonitorEnds(w)
  /\ UNCHANGED <<row, condemned, accounts>>

----------------------------------------------------------------------------
(* Time, StaleJobRecovery and ExpirationCleanup.                           *)

\* InvisibilityTimeout runs out on j's keep-alive.  A live worker that holds j lets
\* it happen only as the switches allow: if it is slow, or if its handler runs on
\* after the monitor has left.
MayAge(j) ==
  \A w \in Worker : Holds(w, j) =>
    \/ ~Timely
    \/ ~PromptHandlers /\ pc[w] = "running" /\ monitor[w] = "off"

KeepAliveAges(j) ==
  /\ keepAlive[j] = "fresh"
  /\ MayAge(j)
  /\ keepAlive' = [keepAlive EXCEPT ![j] = "stale"]
  /\ UNCHANGED <<state, owner, cancelling, expires, loops, condemned, accounts>>

\* Mutants: no timeout; rows marked for cancelling are left to their worker.
StaleAtOnce(j) == state[j] = "Processing"
StaleUnmarked(j) == state[j] = "Processing" /\ keepAlive[j] = "stale" /\ ~cancelling[j]

Stale(j) == state[j] = "Processing" /\ keepAlive[j] = "stale"

\* Mutant: CanBeRestarted is not looked at.
RecoveredAlways(j) == IF cancelling[j] THEN "Deleted" ELSE "Enqueued"

RecoveredState(j) ==
  CASE cancelling[j] -> "Deleted"
    [] ~cancelling[j] /\ j \in NoRestart -> "Failed"
    [] OTHER -> "Enqueued"

\* One transaction over the stale rows it could lock (SKIP LOCKED: any of them).
RecoverStale ==
  \E S \in SUBSET {j \in Job : Stale(j)} :
    LET New(j) == RecoveredState(j) IN
    /\ S # {}
    /\ state' = [j \in Job |-> IF j \in S THEN New(j) ELSE state[j]]
    /\ Release(S)
    /\ cancelling' = [j \in Job |-> cancelling[j] /\ j \notin S]
    /\ expires' = [j \in Job |-> CASE j \in S /\ New(j) = "Deleted" -> TRUE
                                   [] j \in S /\ New(j) = "Failed" -> FALSE
                                   [] OTHER -> expires[j]]
    /\ stats' = [j \in Job |-> IF j \in S THEN Counted(j, New(j)) ELSE stats[j]]
    /\ grants' = [j \in Job |-> grants[j] + One(j \in S \ NoRestart /\ New(j) = "Enqueued")]
    /\ UNCHANGED <<loops, condemned, asked, claims, requeues>>

\* Expired, or over MaxExpirableJobCount: either way a row with ExpireAt.
CleanupSelect ==
  /\ condemned = {}
  /\ \E S \in SUBSET {j \in Job : Present(j) /\ expires[j]} :
       S # {} /\ condemned' = S
  /\ UNCHANGED <<row, loops, accounts>>

\* DELETE ... WHERE Id IN the selected ids.
CleanupDelete ==
  /\ condemned # {}
  /\ state' = [j \in Job |-> IF j \in condemned THEN "Purged" ELSE state[j]]
  /\ Release(condemned)
  /\ cancelling' = [j \in Job |-> cancelling[j] /\ j \notin condemned]
  /\ expires' = [j \in Job |-> expires[j] /\ j \notin condemned]
  /\ condemned' = {}
  /\ UNCHANGED <<loops, accounts>>

----------------------------------------------------------------------------
(* The user: DeleteJob and RequeueJob, under the row lock.                 *)

DeleteProcessing(j) ==
  /\ state[j] = "Processing"
  /\ cancelling' = [cancelling EXCEPT ![j] = TRUE]
  /\ asked' = [asked EXCEPT ![j] = TRUE]
  /\ UNCHANGED <<state, owner, keepAlive, expires, loops, condemned,
                 stats, claims, grants, requeues>>

DeleteIdle(j) ==
  /\ state[j] \in Outcome \ {"Deleted"}
  /\ state' = [state EXCEPT ![j] = "Deleted"]
  /\ expires' = [expires EXCEPT ![j] = TRUE]
  /\ stats' = [stats EXCEPT ![j] = Moved(j, state[j], "Deleted")]
  /\ UNCHANGED <<owner, keepAlive, cancelling, loops, condemned, asked, claims, grants,
                 requeues>>

DeleteJob(j) == DeleteProcessing(j) \/ DeleteIdle(j)

RequeueJob(j) ==
  /\ state[j] \in Outcome \ {"Enqueued"}
  /\ requeues[j] < MaxRequeues
  /\ state' = [state EXCEPT ![j] = "Enqueued"]
  /\ expires' = [expires EXCEPT ![j] = FALSE]
  /\ stats' = [stats EXCEPT ![j] = Moved(j, state[j], "Enqueued")]
  /\ grants' = [grants EXCEPT ![j] = @ + One(state[j] \in Finished)]
  /\ requeues' = [requeues EXCEPT ![j] = @ + 1]
  /\ asked' = [asked EXCEPT ![j] = FALSE]
  /\ UNCHANGED <<owner, keepAlive, cancelling, loops, condemned, claims>>
----------------------------------------------------------------------------
Next ==
  \/ \E j \in Job : Publish(j)
  \/ ActivateScheduled
  \/ \E w \in Worker, j \in Job : Claim(w, j)
  \/ \E w \in Worker : Begin(w)
  \/ \E w \in Worker : MonitorRead(w)
  \/ \E w \in Worker : MonitorUpdate(w)
  \/ \E w \in Worker : MonitorStop(w)
  \/ \E w \in Worker : HandlerEnds(w)
  \/ \E w \in Worker : Finalize(w)
  \/ \E w \in Worker : SaveFails(w)
  \/ \E w \in Worker : Abandon(w)
  \/ \E w \in Worker : Crash(w)
  \/ \E j \in Job : KeepAliveAges(j)
  \/ RecoverStale
  \/ CleanupSelect
  \/ CleanupDelete
  \/ \E j \in Job : DeleteJob(j)
  \/ \E j \in Job : RequeueJob(j)

Spec == Init /\ [][Next]_vars

(***************************************************************************)
(* Fairness.  The worker loops, the monitors and the server tasks run on   *)
(* timers for as long as their process lives, handlers are assumed to      *)
(* return, and a keep-alive nothing refreshes grows old.  Users owe        *)
(* nothing, saves may fail for ever, and nobody has to crash.              *)
(***************************************************************************)
WorkerFairness(w) ==
  /\ WF_vars(\E j \in Job : Claim(w, j))
  /\ WF_vars(Begin(w))
  /\ WF_vars(MonitorUpdate(w))
  /\ WF_vars(pc[w] = "leaving" /\ MonitorStop(w))
  /\ WF_vars(HandlerEnds(w))
  /\ WF_vars(Finalize(w) \/ Abandon(w))

Fairness ==
  /\ \A w \in Worker : WorkerFairness(w)
  /\ WF_vars(ActivateScheduled)
  /\ \A j \in Job : WF_vars(KeepAliveAges(j))
  /\ WF_vars(RecoverStale)
  /\ WF_vars(CleanupDelete)

FairSpec == Spec /\ Fairness

----------------------------------------------------------------------------
(* Properties that hold whatever the switches say.                         *)

\* No claimed job is out of StaleJobRecovery's sight: its query skips rows whose
\* LastKeepAlive is NULL, so a Processing row without one would be stuck for good.
ProcessingIsRecoverable ==
  \A j \in Job : state[j] = "Processing" => keepAlive[j] # "none" /\ owner[j] # Null

\* An execution begins only if it was authorised: by the publisher, by the handler's
\* own outcome, by RequeueJob, or by crash recovery for a job that may be restarted.
\* For a NoRestart job this is the promise that a crash never runs it again.
ExecutionsAuthorised ==
  \A j \in Job : claims[j] <= grants[j]

(* Properties of the intended regime: nobody overruns InvisibilityTimeout and *)
(* no save fails.                                                             *)

\* A worker that has claimed a job is the one its row names, until it finalizes it:
\* nobody executes or finalizes a job that another worker, recovery or a user has moved.
ClaimIsExclusive ==
  \A w \in Worker, j \in Job :
    Holds(w, j) => state[j] = "Purged" \/ (state[j] = "Processing" /\ owner[j] = w)

\* Counters and states agree: stats:succeeded, stats:failed and stats:deleted count the
\* jobs in Completed, Failed and Deleted, through cancellations, requeues and recoveries.
StatsAgree ==
  \A j \in Job : Present(j) => stats[j] = [f \in Finished |-> One(f = state[j])]

\* Only a Completed or Deleted row has an ExpireAt, so no unfinished job and no Failed
\* one is ever up for removal.
OnlyRetainedRowsExpire ==
  \A j \in Job : Present(j) /\ expires[j] => state[j] \in {"Completed", "Deleted"}

\* A row nobody executes carries no owner and no keep-alive: the monitor of a finished
\* execution never writes after its finalization.
IdleRowsAreClean ==
  \A j \in Job : Present(j) /\ state[j] # "Processing" =>
    owner[j] = Null /\ keepAlive[j] = "none"

(* What all this amounts to: the table's promise.                          *)

PhaseOf(s) ==
  CASE s = "Absent" -> "absent"
    [] s \in Queued -> "waiting"
    [] s = "Processing" -> "running"
    [] s = "Purged" -> "gone"
    [] OTHER -> s

Promise == INSTANCE JobPromise WITH
  phase <- [j \in Job |-> PhaseOf(state[j])],
  runner <- owner,
  busy <- task,
  tally <- stats

\* The table, its workers and its server tasks implement JobPromise: one run at a time,
\* ended only by the worker busy with it, taken over only when nobody is, and the
\* totals moving in the same step as the job.
KeepsPromise == Promise!Spec

(* Liveness.                                                               *)

\* No job stays Processing: its worker finalizes it, or recovery takes it over.
ProcessingEnds == \A j \in Job : state[j] = "Processing" ~> state[j] # "Processing"

\* A queued job is claimed, moved by a user, or out of the claim bound.
QueuedIsTaken ==
  \A j \in Job : state[j] \in Queued ~> state[j] \notin Queued \/ claims[j] = MaxClaims

(* Properties that documents state and that some regime violates.          *)

\* A handler is cancelled only if DeleteJob asked for it since the job was requeued.
CancelledOnRequest ==
  \A w \in Worker : pc[w] = "running" /\ token[w] => asked[task[w]]

\* Only Completed and Deleted rows are removed.
OnlyRetainedRowsPurged ==
  [][\A j \in Job : state[j] # "Purged" /\ state'[j] = "Purged" =>
       state[j] \in {"Completed", "Deleted"}]_vars

============================================================================
