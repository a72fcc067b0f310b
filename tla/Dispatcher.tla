----------------------------- MODULE Dispatcher -----------------------------
(***************************************************************************)
(* Dispatcher mode: one WarpDispatcher per group of workers claims several *)
(* jobs at once and hands them to its workers through a bounded channel;   *)
(* each WarpDispatcherWorker buffers what its jobs ended in and flushes    *)
(* the buffer in one transaction, which it splits when it fails.           *)
(*                                                                         *)
(* A claimed job is in the dispatcher's hands, in the channel, with a      *)
(* worker, in its buffer, or in a flush.  Only while its handler runs does *)
(* a monitor refresh its keep-alive.  Plain jobs that may be restarted, as *)
(* in JobLifecycle, whose actions appear here as far as they matter; a     *)
(* Scheduled row counts as Enqueued.                                       *)
(***************************************************************************)
EXTENDS Integers, FiniteSets, SequencesExt

CONSTANTS
  Job, Worker,
  Group,         \* dispatchers, each with a process of its own
  Null,          \* no owner, no job
  GroupOf,       \* the group of each worker
  Mortal,        \* groups whose process may die, or be killed when a shutdown takes too long
  BatchSize,     \* CompletionBatchSize
  MaxClaims,     \* bound: claims of one job
  LongHandlers,  \* a handler may run for longer than InvisibilityTimeout
  DbFailures     \* statements may fail

ASSUME NullAssumption == Null \notin Job \cup Worker \cup Group
ASSUME JobAssumption == IsFiniteSet(Job)
ASSUME GroupAssumption ==
  /\ GroupOf \in [Worker -> Group] /\ Mortal \subseteq Group
  /\ IsFiniteSet(Worker) /\ \A g \in Group : \E w \in Worker : GroupOf[w] = g
ASSUME BoundAssumption == BatchSize \in Nat \ {0} /\ MaxClaims \in Nat
ASSUME SwitchAssumption == LongHandlers \in BOOLEAN /\ DbFailures \in BOOLEAN

VARIABLES
  \* columns of the Job row
  state, owner, keepAlive, cancelling,
  \* the dispatchers
  stopping,    \* the host has cancelled stoppingToken
  phase,       \* where FetchAndDistribute is
  claimed,     \* jobs claimed and not yet delivered
  channel,     \* the bounded channel of the group
  \* the workers
  pc,          \* where ExecuteAsync is
  task,        \* the job received
  monitor,     \* RunJobMonitor: "off", "waiting", or "updating"
  outcome,     \* the state its job is about to be given
  buffer,      \* CompletionBatch: completions to be flushed
  ranges,      \* the parts of the drained buffer still to be written
  \* accounts
  stats,       \* each job's share of the counters
  claims,      \* claims of each job
  dropped      \* jobs given up because something failed

row == <<state, owner, keepAlive, cancelling>>
dispatchers == <<stopping, phase, claimed, channel>>
workers == <<pc, task, monitor, outcome, buffer, ranges>>
accounts == <<stats, claims, dropped>>
vars == <<row, dispatchers, workers, accounts>>

Finished == {"Completed", "Failed", "Deleted"}
Outcome == Finished \cup {"Enqueued"}
Completion == [job : Job, to : Outcome]
Capacity(g) == Cardinality({w \in Worker : GroupOf[w] = g})

TypeOK ==
  /\ state \in [Job -> Outcome \cup {"Absent", "Processing"}]
  /\ owner \in [Job -> Worker \cup Group \cup {Null}]
  /\ keepAlive \in [Job -> {"none", "fresh", "stale"}]
  /\ cancelling \in [Job -> BOOLEAN]
  /\ stopping \in [Group -> BOOLEAN]
  /\ phase \in [Group -> {"polling", "delivering", "stopped", "dead"}]
  /\ \A g \in Group : claimed[g] \in Seq(Job) /\ channel[g] \in Seq(Job)
  /\ pc \in [Worker -> {"idle", "received", "running", "leaving", "flushing", "stopped", "dead"}]
  /\ task \in [Worker -> Job \cup {Null}]
  /\ monitor \in [Worker -> {"off", "waiting", "updating"}]
  /\ outcome \in [Worker -> Outcome \cup {"none"}]
  /\ \A w \in Worker : buffer[w] \in Seq(Completion) /\ ranges[w] \in Seq(Seq(Completion))
  /\ stats \in [Job -> [Finished -> Int]]
  /\ claims \in [Job -> 0..MaxClaims]
  /\ dropped \subseteq Job

Init ==
  /\ state = [j \in Job |-> "Absent"] /\ owner = [j \in Job |-> Null]
  /\ keepAlive = [j \in Job |-> "none"] /\ cancelling = [j \in Job |-> FALSE]
  /\ stopping = [g \in Group |-> FALSE] /\ phase = [g \in Group |-> "polling"]
  /\ claimed = [g \in Group |-> <<>>] /\ channel = [g \in Group |-> <<>>]
  /\ pc = [w \in Worker |-> "idle"] /\ task = [w \in Worker |-> Null]
  /\ monitor = [w \in Worker |-> "off"] /\ outcome = [w \in Worker |-> "none"]
  /\ buffer = [w \in Worker |-> <<>>] /\ ranges = [w \in Worker |-> <<>>]
  /\ stats = [j \in Job |-> [f \in Finished |-> 0]]
  /\ claims = [j \in Job |-> 0] /\ dropped = {}

One(b) == IF b THEN 1 ELSE 0

\* Mutant: the counter of the state that is left keeps its share.
MovedWithoutDecrement(j, from, to) == [f \in Finished |-> stats[j][f] + One(f = to)]

Moved(j, from, to) == [f \in Finished |-> stats[j][f] + One(f = to) - One(f = from)]

----------------------------------------------------------------------------
(* Who has a job.                                                          *)

JobsOf(entries) == {e.job : e \in ToSet(entries)}
InHand(w) == IF pc[w] \in {"received", "running", "leaving"} THEN {task[w]} ELSE {}
Unflushed(w) == JobsOf(buffer[w]) \cup UNION {JobsOf(r) : r \in ToSet(ranges[w])}
Undelivered(g) == ToSet(claimed[g]) \cup ToSet(channel[g])
Held(j) ==
  \/ \E g \in Group : j \in Undelivered(g)
  \/ \E w \in Worker : j \in InHand(w) \cup Unflushed(w)

----------------------------------------------------------------------------
(* A dispatcher.                                                           *)

Room(g) == Capacity(g) - Len(channel[g])

\* The rows are claimed, and the answer reaches the dispatcher, unless the statement fails
\* after its commit or is cancelled by a shutdown.
Claim(g) ==
  /\ phase[g] = "polling" /\ ~stopping[g]
  /\ \E S \in SUBSET {j \in Job : state[j] = "Enqueued" /\ claims[j] < MaxClaims} :
       /\ S # {} /\ Cardinality(S) <= Room(g)
       /\ state' = [j \in Job |-> IF j \in S THEN "Processing" ELSE state[j]]
       /\ owner' = [j \in Job |-> IF j \in S THEN g ELSE owner[j]]
       /\ keepAlive' = [j \in Job |-> IF j \in S THEN "fresh" ELSE keepAlive[j]]
       /\ claims' = [j \in Job |-> claims[j] + One(j \in S)]
       /\ \/ /\ \E order \in SetToSeqs(S) : claimed' = [claimed EXCEPT ![g] = order]
             /\ phase' = [phase EXCEPT ![g] = "delivering"]
             /\ UNCHANGED dropped
          \/ /\ dropped' = dropped \cup S
             /\ UNCHANGED <<claimed, phase>>
  /\ UNCHANGED <<cancelling, stopping, channel, workers, stats>>

\* WriteAsync: it waits for room, and a cancelled token makes it throw.
Deliver(g) ==
  /\ phase[g] = "delivering" /\ ~stopping[g]
  /\ Len(channel[g]) < Capacity(g)
  /\ channel' = [channel EXCEPT ![g] = Append(@, Head(claimed[g]))]
  /\ claimed' = [claimed EXCEPT ![g] = Tail(@)]
  /\ phase' = [phase EXCEPT ![g] = IF Len(claimed[g]) = 1 THEN "polling" ELSE @]
  /\ UNCHANGED <<row, stopping, workers, accounts>>

Shutdown(g) ==
  /\ phase[g] # "dead" /\ ~stopping[g]
  /\ stopping' = [stopping EXCEPT ![g] = TRUE]
  /\ UNCHANGED <<row, phase, claimed, channel, workers, accounts>>

\* Mutant: an exception leaves the loop past the finally block.
LoopLeak(g) == phase[g]

\* The finally block completes the channel's writer.
LoopExit(g) == "stopped"

\* Mutants: the jobs already delivered are taken back with the others; one job too many is
\* taken for delivered.
TakenBackAll(g) == Undelivered(g)
TakenBackTail(g) == ToSet(Tail(claimed[g]))

\* The rows of jobs.Skip(delivered).
TakenBack(g) == ToSet(claimed[g])

\* WriteAsync throws: UnclaimUndelivered, by Id, whatever the rows are now; its failure
\* is logged.
Unclaim(g) ==
  /\ phase[g] = "delivering" /\ stopping[g]
  /\ \/ LET S == TakenBack(g) IN
        /\ state' = [j \in Job |-> IF j \in S THEN "Enqueued" ELSE state[j]]
        /\ owner' = [j \in Job |-> IF j \in S THEN Null ELSE owner[j]]
        /\ keepAlive' = [j \in Job |-> IF j \in S THEN "none" ELSE keepAlive[j]]
        /\ UNCHANGED dropped
     \/ /\ DbFailures
        /\ dropped' = dropped \cup TakenBack(g)
        /\ UNCHANGED <<state, owner, keepAlive>>
  /\ claimed' = [claimed EXCEPT ![g] = <<>>]
  /\ phase' = [phase EXCEPT ![g] = LoopExit(g)]
  /\ UNCHANGED <<cancelling, stopping, channel, workers, stats, claims>>

\* The loop sees the token.
StopPolling(g) ==
  /\ phase[g] = "polling" /\ stopping[g]
  /\ phase' = [phase EXCEPT ![g] = LoopExit(g)]
  /\ UNCHANGED <<row, stopping, claimed, channel, workers, accounts>>

----------------------------------------------------------------------------
(* A worker.                                                               *)

\* TryRead: the flush of a full buffer comes first.
Receive(w) ==
  LET g == GroupOf[w] IN
  /\ pc[w] = "idle" /\ channel[g] # <<>> /\ Len(buffer[w]) < BatchSize
  /\ task' = [task EXCEPT ![w] = Head(channel[g])]
  /\ channel' = [channel EXCEPT ![g] = Tail(@)]
  /\ pc' = [pc EXCEPT ![w] = "received"]
  /\ UNCHANGED <<row, stopping, phase, claimed, monitor, outcome, buffer, ranges, accounts>>

\* MarkWorkerOwnership, by Id, whatever the row is now; then monitor and handler start.
Begin(w) ==
  /\ pc[w] = "received"
  /\ owner' = [owner EXCEPT ![task[w]] = w]
  /\ pc' = [pc EXCEPT ![w] = "running"]
  /\ monitor' = [monitor EXCEPT ![w] = "waiting"]
  /\ UNCHANGED <<state, keepAlive, cancelling, dispatchers, task, outcome, buffer, ranges,
                 accounts>>

\* Its update or the save of its log throws: the worker goes on with the next job.
BeginFails(w) ==
  /\ DbFailures /\ pc[w] = "received"
  /\ owner' = [owner EXCEPT ![task[w]] = w] \/ UNCHANGED owner
  /\ dropped' = dropped \cup {task[w]}
  /\ pc' = [pc EXCEPT ![w] = "idle"] /\ task' = [task EXCEPT ![w] = Null]
  /\ UNCHANGED <<state, keepAlive, cancelling, dispatchers, monitor, outcome, buffer, ranges,
                 stats, claims>>

\* The monitor reads CancellationMode; if it is Graceful the handler's token is cancelled.
MonitorRead(w) ==
  /\ monitor[w] = "waiting"
  /\ monitor' = [monitor EXCEPT ![w] = IF cancelling[task[w]] THEN "off" ELSE "updating"]
  /\ UNCHANGED <<row, dispatchers, pc, task, outcome, buffer, ranges, accounts>>

MonitorUpdate(w) ==
  /\ monitor[w] = "updating"
  /\ \/ keepAlive' = [keepAlive EXCEPT ![task[w]] = "fresh"]
     \/ DbFailures /\ UNCHANGED keepAlive
  /\ monitor' = [monitor EXCEPT ![w] = IF pc[w] = "running" THEN "waiting" ELSE "off"]
  /\ UNCHANGED <<state, owner, cancelling, dispatchers, pc, task, outcome, buffer, ranges,
                 accounts>>

\* The handler is done, or the host is stopping.
MonitorStop(w) ==
  /\ monitor[w] = "waiting" /\ (pc[w] = "leaving" \/ stopping[GroupOf[w]])
  /\ monitor' = [monitor EXCEPT ![w] = "off"]
  /\ UNCHANGED <<row, dispatchers, pc, task, outcome, buffer, ranges, accounts>>

\* What a handler and its pipeline may end in, by returning or by throwing.
EndedIn == Outcome

HandlerEnds(w) ==
  /\ pc[w] = "running"
  /\ \E s \in EndedIn : outcome' = [outcome EXCEPT ![w] = s]
  /\ pc' = [pc EXCEPT ![w] = "leaving"]
  /\ UNCHANGED <<row, dispatchers, task, monitor, buffer, ranges, accounts>>

MonitorJoined(w) == monitor[w] = "off"

\* BuildFinalization on the worker's copy, and _batch.Add.
Complete(w) ==
  /\ pc[w] = "leaving" /\ MonitorJoined(w)
  /\ buffer' = [buffer EXCEPT ![w] = Append(@, [job |-> task[w], to |-> outcome[w]])]
  /\ pc' = [pc EXCEPT ![w] = "idle"]
  /\ task' = [task EXCEPT ![w] = Null] /\ outcome' = [outcome EXCEPT ![w] = "none"]
  /\ UNCHANGED <<row, dispatchers, monitor, ranges, accounts>>

----------------------------------------------------------------------------
(* CompletionBatch.FlushAsync: when the buffer is full or old, when the    *)
(* channel is empty, and at the end.                                       *)

StartFlush(w) ==
  /\ pc[w] = "idle" /\ buffer[w] # <<>>
  /\ ranges' = [ranges EXCEPT ![w] = <<buffer[w]>>]
  /\ buffer' = [buffer EXCEPT ![w] = <<>>]
  /\ pc' = [pc EXCEPT ![w] = "flushing"]
  /\ UNCHANGED <<row, dispatchers, task, monitor, outcome, accounts>>

\* One transaction cannot attach two copies of a row.
Attachable(r) == Cardinality(JobsOf(r)) = Len(r)
GoOn(w, rest) ==
  /\ ranges' = [ranges EXCEPT ![w] = rest]
  /\ pc' = [pc EXCEPT ![w] = IF rest = <<>> THEN "idle" ELSE @]

\* All columns of each entity are written, by Id, and the counters with them.  If the
\* commit's answer is lost, so is the rest.
FlushRange(w) ==
  /\ pc[w] = "flushing" /\ Attachable(Head(ranges[w]))
  /\ LET r == ToSet(Head(ranges[w]))
         hit == JobsOf(Head(ranges[w]))
         To(j) == (CHOOSE e \in r : e.job = j).to IN
     /\ state' = [j \in Job |-> IF j \in hit THEN To(j) ELSE state[j]]
     /\ owner' = [j \in Job |-> IF j \in hit THEN Null ELSE owner[j]]
     /\ keepAlive' = [j \in Job |-> IF j \in hit THEN "none" ELSE keepAlive[j]]
     /\ cancelling' = [j \in Job |-> cancelling[j] /\ j \notin hit]
     /\ stats' = [j \in Job |-> IF j \in hit THEN Moved(j, "Processing", To(j)) ELSE stats[j]]
  /\ \/ GoOn(w, Tail(ranges[w])) /\ UNCHANGED dropped
     \/ /\ DbFailures
        /\ GoOn(w, <<>>)
        /\ dropped' = dropped \cup UNION {JobsOf(r) : r \in ToSet(Tail(ranges[w]))}
  /\ UNCHANGED <<dispatchers, task, monitor, outcome, buffer, claims>>

\* The range is cut in two.
Halves(r) == <<SubSeq(r, 1, Len(r) \div 2), SubSeq(r, Len(r) \div 2 + 1, Len(r))>>

\* DbUpdateException: halves, until a single entry fails and is dropped.
SplitRange(w) ==
  LET r == Head(ranges[w]) IN
  /\ DbFailures /\ pc[w] = "flushing" /\ Attachable(r)
  /\ IF Len(r) = 1
     THEN GoOn(w, Tail(ranges[w])) /\ dropped' = dropped \cup JobsOf(r)
     ELSE GoOn(w, Halves(r) \o Tail(ranges[w])) /\ UNCHANGED dropped
  /\ UNCHANGED <<row, dispatchers, task, monitor, outcome, buffer, stats, claims>>

\* Any other exception leaves the flush: what was drained and not written is lost.
FlushThrows(w) ==
  /\ pc[w] = "flushing" /\ (DbFailures \/ ~Attachable(Head(ranges[w])))
  /\ dropped' = dropped \cup Unflushed(w)
  /\ GoOn(w, <<>>)
  /\ UNCHANGED <<row, dispatchers, task, monitor, outcome, buffer, stats, claims>>

\* Mutant: the worker stops with its token, whatever is in the channel.
DrainedEnough(w) == stopping[GroupOf[w]]

\* WaitToReadAsync returns false.
Drained(w) == phase[GroupOf[w]] = "stopped" /\ channel[GroupOf[w]] = <<>>

StopWorker(w) ==
  /\ pc[w] = "idle" /\ buffer[w] = <<>> /\ Drained(w)
  /\ pc' = [pc EXCEPT ![w] = "stopped"]
  /\ UNCHANGED <<row, dispatchers, task, monitor, outcome, buffer, ranges, accounts>>

\* The process of the group dies, with all that was in its memory.
Crash(g) ==
  LET mine == {w \in Worker : GroupOf[w] = g}
      Wiped(f, with) == [w \in Worker |-> IF w \in mine THEN with ELSE f[w]] IN
  /\ g \in Mortal /\ phase[g] # "dead"
  /\ phase' = [phase EXCEPT ![g] = "dead"]
  /\ claimed' = [claimed EXCEPT ![g] = <<>>] /\ channel' = [channel EXCEPT ![g] = <<>>]
  /\ pc' = Wiped(pc, "dead") /\ task' = Wiped(task, Null)
  /\ monitor' = Wiped(monitor, "off") /\ outcome' = Wiped(outcome, "none")
  /\ buffer' = Wiped(buffer, <<>>) /\ ranges' = Wiped(ranges, <<>>)
  /\ dropped' = dropped \cup Undelivered(g) \cup UNION {InHand(w) \cup Unflushed(w) : w \in mine}
  /\ UNCHANGED <<row, stopping, stats, claims>>

----------------------------------------------------------------------------
(* The others: publisher, time, StaleJobRecovery, users.                   *)

Publish(j) ==
  /\ state[j] = "Absent"
  /\ state' = [state EXCEPT ![j] = "Enqueued"]
  /\ UNCHANGED <<owner, keepAlive, cancelling, dispatchers, workers, accounts>>

\* A job nobody holds ages.  One that is held does so only behind a long handler: in the
\* channel while every worker of the group runs one, in the buffer of a worker that does.
MayAge(j) ==
  \/ ~Held(j)
  \/ LongHandlers /\ \E w \in Worker :
       /\ pc[w] = "running"
       /\ \/ j \in JobsOf(buffer[w]) /\ task[w] # j
          \/ /\ j \in ToSet(channel[GroupOf[w]])
             /\ \A v \in Worker : GroupOf[v] = GroupOf[w] => pc[v] = "running"

KeepAliveAges(j) ==
  /\ keepAlive[j] = "fresh" /\ MayAge(j)
  /\ keepAlive' = [keepAlive EXCEPT ![j] = "stale"]
  /\ UNCHANGED <<state, owner, cancelling, dispatchers, workers, accounts>>

RecoverStale(j) ==
  /\ state[j] = "Processing" /\ keepAlive[j] = "stale"
  /\ LET new == IF cancelling[j] THEN "Deleted" ELSE "Enqueued" IN
     /\ state' = [state EXCEPT ![j] = new]
     /\ stats' = [stats EXCEPT ![j] = Moved(j, "Processing", new)]
  /\ owner' = [owner EXCEPT ![j] = Null] /\ keepAlive' = [keepAlive EXCEPT ![j] = "none"]
  /\ cancelling' = [cancelling EXCEPT ![j] = FALSE]
  /\ dropped' = dropped \ {j}
  /\ UNCHANGED <<dispatchers, workers, claims>>

DeleteJob(j) ==
  /\ state[j] \in {"Processing", "Enqueued", "Completed", "Failed"}
  /\ IF state[j] = "Processing"
     THEN cancelling' = [cancelling EXCEPT ![j] = TRUE] /\ UNCHANGED <<state, stats>>
     ELSE /\ state' = [state EXCEPT ![j] = "Deleted"]
          /\ stats' = [stats EXCEPT ![j] = Moved(j, state[j], "Deleted")]
          /\ UNCHANGED cancelling
  /\ UNCHANGED <<owner, keepAlive, dispatchers, workers, claims, dropped>>

RequeueJob(j) ==
  /\ state[j] \in Finished
  /\ state' = [state EXCEPT ![j] = "Enqueued"]
  /\ stats' = [stats EXCEPT ![j] = Moved(j, state[j], "Enqueued")]
  /\ UNCHANGED <<owner, keepAlive, cancelling, dispatchers, workers, claims, dropped>>

----------------------------------------------------------------------------
Next ==
  \/ \E g \in Group : Claim(g)
  \/ \E g \in Group : Deliver(g)
  \/ \E g \in Group : Shutdown(g)
  \/ \E g \in Group : Unclaim(g)
  \/ \E g \in Group : StopPolling(g)
  \/ \E g \in Group : Crash(g)
  \/ \E w \in Worker : Receive(w)
  \/ \E w \in Worker : Begin(w)
  \/ \E w \in Worker : BeginFails(w)
  \/ \E w \in Worker : MonitorRead(w)
  \/ \E w \in Worker : MonitorUpdate(w)
  \/ \E w \in Worker : MonitorStop(w)
  \/ \E w \in Worker : HandlerEnds(w)
  \/ \E w \in Worker : Complete(w)
  \/ \E w \in Worker : StartFlush(w)
  \/ \E w \in Worker : FlushRange(w)
  \/ \E w \in Worker : SplitRange(w)
  \/ \E w \in Worker : FlushThrows(w)
  \/ \E w \in Worker : StopWorker(w)
  \/ \E j \in Job : Publish(j)
  \/ \E j \in Job : KeepAliveAges(j)
  \/ \E j \in Job : RecoverStale(j)
  \/ \E j \in Job : DeleteJob(j)
  \/ \E j \in Job : RequeueJob(j)

Spec == Init /\ [][Next]_vars

(***************************************************************************)
(* Fairness.  Loops go on while their process lives, handlers return, and  *)
(* an abandoned keep-alive ages and is found.  A completed or failing      *)
(* statement is the database's choice; users owe nothing.                  *)
(***************************************************************************)
Fairness ==
  /\ \A g \in Group : WF_vars(Deliver(g)) /\ WF_vars(Unclaim(g)) /\ WF_vars(StopPolling(g))
  /\ \A w \in Worker :
       /\ WF_vars(Receive(w) \/ StartFlush(w) \/ StopWorker(w))
       /\ WF_vars(Begin(w) \/ BeginFails(w))
       /\ WF_vars(MonitorUpdate(w)) /\ WF_vars(pc[w] = "leaving" /\ MonitorStop(w))
       /\ WF_vars(HandlerEnds(w)) /\ WF_vars(Complete(w))
       /\ WF_vars(FlushRange(w) \/ SplitRange(w) \/ FlushThrows(w))
  /\ \A j \in Job : WF_vars(KeepAliveAges(j)) /\ WF_vars(RecoverStale(j))

FairSpec == Spec /\ Fairness

----------------------------------------------------------------------------
(* Properties, for handlers shorter than InvisibilityTimeout.              *)

\* Places that hold job j: dispatchers, workers, and completions to be written.
Places(j) ==
  Cardinality({g \in Group : j \in Undelivered(g)})
  + Cardinality({w \in Worker : j \in InHand(w)})
  + Cardinality({w \in Worker : j \in Unflushed(w)})

\* A job is in one place at a time, and there it is the row's owner who has it: what a
\* worker runs or is about to write, nobody else has, or has moved.
HeldOnce ==
  \A j \in Job : Held(j) =>
    /\ Places(j) = 1
    /\ state[j] = "Processing"
    /\ \A g \in Group : j \in Undelivered(g) => owner[j] = g
    /\ \A w \in Worker : j \in InHand(w) \cup Unflushed(w) => owner[j] \in {w, GroupOf[w]}

\* No flush, handing over or shutdown leaves a Processing row that nobody holds: only a
\* failed or cancelled statement or a dead process does.
NothingIsLost == \A j \in Job : state[j] = "Processing" => Held(j) \/ j \in dropped

\* Counters and states agree, however the buffer was cut up to be written.
StatsAgree == \A j \in Job : stats[j] = [f \in Finished |-> One(f = state[j])]

\* A shutdown comes to its end: dispatcher and workers stop, the channel being drained.
ShutdownEnds ==
  \A g \in Group : stopping[g] ~>
    phase[g] = "dead" \/ \A w \in Worker : GroupOf[w] = g => pc[w] = "stopped"

\* No job stays Processing: it is flushed, or recovery finds it.
ProcessingEnds == \A j \in Job : state[j] = "Processing" ~> state[j] # "Processing"

=============================================================================
