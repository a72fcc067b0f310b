--------------------------- MODULE BulkCommands ---------------------------
(***************************************************************************)
(* BulkDeleteJobs and BulkRequeueJobs called concurrently with each other, *)
(* with the workers and with the orchestrator.  A call works in chunks.    *)
(* For each it reads the states of the rows outside any transaction, and   *)
(* then, in one transaction, updates the rows of each source state on the  *)
(* condition that they are still in it, counts what the update affected    *)
(* and writes logs and counters.  A row updated is locked, and its new     *)
(* state hidden from others, until the commit.  The rows of Job are some   *)
(* of those selected: a chunk may end anywhere among them.                 *)
(***************************************************************************)
EXTENDS Integers, FiniteSets

CONSTANTS
  Job,         \* ids of the rows: natural numbers, in the order ids are sorted
  Caller,      \* users with the dashboard open
  Null,        \* no parent
  Parent,      \* ParentJobId of each row
  Batch,       \* the rows of kind Batch: parents, listed on another page
  ChunkSize,   \* ids of Job in a transaction: at most so many
  MaxRuns      \* bound: claims by workers

ASSUME NullAssumption == Null \notin Job
ASSUME JobAssumption ==
  /\ Job \subseteq Nat \ {0} /\ IsFiniteSet(Job)
  /\ Batch \subseteq Job
  /\ Parent \in [Job -> Batch \cup {Null}]
ASSUME BoundAssumption == ChunkSize \in Nat \ {0} /\ MaxRuns \in Nat

VARIABLES
  \* committed rows and accounts
  state,       \* CurrentState; "Missing" if there is no such row
  marked,      \* CancellationMode = Graceful
  stats,       \* the counters stats:succeeded, stats:failed, stats:deleted
  logged,      \* log rows "Deleted", per row
  deletions,   \* how often the row went to Deleted
  runs,        \* claims so far
  \* each call
  op,          \* "none", "delete", "requeue", then "done" or "thrown"
  size,        \* how many ids it was given
  todo,        \* ids in the chunks to come
  snap,        \* the chunk's snapshot, "none" for rows outside it
  groups,      \* its groups still to update: <<parent, source state>>
  parents,     \* parents still to lock
  seen,        \* parents that the DbContext tracks since an earlier chunk
  written,     \* rows it has updated and not committed, with their new state
  counters,    \* counter rows added to the context
  logs,        \* ids with a "Deleted" log row added to the context
  succeeded,   \* BulkResultModel.Succeeded
  skipped      \* BulkResultModel.Skipped

table == <<state, marked, stats, logged, deletions, runs>>
transaction == <<groups, parents, written, counters, logs>>
result == <<succeeded, skipped>>
vars == <<table, op, size, todo, snap, seen, transaction, result>>

Finished == {"Completed", "Failed", "Deleted"}
Idle == {"Awaiting", "Enqueued"} \cup Finished
RowState == {"Missing", "Processing"} \cup Idle
NoWrites == [j \in Job |-> "none"]
NoCount == [f \in Finished |-> 0]

TypeOK ==
  /\ state \in [Job -> RowState] /\ marked \in [Job -> BOOLEAN]
  /\ stats \in [Finished -> Int] /\ runs \in 0..MaxRuns
  /\ logged \in [Job -> Nat] /\ deletions \in [Job -> Nat]
  /\ op \in [Caller -> {"none", "delete", "requeue", "done", "thrown"}]
  /\ size \in [Caller -> Nat] /\ todo \in [Caller -> SUBSET Job]
  /\ snap \in [Caller -> [Job -> RowState \cup {"none"}]]
  /\ groups \in [Caller -> SUBSET ((Batch \cup {Null}) \X RowState)]
  /\ parents \in [Caller -> SUBSET Batch] /\ seen \in [Caller -> SUBSET Batch]
  /\ written \in [Caller -> [Job -> RowState \cup {"none"}]]
  /\ counters \in [Caller -> [Finished -> Int]] /\ logs \in [Caller -> SUBSET Job]
  /\ succeeded \in [Caller -> Nat] /\ skipped \in [Caller -> Nat]

Rows(s) == {j \in Job \ Batch : state[j] = s}

\* Any table: batches are finished, each by a verdict that is not counted.
Init ==
  /\ state \in {f \in [Job -> RowState] : \A b \in Batch : f[b] \in {"Completed", "Failed"}}
  /\ marked = [j \in Job |-> FALSE]
  /\ stats = [f \in Finished |-> Cardinality(Rows(f))]
  /\ logged = [j \in Job |-> 0] /\ deletions = [j \in Job |-> 0] /\ runs = 0
  /\ op = [c \in Caller |-> "none"] /\ size = [c \in Caller |-> 0]
  /\ todo = [c \in Caller |-> {}]
  /\ snap = [c \in Caller |-> NoWrites]
  /\ groups = [c \in Caller |-> {}] /\ parents = [c \in Caller |-> {}] /\ seen = [c \in Caller |-> {}]
  /\ written = [c \in Caller |-> NoWrites]
  /\ counters = [c \in Caller |-> NoCount] /\ logs = [c \in Caller |-> {}]
  /\ succeeded = [c \in Caller |-> 0] /\ skipped = [c \in Caller |-> 0]

One(b) == IF b THEN 1 ELSE 0
LockedBy(c, j) == written[c][j] # "none"
Free(j) == \A c \in Caller : ~LockedBy(c, j)

----------------------------------------------------------------------------
(* Workers: the claim skips locked rows, the finalization waits for them.  *)

Claim(j) ==
  /\ runs < MaxRuns
  /\ j \notin Batch /\ state[j] = "Enqueued" /\ Free(j)
  /\ state' = [state EXCEPT ![j] = "Processing"]
  /\ runs' = runs + 1
  /\ UNCHANGED <<marked, stats, logged, deletions, op, size, todo, snap, seen, transaction, result>>

End(j) ==
  /\ state[j] = "Processing" /\ Free(j)
  /\ \E s \in {"Completed", "Failed"} :
       /\ state' = [state EXCEPT ![j] = s]
       /\ stats' = [stats EXCEPT ![s] = @ + 1]
  /\ marked' = [marked EXCEPT ![j] = FALSE]
  /\ UNCHANGED <<logged, deletions, runs, op, size, todo, snap, seen, transaction, result>>

MembersOf(b) == {j \in Job : Parent[j] = b}

\* The orchestrator finishes a waiting batch by the committed states of its jobs.  It
\* reads and saves in one step here: what may come between is Orchestration's subject.
Settle(b) ==
  /\ state[b] = "Awaiting" /\ Free(b)
  /\ \A j \in MembersOf(b) : state[j] \in {"Completed", "Failed", "Awaiting", "Missing"}
  /\ \E j \in MembersOf(b) : state[j] \in {"Completed", "Failed"}
  /\ \E s \in {"Completed", "Failed"} :
       /\ s = "Failed" => \E j \in MembersOf(b) : state[j] = "Failed"
       /\ state' = [state EXCEPT ![b] = s]
  /\ UNCHANGED <<marked, stats, logged, deletions, runs, op, size, todo, snap, seen, transaction, result>>

----------------------------------------------------------------------------
(* A call.                                                                 *)

Call(c) ==
  /\ op[c] = "none"
  /\ \E ids \in SUBSET (Job \ Batch), o \in {"delete", "requeue"} :
       /\ ids # {}
       /\ todo' = [todo EXCEPT ![c] = ids]
       /\ size' = [size EXCEPT ![c] = Cardinality(ids)]
       /\ op' = [op EXCEPT ![c] = o]
  /\ UNCHANGED <<table, snap, seen, transaction, result>>

InChunk(c) == \E j \in Job : snap[c][j] # "none"

\* The states in which the call has nothing to do and reports success.
NoOp(c) == IF op[c] = "delete" THEN {"Deleted"} ELSE {"Enqueued", "Processing"}

\* Rows of one source state are updated together; requeues by parent as well.
GroupOf(c, j, s) == <<IF op[c] = "delete" THEN Null ELSE Parent[j], s>>

\* Mutant: missing ids are not reported.
UnfoundIgnored(chunk) == {}

\* Ids of the chunk that are not in the database.
Unfound(chunk) == {j \in chunk : state[j] = "Missing"}

\* The next chunk and its snapshot, outside any transaction.
Snapshot(c) ==
  /\ op[c] \in {"delete", "requeue"} /\ ~InChunk(c) /\ todo[c] # {}
  /\ \E chunk \in SUBSET todo[c] :
       /\ chunk # {} /\ Cardinality(chunk) <= ChunkSize
       /\ snap' = [snap EXCEPT ![c] = [j \in Job |-> IF j \in chunk THEN state[j] ELSE "none"]]
       /\ todo' = [todo EXCEPT ![c] = @ \ chunk]
       /\ groups' = [groups EXCEPT ![c] =
            {GroupOf(c, j, state[j]) : j \in {i \in chunk : state[i] \notin {"Missing"} \cup NoOp(c)}}]
       /\ succeeded' = [succeeded EXCEPT ![c] =
            @ + Cardinality({j \in chunk : state[j] \in NoOp(c)})]
       /\ skipped' = [skipped EXCEPT ![c] = @ + Cardinality(Unfound(chunk))]
  /\ UNCHANGED <<table, op, size, seen, parents, written, counters, logs>>

IdsOf(c, g) == {j \in Job : snap[c][j] # "none" /\ GroupOf(c, j, snap[c][j]) = g}

\* Parentless requeues first, the others by parent; then, as for deletes, in the order
\* of the first row read.  All callers read rows in one order, which is that of the ids.
Before(c, g, h) ==
  \/ g[1] = Null /\ h[1] # Null
  \/ g[1] # Null /\ h[1] # Null /\ g[1] < h[1]
  \/ g[1] = h[1] /\ \E i \in IdsOf(c, g) : \A j \in IdsOf(c, h) : i < j
IsNext(c, g) == g \in groups[c] /\ \A h \in groups[c] : ~Before(c, h, g)

\* Mutant: the update is by Id, whatever the state is now.
HitAny(c, g) == {j \in IdsOf(c, g) : state[j] # "Missing"}

\* The rows the conditional update affects.
Hit(c, g) == {j \in IdsOf(c, g) : state[j] = g[2]}

\* It waits for the locks on them.
Blocked(c, S) == \E d \in Caller \ {c}, j \in S : LockedBy(d, j)

NewState(c, src) ==
  IF op[c] = "requeue" THEN "Enqueued" ELSE IF src = "Processing" THEN "Processing" ELSE "Deleted"

\* The rows logged as deleted: a second query for Deleted rows among the ids.
DeletedNow(c, g) ==
  IF op[c] = "delete" /\ g[2] # "Processing" /\ Hit(c, g) # {}
  THEN Hit(c, g) \cup {j \in IdsOf(c, g) : state[j] = "Deleted"}
  ELSE {}

\* Mutant: what was read is counted, not what was changed.
AffectedAsRead(c, g) == Cardinality(IdsOf(c, g))

Affected(c, g) == Cardinality(Hit(c, g))

Update(c, g) ==
  /\ IsNext(c, g)
  /\ ~Blocked(c, Hit(c, g))
  /\ LET hit == Hit(c, g)
         n == Affected(c, g)
         new == NewState(c, g[2]) IN
     /\ written' = [written EXCEPT ![c] = [j \in Job |-> IF j \in hit THEN new ELSE @[j]]]
     /\ counters' = [counters EXCEPT ![c] = [f \in Finished |->
          @[f] - n * One(f = g[2]) + n * One(f = new)]]
     /\ parents' = [parents EXCEPT ![c] = @ \cup (IF hit # {} THEN {g[1]} \ {Null} ELSE {})]
     /\ succeeded' = [succeeded EXCEPT ![c] = @ + n]
     /\ skipped' = [skipped EXCEPT ![c] = @ + Cardinality(IdsOf(c, g)) - n]
  /\ logs' = [logs EXCEPT ![c] = @ \cup DeletedNow(c, g)]
  /\ groups' = [groups EXCEPT ![c] = @ \ {g}]
  /\ UNCHANGED <<table, op, size, todo, snap, seen>>

\* A parent is locked by a query, but if the context tracks it already the query hands
\* back the entity as an earlier chunk left it, which is never finished: nothing is set.
Reopened(c, p) ==
  IF p \notin seen[c] /\ state[p] \in {"Completed", "Failed"} THEN "Awaiting" ELSE state[p]

\* The second phase: parents in the order of their ids.
LockParent(c, p) ==
  /\ groups[c] = {}
  /\ p \in parents[c] /\ \A q \in parents[c] : p <= q
  /\ ~Blocked(c, {p})
  /\ written' = [written EXCEPT ![c][p] = Reopened(c, p)]
  /\ parents' = [parents EXCEPT ![c] = @ \ {p}]
  /\ UNCHANGED <<table, op, size, todo, snap, seen, groups, counters, logs, result>>

\* The chunk's transaction, if it had one, is over.
Close(c) ==
  /\ snap' = [snap EXCEPT ![c] = NoWrites]
  /\ written' = [written EXCEPT ![c] = NoWrites]
  /\ counters' = [counters EXCEPT ![c] = NoCount]
  /\ logs' = [logs EXCEPT ![c] = {}]

Commit(c) ==
  /\ InChunk(c) /\ groups[c] = {} /\ parents[c] = {}
  /\ state' = [j \in Job |-> IF LockedBy(c, j) THEN written[c][j] ELSE state[j]]
  /\ marked' = [j \in Job |-> marked[j] \/ (op[c] = "delete" /\ written[c][j] = "Processing")]
  /\ stats' = [f \in Finished |-> stats[f] + counters[c][f]]
  /\ logged' = [j \in Job |-> logged[j] + One(j \in logs[c])]
  /\ deletions' = [j \in Job |-> deletions[j] + One(written[c][j] = "Deleted")]
  /\ seen' = [seen EXCEPT ![c] = @ \cup {p \in Batch : LockedBy(c, p)}]
  /\ Close(c)
  /\ op' = [op EXCEPT ![c] = IF todo[c] = {} THEN "done" ELSE @]
  /\ UNCHANGED <<runs, size, todo, groups, parents, result>>

\* The transaction fails (a deadlock victim, a lost connection): the exception leaves
\* the call, and the chunks before it stay committed.
Fail(c) ==
  /\ InChunk(c)
  /\ Close(c)
  /\ groups' = [groups EXCEPT ![c] = {}] /\ parents' = [parents EXCEPT ![c] = {}]
  /\ todo' = [todo EXCEPT ![c] = {}]
  /\ op' = [op EXCEPT ![c] = "thrown"]
  /\ UNCHANGED <<table, size, seen, result>>

Next ==
  \/ \E j \in Job : Claim(j)
  \/ \E j \in Job : End(j)
  \/ \E b \in Batch : Settle(b)
  \/ \E c \in Caller : Call(c)
  \/ \E c \in Caller : Snapshot(c)
  \/ \E c \in Caller : \E g \in groups[c] : Update(c, g)
  \/ \E c \in Caller : \E p \in parents[c] : LockParent(c, p)
  \/ \E c \in Caller : Commit(c)
  \/ \E c \in Caller : Fail(c)

Spec == Init /\ [][Next]_vars

----------------------------------------------------------------------------
(* Properties.                                                             *)

\* Counters and states agree at every commit, whoever wins the race for a row: the
\* affected count is what the counters move by.
StatsAgree == \A f \in Finished : stats[f] = Cardinality(Rows(f))

\* A call that returns reports every id it was given, as succeeded or as skipped.
TotalsAddUp ==
  \A c \in Caller : op[c] = "done" => succeeded[c] + skipped[c] = size[c]

\* A commit does to each row, at that moment, what DeleteJob or RequeueJob would do: a
\* running job is at most marked for cancelling, an idle one goes to Deleted, or to
\* Enqueued, and then its parent waits for it again, unless an earlier chunk of the call
\* has locked the parent already (see BatchWaitsAgain).
CommitIsManyCommands ==
  [][\A c \in Caller, j \in Job : Commit(c) =>
       /\ state'[j] # state[j] /\ j \notin Batch =>
            state[j] \in Idle /\ state'[j] = IF op[c] = "delete" THEN "Deleted" ELSE "Enqueued"
       /\ marked'[j] # marked[j] => op[c] = "delete" /\ state[j] = "Processing"
       /\ /\ op[c] = "requeue" /\ state'[j] # state[j]
          /\ j \notin Batch /\ Parent[j] \notin {Null} \cup seen[c]
          => state'[Parent[j]] \notin {"Completed", "Failed"}]_vars

(* What comments say and some run violates.                                *)

\* "Restore parent counters so they wait for this job again": a batch settled between
\* two chunks of one call stays finished when the second requeues another of its jobs.
BatchWaitsAgain ==
  [][\A c \in Caller, j \in Job :
       Commit(c) /\ op[c] = "requeue" /\ state'[j] # state[j] /\ j \notin Batch /\ Parent[j] # Null
         => state'[Parent[j]] \notin {"Completed", "Failed"}]_vars

\* No log rows for the loser: a row has at most as many Deleted log rows as deletions.
NoLogForLoser == \A j \in Job : logged[j] <= deletions[j]

============================================================================
