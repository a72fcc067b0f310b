------------------------- MODULE BulkCommands_proofs -------------------------
(***************************************************************************)
(* For any table, any callers and any chunk size: bulk calls that race     *)
(* with each other and with workers leave the counters equal to the rows,  *)
(* report every id once, and do to each row what a single command would.   *)
(*                                                                         *)
(* The snapshot of a chunk is stale when it is used.  What saves the call  *)
(* is the conditional update: a row it hits is still as it was read, and   *)
(* the lock keeps it so until the commit (Writes); from there the counter  *)
(* rows (Counted) and the totals (Reported) follow.                        *)
(***************************************************************************)
EXTENDS BulkCommands, FiniteSetTheorems, TLAPS

-------------------------------------------------------------------------------
(* The invariant.                                                          *)

Plain == Job \ Batch
Calling(c) == op[c] \in {"delete", "requeue"}
Chunk(c) == {j \in Job : snap[c][j] # "none"}

\* Batch rows stay what no worker and no delete of jobs touches.
BatchRows == \A b \in Batch : state[b] \in {"Completed", "Failed", "Awaiting"}

\* A row is locked by one caller.
Locks == \A c, d \in Caller, j \in Job : LockedBy(c, j) /\ LockedBy(d, j) => c = d

\* A caller works on the rows it was given, one chunk at a time, in one call.
Given(c) ==
  /\ todo[c] \subseteq Plain /\ Chunk(c) \subseteq Plain /\ todo[c] \cap Chunk(c) = {}
  /\ ~Calling(c) => Chunk(c) = {}
  /\ op[c] = "done" => todo[c] = {}
  /\ op[c] = "none" => succeeded[c] = 0 /\ skipped[c] = 0
  /\ Chunk(c) = {} => /\ groups[c] = {} /\ parents[c] = {}
                      /\ written[c] = NoWrites /\ counters[c] = NoCount

\* A group holds what was read and can be updated; deletes have no parents.
Grouped(c) ==
  /\ \A g \in groups[c] : g[2] \notin {"Missing"} \cup NoOp(c)
  /\ op[c] # "requeue" => parents[c] = {} /\ \A g \in groups[c] : g[1] = Null

\* What is written follows from what the row is, which the lock preserves.
Writes(c) ==
  \A j \in Job : LockedBy(c, j) =>
    /\ j \in Batch => op[c] = "requeue" /\ written[c][j] = Reopened(c, j)
    /\ j \notin Batch =>
         /\ snap[c][j] = state[j] /\ state[j] \notin {"Missing"} \cup NoOp(c)
         /\ written[c][j] = NewState(c, state[j])
         /\ GroupOf(c, j, snap[c][j]) \notin groups[c]
         /\ op[c] = "requeue" /\ Parent[j] # Null =>
              Parent[j] \in parents[c] \/ LockedBy(c, Parent[j])

\* The counter rows say what the writes change.
Gained(c, f) == {j \in Plain : written[c][j] = f}
Taken(c, f) == {j \in Plain : LockedBy(c, j) /\ state[j] = f}
Counted(c) ==
  \A f \in Finished : counters[c][f] = Cardinality(Gained(c, f)) - Cardinality(Taken(c, f))

\* Every id is still to come, in a group still to update, or reported.
Pending(c) == {j \in Job : snap[c][j] # "none" /\ GroupOf(c, j, snap[c][j]) \in groups[c]}
Reported(c) ==
  Calling(c) \/ op[c] = "done" =>
    succeeded[c] + skipped[c] + Cardinality(todo[c]) + Cardinality(Pending(c)) = size[c]

CallInv(c) == Given(c) /\ Grouped(c) /\ Writes(c) /\ Counted(c) /\ Reported(c)
BulkInv == BatchRows /\ Locks /\ \A c \in Caller : CallInv(c)

-------------------------------------------------------------------------------
(* Types.                                                                  *)

LEMMA RowsAreFinite == ASSUME NEW S \in SUBSET Job PROVE IsFiniteSet(S) /\ Cardinality(S) \in Nat
BY JobAssumption, FS_Subset, FS_CardinalityType

LEMMA CountsAreFinite ==
  ASSUME NEW c, NEW g
  PROVE  /\ Affected(c, g) \in Nat /\ Cardinality(IdsOf(c, g)) \in Nat
         /\ Affected(c, g) <= Cardinality(IdsOf(c, g))
<1>1. IdsOf(c, g) \in SUBSET Job /\ Hit(c, g) \in SUBSET IdsOf(c, g) BY DEF IdsOf, Hit
<1>2. IsFiniteSet(IdsOf(c, g)) BY <1>1, RowsAreFinite
<1> QED BY <1>1, <1>2, FS_Subset, FS_CardinalityType DEF Affected

LEMMA InitTyped == Init => TypeOK
<1> SUFFICES ASSUME Init PROVE TypeOK OBVIOUS
<1>1. marked \in [Job -> BOOLEAN] BY DEF Init
<1>2. stats \in [Finished -> Int]
  <2>1. \A f : Cardinality(Rows(f)) \in Nat
    <3>1. \A f : Rows(f) \in SUBSET Job BY DEF Rows
    <3> QED BY <3>1, RowsAreFinite
  <2> QED BY <2>1 DEF Init
<1>3. /\ state \in [Job -> RowState] /\ runs \in 0..MaxRuns
      /\ logged \in [Job -> Nat] /\ deletions \in [Job -> Nat]
  BY BoundAssumption DEF Init
<1>4. /\ op \in [Caller -> {"none", "delete", "requeue", "done", "thrown"}]
      /\ size \in [Caller -> Nat] /\ todo \in [Caller -> SUBSET Job]
      /\ groups \in [Caller -> SUBSET ((Batch \cup {Null}) \X RowState)]
      /\ parents \in [Caller -> SUBSET Batch] /\ seen \in [Caller -> SUBSET Batch]
      /\ logs \in [Caller -> SUBSET Job]
      /\ succeeded \in [Caller -> Nat] /\ skipped \in [Caller -> Nat]
  BY DEF Init
<1>5. NoWrites \in [Job -> RowState \cup {"none"}] /\ NoCount \in [Finished -> Int]
  BY DEF NoWrites, NoCount
<1>6. /\ snap \in [Caller -> [Job -> RowState \cup {"none"}]]
      /\ written \in [Caller -> [Job -> RowState \cup {"none"}]]
      /\ counters \in [Caller -> [Finished -> Int]]
  BY <1>5 DEF Init
<1> QED BY <1>1, <1>2, <1>3, <1>4, <1>6 DEF TypeOK

LEMMA CloseTyped ==
  ASSUME TypeOK, NEW c \in Caller, Close(c)
  PROVE  /\ snap' \in [Caller -> [Job -> RowState \cup {"none"}]]
         /\ written' \in [Caller -> [Job -> RowState \cup {"none"}]]
         /\ counters' \in [Caller -> [Finished -> Int]] /\ logs' \in [Caller -> SUBSET Job]
<1>1. NoWrites \in [Job -> RowState \cup {"none"}] /\ NoCount \in [Finished -> Int]
  BY DEF NoWrites, NoCount
<1> QED BY <1>1 DEF Close, TypeOK

LEMMA SnapshotTyped == ASSUME TypeOK, NEW c \in Caller, Snapshot(c) PROVE TypeOK'
<1>1. PICK chunk \in SUBSET todo[c] :
       /\ snap' = [snap EXCEPT ![c] = [j \in Job |-> IF j \in chunk THEN state[j] ELSE "none"]]
       /\ todo' = [todo EXCEPT ![c] = @ \ chunk]
       /\ groups' = [groups EXCEPT ![c] =
            {GroupOf(c, j, state[j]) : j \in {i \in chunk : state[i] \notin {"Missing"} \cup NoOp(c)}}]
       /\ succeeded' = [succeeded EXCEPT ![c] =
            @ + Cardinality({j \in chunk : state[j] \in NoOp(c)})]
       /\ skipped' = [skipped EXCEPT ![c] = @ + Cardinality(Unfound(chunk))]
  BY DEF Snapshot
<1>2. UNCHANGED <<table, op, size, seen, parents, written, counters, logs>> BY DEF Snapshot
<1>3. chunk \subseteq Job BY DEF TypeOK
<1>4. /\ Cardinality({j \in chunk : state[j] \in NoOp(c)}) \in Nat
      /\ Cardinality(Unfound(chunk)) \in Nat
  BY <1>3, RowsAreFinite DEF Unfound
<1>5. \A j \in Job : GroupOf(c, j, state[j]) \in (Batch \cup {Null}) \X RowState
  BY JobAssumption DEF GroupOf, TypeOK
<1>6. {GroupOf(c, j, state[j]) : j \in {i \in chunk : state[i] \notin {"Missing"} \cup NoOp(c)}}
        \in SUBSET ((Batch \cup {Null}) \X RowState)
  BY <1>3, <1>5
<1>7. groups' \in [Caller -> SUBSET ((Batch \cup {Null}) \X RowState)] BY <1>1, <1>6 DEF TypeOK
<1>8. snap' \in [Caller -> [Job -> RowState \cup {"none"}]] BY <1>1 DEF TypeOK
<1>9. todo' \in [Caller -> SUBSET Job] BY <1>1 DEF TypeOK
<1>10. succeeded' \in [Caller -> Nat] /\ skipped' \in [Caller -> Nat] BY <1>1, <1>4 DEF TypeOK
<1> QED BY <1>2, <1>7, <1>8, <1>9, <1>10 DEF TypeOK, table

LEMMA UpdateTyped ==
  ASSUME TypeOK, NEW c \in Caller, NEW g \in groups[c], Update(c, g) PROVE TypeOK'
<1> DEFINE hit == Hit(c, g)
           n == Affected(c, g)
           new == NewState(c, g[2])
<1>1. /\ written' = [written EXCEPT ![c] = [j \in Job |-> IF j \in hit THEN new ELSE @[j]]]
      /\ counters' = [counters EXCEPT ![c] = [f \in Finished |->
           @[f] - n * One(f = g[2]) + n * One(f = new)]]
      /\ parents' = [parents EXCEPT ![c] = @ \cup (IF hit # {} THEN {g[1]} \ {Null} ELSE {})]
      /\ succeeded' = [succeeded EXCEPT ![c] = @ + n]
      /\ skipped' = [skipped EXCEPT ![c] = @ + Cardinality(IdsOf(c, g)) - n]
      /\ logs' = [logs EXCEPT ![c] = @ \cup DeletedNow(c, g)]
      /\ groups' = [groups EXCEPT ![c] = @ \ {g}]
      /\ UNCHANGED <<table, op, size, todo, snap, seen>>
  BY DEF Update
<1>2. n \in Nat /\ Cardinality(IdsOf(c, g)) \in Nat /\ n <= Cardinality(IdsOf(c, g))
  BY CountsAreFinite
<1>3. g \in (Batch \cup {Null}) \X RowState BY DEF TypeOK
<1>4. new \in RowState BY DEF NewState, RowState, Idle, Finished
<1>5. DeletedNow(c, g) \subseteq Job BY DEF DeletedNow, Hit, IdsOf
<1> HIDE DEF hit, n, new
<1>6. written' \in [Caller -> [Job -> RowState \cup {"none"}]] BY <1>1, <1>4 DEF TypeOK
<1>7. counters' \in [Caller -> [Finished -> Int]]
  <2>1. \A f \in Finished : n * One(f = g[2]) \in Int /\ n * One(f = new) \in Int BY <1>2 DEF One
  <2>2. [f \in Finished |-> counters[c][f] - n * One(f = g[2]) + n * One(f = new)] \in [Finished -> Int]
    BY <2>1 DEF TypeOK
  <2> QED BY <1>1, <2>2 DEF TypeOK
<1>8. parents' \in [Caller -> SUBSET Batch] BY <1>1, <1>3 DEF TypeOK
<1>9. succeeded' \in [Caller -> Nat] /\ skipped' \in [Caller -> Nat] BY <1>1, <1>2 DEF TypeOK
<1>10. logs' \in [Caller -> SUBSET Job] BY <1>1, <1>5 DEF TypeOK
<1>11. groups' \in [Caller -> SUBSET ((Batch \cup {Null}) \X RowState)] BY <1>1 DEF TypeOK
<1> QED BY <1>1, <1>6, <1>7, <1>8, <1>9, <1>10, <1>11 DEF TypeOK, table

LEMMA CommitTyped == ASSUME TypeOK, NEW c \in Caller, Commit(c) PROVE TypeOK'
<1>1. /\ state' = [j \in Job |-> IF LockedBy(c, j) THEN written[c][j] ELSE state[j]]
      /\ marked' = [j \in Job |-> marked[j] \/ (op[c] = "delete" /\ written[c][j] = "Processing")]
      /\ stats' = [f \in Finished |-> stats[f] + counters[c][f]]
      /\ logged' = [j \in Job |-> logged[j] + One(j \in logs[c])]
      /\ deletions' = [j \in Job |-> deletions[j] + One(written[c][j] = "Deleted")]
      /\ seen' = [seen EXCEPT ![c] = @ \cup {p \in Batch : LockedBy(c, p)}]
      /\ Close(c)
      /\ op' = [op EXCEPT ![c] = IF todo[c] = {} THEN "done" ELSE @]
      /\ UNCHANGED <<runs, size, todo, groups, parents, result>>
  BY DEF Commit
<1>2. state' \in [Job -> RowState] BY <1>1 DEF TypeOK, LockedBy
<1>3. marked' \in [Job -> BOOLEAN]
  <2>1. \A j \in Job : (marked[j] \/ (op[c] = "delete" /\ written[c][j] = "Processing")) \in BOOLEAN
    OBVIOUS
  <2> QED BY <1>1, <2>1
<1>4. stats' \in [Finished -> Int] BY <1>1 DEF TypeOK
<1>5. logged' \in [Job -> Nat] /\ deletions' \in [Job -> Nat] BY <1>1 DEF TypeOK, One
<1>6. op' \in [Caller -> {"none", "delete", "requeue", "done", "thrown"}] BY <1>1 DEF TypeOK
<1>7. /\ snap' \in [Caller -> [Job -> RowState \cup {"none"}]]
      /\ written' \in [Caller -> [Job -> RowState \cup {"none"}]]
      /\ counters' \in [Caller -> [Finished -> Int]] /\ logs' \in [Caller -> SUBSET Job]
  BY <1>1, CloseTyped
<1>8. seen' \in [Caller -> SUBSET Batch] BY <1>1 DEF TypeOK
<1> QED BY <1>1, <1>2, <1>3, <1>4, <1>5, <1>6, <1>7, <1>8 DEF TypeOK, result

LEMMA StepTyped == TypeOK /\ [Next]_vars => TypeOK'
<1> SUFFICES ASSUME TypeOK, [Next]_vars PROVE TypeOK' OBVIOUS
<1>1. ASSUME NEW j \in Job, Claim(j) PROVE TypeOK'
  <2>1. /\ runs < MaxRuns /\ runs' = runs + 1 /\ state' = [state EXCEPT ![j] = "Processing"]
        /\ UNCHANGED <<marked, stats, logged, deletions, op, size, todo, snap, seen, transaction, result>>
    BY <1>1 DEF Claim
  <2>2. state' \in [Job -> RowState] /\ runs' \in 0..MaxRuns
    BY <2>1, BoundAssumption DEF TypeOK, RowState
  <2> QED BY <2>1, <2>2 DEF TypeOK, transaction, result
<1>2. ASSUME NEW j \in Job, End(j) PROVE TypeOK'
  <2>1. PICK s \in {"Completed", "Failed"} : /\ state' = [state EXCEPT ![j] = s]
                                             /\ stats' = [stats EXCEPT ![s] = @ + 1]
    BY <1>2 DEF End
  <2>2. /\ marked' = [marked EXCEPT ![j] = FALSE]
        /\ UNCHANGED <<logged, deletions, runs, op, size, todo, snap, seen, transaction, result>>
    BY <1>2 DEF End
  <2>3. state' \in [Job -> RowState] /\ stats' \in [Finished -> Int]
    BY <2>1 DEF TypeOK, RowState, Idle, Finished
  <2>4. marked' \in [Job -> BOOLEAN] BY <2>2 DEF TypeOK
  <2> QED BY <2>2, <2>3, <2>4 DEF TypeOK, transaction, result
<1>3. ASSUME NEW c \in Caller, Call(c) PROVE TypeOK'
  <2>1. PICK ids \in SUBSET (Job \ Batch), o \in {"delete", "requeue"} :
          /\ todo' = [todo EXCEPT ![c] = ids]
          /\ size' = [size EXCEPT ![c] = Cardinality(ids)]
          /\ op' = [op EXCEPT ![c] = o]
    BY <1>3 DEF Call
  <2>2. UNCHANGED <<table, snap, seen, transaction, result>> BY <1>3 DEF Call
  <2>3. Cardinality(ids) \in Nat BY RowsAreFinite
  <2>4. /\ op' \in [Caller -> {"none", "delete", "requeue", "done", "thrown"}]
        /\ size' \in [Caller -> Nat] /\ todo' \in [Caller -> SUBSET Job]
    BY <2>1, <2>3 DEF TypeOK
  <2> QED BY <2>2, <2>4 DEF TypeOK, table, transaction, result
<1>4. ASSUME NEW c \in Caller, Snapshot(c) PROVE TypeOK' BY <1>4, SnapshotTyped
<1>5. ASSUME NEW c \in Caller, NEW g \in groups[c], Update(c, g) PROVE TypeOK' BY <1>5, UpdateTyped
<1>6. ASSUME NEW c \in Caller, NEW p \in parents[c], LockParent(c, p) PROVE TypeOK'
  <2>1. /\ written' = [written EXCEPT ![c][p] = Reopened(c, p)]
        /\ parents' = [parents EXCEPT ![c] = @ \ {p}]
        /\ UNCHANGED <<table, op, size, todo, snap, seen, groups, counters, logs, result>>
    BY <1>6 DEF LockParent
  <2>2. p \in Job BY JobAssumption DEF TypeOK
  <2>3. Reopened(c, p) \in RowState BY <2>2 DEF Reopened, TypeOK, RowState, Idle
  <2>4. /\ written' \in [Caller -> [Job -> RowState \cup {"none"}]]
        /\ parents' \in [Caller -> SUBSET Batch]
    BY <2>1, <2>3 DEF TypeOK
  <2> QED BY <2>1, <2>4 DEF TypeOK, table, result
<1>7. ASSUME NEW c \in Caller, Commit(c) PROVE TypeOK' BY <1>7, CommitTyped
<1>8. ASSUME NEW c \in Caller, Fail(c) PROVE TypeOK'
  <2>1. /\ groups' = [groups EXCEPT ![c] = {}] /\ parents' = [parents EXCEPT ![c] = {}]
        /\ todo' = [todo EXCEPT ![c] = {}] /\ op' = [op EXCEPT ![c] = "thrown"]
        /\ Close(c) /\ UNCHANGED <<table, size, seen, result>>
    BY <1>8 DEF Fail
  <2> QED BY <2>1, CloseTyped DEF TypeOK, table, result
<1>9. ASSUME NEW b \in Batch, Settle(b) PROVE TypeOK'
  <2>1. PICK s \in {"Completed", "Failed"} : state' = [state EXCEPT ![b] = s] BY <1>9 DEF Settle
  <2>2. state' \in [Job -> RowState] BY <2>1 DEF TypeOK, RowState, Idle, Finished
  <2>3. UNCHANGED <<marked, stats, logged, deletions, runs, op, size, todo, snap, seen, transaction, result>>
    BY <1>9 DEF Settle
  <2> QED BY <2>2, <2>3 DEF TypeOK, transaction, result
<1>10. CASE UNCHANGED vars BY <1>10 DEF TypeOK, vars, table, transaction, result
<1> QED BY <1>1, <1>2, <1>3, <1>4, <1>5, <1>6, <1>7, <1>8, <1>9, <1>10 DEF Next

-------------------------------------------------------------------------------
(* Calls that do not move, while the rows they have locked do not.         *)

SameCall(d) ==
  /\ op'[d] = op[d] /\ size'[d] = size[d] /\ todo'[d] = todo[d] /\ snap'[d] = snap[d] /\ seen'[d] = seen[d]
  /\ groups'[d] = groups[d] /\ parents'[d] = parents[d] /\ written'[d] = written[d]
  /\ counters'[d] = counters[d] /\ succeeded'[d] = succeeded[d] /\ skipped'[d] = skipped[d]

LEMMA Undisturbed ==
  ASSUME NEW d \in Caller, CallInv(d), SameCall(d), \A j \in Job : LockedBy(d, j) => state'[j] = state[j]
  PROVE  CallInv(d)'
<1> USE DEF SameCall
<1>1. Given(d)' BY DEF CallInv, Given, Calling, Chunk
<1>2. Grouped(d)' BY DEF CallInv, Grouped, NoOp
<1>3. Writes(d)'
  <2> SUFFICES ASSUME NEW j \in Job, LockedBy(d, j)'
               PROVE  (/\ j \in Batch => op[d] = "requeue" /\ written[d][j] = Reopened(d, j)
                       /\ j \notin Batch =>
                            /\ snap[d][j] = state[j] /\ state[j] \notin {"Missing"} \cup NoOp(d)
                            /\ written[d][j] = NewState(d, state[j])
                            /\ GroupOf(d, j, snap[d][j]) \notin groups[d]
                            /\ op[d] = "requeue" /\ Parent[j] # Null =>
                                 Parent[j] \in parents[d] \/ LockedBy(d, Parent[j]))'
    BY DEF Writes
  <2>1. LockedBy(d, j) /\ state'[j] = state[j] BY DEF LockedBy
  <2> QED BY <2>1 DEF CallInv, Writes, LockedBy, Reopened, NoOp, NewState, GroupOf
<1>4. Counted(d)'
  <2>1. \A f \in Finished : Gained(d, f)' = Gained(d, f) /\ Taken(d, f)' = Taken(d, f)
    BY DEF Gained, Taken, LockedBy, Plain
  <2> QED BY <2>1 DEF CallInv, Counted
<1>5. Reported(d)'
  <2>1. Pending(d)' = Pending(d) BY DEF Pending, GroupOf
  <2> QED BY <2>1 DEF CallInv, Reported, Calling
<1> QED BY <1>1, <1>2, <1>3, <1>4, <1>5 DEF CallInv

LEMMA CountOfBoth ==
  ASSUME NEW S \in SUBSET Job, NEW T \in SUBSET Job, S \cap T = {}
  PROVE  Cardinality(S \cup T) = Cardinality(S) + Cardinality(T)
<1>1. IsFiniteSet(S) /\ IsFiniteSet(T) BY RowsAreFinite
<1>2. Cardinality(S \cap T) = 0 BY FS_EmptySet
<1>3. Cardinality(S) \in Nat /\ Cardinality(T) \in Nat BY RowsAreFinite
<1>4. Cardinality(S \cup T) = Cardinality(S) + Cardinality(T) - Cardinality(S \cap T)
  BY <1>1, FS_Union
<1> QED BY <1>2, <1>3, <1>4

LEMMA CountOfRest ==
  ASSUME NEW S \in SUBSET Job, NEW T \in SUBSET S
  PROVE  Cardinality(S \ T) = Cardinality(S) - Cardinality(T)
<1>1. (S \ T) \cup T = S /\ (S \ T) \cap T = {} OBVIOUS
<1>2. Cardinality(S) = Cardinality(S \ T) + Cardinality(T) BY <1>1, CountOfBoth
<1>3. Cardinality(S \ T) \in Nat /\ Cardinality(T) \in Nat BY RowsAreFinite
<1> QED BY <1>2, <1>3

-------------------------------------------------------------------------------
(* The steps of a call.                                                    *)

LEMMA CallKeeps ==
  ASSUME TypeOK, BulkInv, NEW c \in Caller, Call(c) PROVE BulkInv'
<1>1. PICK ids \in SUBSET (Job \ Batch), o \in {"delete", "requeue"} :
        /\ todo' = [todo EXCEPT ![c] = ids]
        /\ size' = [size EXCEPT ![c] = Cardinality(ids)]
        /\ op' = [op EXCEPT ![c] = o]
  BY DEF Call
<1>2. op[c] = "none" /\ UNCHANGED <<table, snap, seen, transaction, result>> BY DEF Call
<1>3. UNCHANGED <<state, snap, seen, groups, parents, written, counters, succeeded, skipped>>
  BY <1>2 DEF table, transaction, result
<1>4. /\ Chunk(c) = {} /\ groups[c] = {} /\ parents[c] = {} /\ written[c] = NoWrites
      /\ counters[c] = NoCount /\ succeeded[c] = 0 /\ skipped[c] = 0
  BY <1>2 DEF BulkInv, CallInv, Given, Calling
<1>5. todo'[c] = ids /\ size'[c] = Cardinality(ids) /\ op'[c] = o BY <1>1 DEF TypeOK
<1>6. Cardinality(ids) \in Nat BY RowsAreFinite
<1>7. CallInv(c)'
  <2>1. \A j \in Job : ~LockedBy(c, j)' /\ ~LockedBy(c, j) BY <1>3, <1>4 DEF LockedBy, NoWrites
  <2>2. Chunk(c)' = {} BY <1>3, <1>4 DEF Chunk
  <2>3. Given(c)' BY <1>3, <1>4, <1>5, <2>2 DEF Given, Calling, Plain
  <2>4. Grouped(c)' BY <1>3, <1>4 DEF Grouped
  <2>5. Writes(c)' BY <2>1 DEF Writes
  <2>6. Counted(c)'
    <3>1. \A f \in Finished : Gained(c, f)' = Gained(c, f) /\ Taken(c, f)' = Taken(c, f)
      BY <1>3 DEF Gained, Taken, LockedBy
    <3> QED BY <1>3, <3>1 DEF BulkInv, CallInv, Counted
  <2>7. Reported(c)'
    <3>1. Pending(c)' = {} BY <1>3, <1>4 DEF Pending
    <3> QED BY <1>3, <1>4, <1>5, <1>6, <3>1, FS_EmptySet DEF Reported
  <2> QED BY <2>3, <2>4, <2>5, <2>6, <2>7 DEF CallInv
<1>8. ASSUME NEW d \in Caller \ {c} PROVE CallInv(d)'
  <2>1. SameCall(d) BY <1>1, <1>3 DEF SameCall, TypeOK
  <2> QED BY <1>3, <2>1, Undisturbed DEF BulkInv
<1>9. BatchRows' /\ Locks' BY <1>3 DEF BulkInv, BatchRows, Locks, LockedBy
<1> QED BY <1>7, <1>8, <1>9 DEF BulkInv

LEMMA SnapshotKeeps ==
  ASSUME TypeOK, BulkInv, NEW c \in Caller, Snapshot(c) PROVE BulkInv'
<1>1. PICK chunk \in SUBSET todo[c] :
       /\ snap' = [snap EXCEPT ![c] = [j \in Job |-> IF j \in chunk THEN state[j] ELSE "none"]]
       /\ todo' = [todo EXCEPT ![c] = @ \ chunk]
       /\ groups' = [groups EXCEPT ![c] =
            {GroupOf(c, j, state[j]) : j \in {i \in chunk : state[i] \notin {"Missing"} \cup NoOp(c)}}]
       /\ succeeded' = [succeeded EXCEPT ![c] =
            @ + Cardinality({j \in chunk : state[j] \in NoOp(c)})]
       /\ skipped' = [skipped EXCEPT ![c] = @ + Cardinality(Unfound(chunk))]
  BY DEF Snapshot
<1>2. UNCHANGED <<state, op, size, seen, parents, written, counters>> BY DEF Snapshot, table
<1>3. Calling(c) /\ Chunk(c) = {} BY DEF Snapshot, Calling, InChunk, Chunk
<1>4. /\ groups[c] = {} /\ parents[c] = {} /\ written[c] = NoWrites /\ counters[c] = NoCount
      /\ todo[c] \subseteq Plain
  BY <1>3 DEF BulkInv, CallInv, Given
<1> DEFINE ready == {i \in chunk : state[i] \notin {"Missing"} \cup NoOp(c)}
           noop == {j \in chunk : state[j] \in NoOp(c)}
<1>5. /\ snap'[c] = [j \in Job |-> IF j \in chunk THEN state[j] ELSE "none"]
      /\ todo'[c] = todo[c] \ chunk /\ groups'[c] = {GroupOf(c, j, state[j]) : j \in ready}
      /\ succeeded'[c] = succeeded[c] + Cardinality(noop)
      /\ skipped'[c] = skipped[c] + Cardinality(Unfound(chunk))
  BY <1>1 DEF TypeOK
<1>6. \A j \in Job : state[j] # "none" BY DEF TypeOK, RowState, Idle, Finished
<1>7. chunk \subseteq Job BY <1>4 DEF Plain
<1>8. Chunk(c)' = chunk BY <1>5, <1>6, <1>7 DEF Chunk
<1>9. \A j \in Job : ~LockedBy(c, j)' BY <1>2, <1>4 DEF LockedBy, NoWrites
<1>10. CallInv(c)'
  <2>1. Given(c)'
    <3>1. Calling(c)' BY <1>2, <1>3 DEF Calling
    <3>2. chunk = {} => groups'[c] = {} BY <1>5
    <3> QED BY <1>2, <1>4, <1>5, <1>8, <3>1, <3>2 DEF Given, Calling
  <2>2. Grouped(c)'
    <3>1. \A g \in groups'[c] : g[2] \notin {"Missing"} \cup NoOp(c) BY <1>5 DEF GroupOf
    <3>2. op[c] # "requeue" => \A g \in groups'[c] : g[1] = Null
      BY <1>3, <1>5 DEF GroupOf, Calling
    <3> QED BY <1>2, <1>4, <3>1, <3>2 DEF Grouped, NoOp
  <2>3. Writes(c)' BY <1>9 DEF Writes
  <2>4. Counted(c)'
    <3>1. \A f \in Finished : Gained(c, f)' = Gained(c, f) /\ Taken(c, f)' = Taken(c, f)
      BY <1>2 DEF Gained, Taken, LockedBy
    <3> QED BY <1>2, <3>1 DEF BulkInv, CallInv, Counted
  <2>5. Reported(c)'
    <3>1. Pending(c)' = ready
      <4>1. \A j \in ready : j \in Pending(c)'
        BY <1>2, <1>5, <1>6, <1>7 DEF Pending, GroupOf
      <4>2. ASSUME NEW j \in Pending(c)' PROVE j \in ready
        <5>1. j \in chunk /\ GroupOf(c, j, state[j]) \in groups'[c]
          BY <1>2, <1>5 DEF Pending, GroupOf
        <5>2. PICK i \in ready : GroupOf(c, j, state[j]) = GroupOf(c, i, state[i]) BY <1>5, <5>1
        <5>3. state[j] = state[i] BY <5>2 DEF GroupOf
        <5> QED BY <5>1, <5>3
      <4> QED BY <4>1, <4>2 DEF Pending
    <3>2. Pending(c) = {} BY <1>4 DEF Pending
    <3>3. Cardinality(Pending(c)) = 0 BY <3>2, FS_EmptySet
    <3>4. /\ Cardinality(noop) \in Nat /\ Cardinality(Unfound(chunk)) \in Nat
          /\ Cardinality(ready) \in Nat /\ Cardinality(todo[c]) \in Nat
          /\ Cardinality(todo[c] \ chunk) \in Nat
      BY <1>4, <1>7, RowsAreFinite DEF Unfound, Plain
    <3>5. Cardinality(todo[c]) = Cardinality(todo[c] \ chunk) + Cardinality(chunk)
      <4>1. Cardinality(chunk) \in Nat BY <1>7, RowsAreFinite
      <4> QED BY <1>4, <3>4, <4>1, CountOfRest DEF Plain
    <3>6. Cardinality(chunk) = Cardinality(noop) + Cardinality(Unfound(chunk)) + Cardinality(ready)
      <4>1. /\ noop \cup Unfound(chunk) \cup ready = chunk
            /\ noop \cap Unfound(chunk) = {} /\ (noop \cup Unfound(chunk)) \cap ready = {}
        BY DEF Unfound, NoOp
      <4>2. noop \subseteq Job /\ Unfound(chunk) \subseteq Job /\ ready \subseteq Job
        BY <1>7 DEF Unfound
      <4>3. Cardinality(noop \cup Unfound(chunk)) = Cardinality(noop) + Cardinality(Unfound(chunk))
        BY <4>1, <4>2, CountOfBoth
      <4>4. Cardinality(noop \cup Unfound(chunk) \cup ready)
              = Cardinality(noop \cup Unfound(chunk)) + Cardinality(ready)
        BY <4>1, <4>2, CountOfBoth
      <4> QED BY <4>1, <4>3, <4>4
    <3>7. succeeded[c] + skipped[c] + Cardinality(todo[c]) + Cardinality(Pending(c)) = size[c]
      BY <1>3 DEF BulkInv, CallInv, Reported
    <3>8. succeeded[c] \in Nat /\ skipped[c] \in Nat BY DEF TypeOK
    <3> HIDE DEF ready, noop
    <3>9. succeeded'[c] + skipped'[c] + Cardinality(todo'[c]) + Cardinality(Pending(c)') = size'[c]
      BY <1>2, <1>5, <3>1, <3>3, <3>4, <3>5, <3>6, <3>7, <3>8
    <3> QED BY <3>9 DEF Reported
  <2> QED BY <2>1, <2>2, <2>3, <2>4, <2>5 DEF CallInv
<1>11. ASSUME NEW d \in Caller \ {c} PROVE CallInv(d)'
  <2>1. SameCall(d) BY <1>1, <1>2 DEF SameCall, TypeOK
  <2> QED BY <1>2, <2>1, Undisturbed DEF BulkInv
<1>12. BatchRows' /\ Locks' BY <1>2 DEF BulkInv, BatchRows, Locks, LockedBy
<1> QED BY <1>10, <1>11, <1>12 DEF BulkInv

LEMMA UpdateKeeps ==
  ASSUME TypeOK, BulkInv, NEW c \in Caller, NEW g \in groups[c], Update(c, g) PROVE BulkInv'
<1> DEFINE hit == Hit(c, g)
           n == Affected(c, g)
           new == NewState(c, g[2])
<1>1. /\ written' = [written EXCEPT ![c] = [j \in Job |-> IF j \in hit THEN new ELSE @[j]]]
      /\ counters' = [counters EXCEPT ![c] = [f \in Finished |->
           @[f] - n * One(f = g[2]) + n * One(f = new)]]
      /\ parents' = [parents EXCEPT ![c] = @ \cup (IF hit # {} THEN {g[1]} \ {Null} ELSE {})]
      /\ succeeded' = [succeeded EXCEPT ![c] = @ + n]
      /\ skipped' = [skipped EXCEPT ![c] = @ + Cardinality(IdsOf(c, g)) - n]
      /\ groups' = [groups EXCEPT ![c] = @ \ {g}]
      /\ UNCHANGED <<table, op, size, todo, snap, seen>> /\ ~Blocked(c, hit)
  BY DEF Update
<1>2. UNCHANGED <<state, op, size, todo, snap, seen>> BY <1>1 DEF table
<1>3. /\ written'[c] = [j \in Job |-> IF j \in hit THEN new ELSE written[c][j]]
      /\ counters'[c] = [f \in Finished |-> counters[c][f] - n * One(f = g[2]) + n * One(f = new)]
      /\ parents'[c] = parents[c] \cup (IF hit # {} THEN {g[1]} \ {Null} ELSE {})
      /\ succeeded'[c] = succeeded[c] + n
      /\ skipped'[c] = skipped[c] + Cardinality(IdsOf(c, g)) - n
      /\ groups'[c] = groups[c] \ {g}
  BY <1>1 DEF TypeOK
<1>4. Given(c) /\ Grouped(c) /\ Writes(c) /\ Counted(c) /\ Reported(c) BY DEF BulkInv, CallInv
<1>5. Chunk(c) # {} /\ Calling(c) BY <1>4 DEF Given
\* The rows hit are the chunk's, in the state that was read, and nobody's yet.
<1>6. \A j \in hit : /\ j \in Plain /\ snap[c][j] # "none" /\ snap[c][j] = g[2] /\ state[j] = g[2]
                     /\ GroupOf(c, j, snap[c][j]) = g
                     /\ ~LockedBy(c, j)
  <2>1. \A j \in hit : j \in Job /\ snap[c][j] # "none" /\ GroupOf(c, j, snap[c][j]) = g /\ state[j] = g[2]
    BY DEF Hit, IdsOf
  <2>2. \A j \in hit : snap[c][j] = g[2] BY <2>1 DEF GroupOf
  <2>3. \A j \in hit : j \in Plain BY <1>4, <2>1 DEF Given, Chunk
  <2>4. \A j \in hit : ~LockedBy(c, j) BY <1>4, <2>1, <2>3 DEF Writes, Plain
  <2> QED BY <2>1, <2>2, <2>3, <2>4
<1>7. new \in RowState /\ new # "none" BY DEF NewState, RowState, Idle, Finished
<1>8. hit \in SUBSET Job /\ n = Cardinality(hit) /\ n \in Nat /\ Cardinality(IdsOf(c, g)) \in Nat
  BY CountsAreFinite DEF Hit, IdsOf, Affected
<1>9. \A d \in Caller \ {c} : written'[d] = written[d] /\ SameCall(d)
  BY <1>1, <1>2 DEF SameCall, TypeOK
<1> HIDE DEF hit, n
<1>10. \A j \in Job : /\ j \in hit => LockedBy(c, j)' /\ written'[c][j] = new
                      /\ j \notin hit => written'[c][j] = written[c][j] /\ LockedBy(c, j)' = LockedBy(c, j)
  <2> HIDE DEF new
  <2> QED BY <1>3, <1>7 DEF LockedBy
<1>11. Given(c)'
  <2>1. Chunk(c)' = Chunk(c) BY <1>2 DEF Chunk
  <2>2. op[c] # "none" /\ op[c] # "done" BY <1>5 DEF Calling
  <2> QED BY <1>2, <1>4, <1>5, <2>1, <2>2 DEF Given, Calling
<1>12. Grouped(c)'
  <2>1. op[c] # "requeue" => g[1] = Null BY <1>4 DEF Grouped
  <2> QED BY <1>2, <1>3, <1>4, <2>1 DEF Grouped, NoOp
<1>13. Writes(c)'
  <2> SUFFICES ASSUME NEW j \in Job, LockedBy(c, j)'
               PROVE  (/\ j \in Batch => op[c] = "requeue" /\ written[c][j] = Reopened(c, j)
                       /\ j \notin Batch =>
                            /\ snap[c][j] = state[j] /\ state[j] \notin {"Missing"} \cup NoOp(c)
                            /\ written[c][j] = NewState(c, state[j])
                            /\ GroupOf(c, j, snap[c][j]) \notin groups[c]
                            /\ op[c] = "requeue" /\ Parent[j] # Null =>
                                 Parent[j] \in parents[c] \/ LockedBy(c, Parent[j]))'
    BY DEF Writes
  <2>1. CASE j \in hit
    <3>1. j \notin Batch BY <1>6, <2>1 DEF Plain
    <3>2. (snap[c][j] = state[j] /\ state[j] \notin {"Missing"} \cup NoOp(c))'
      BY <1>2, <1>4, <1>6, <2>1 DEF Grouped, NoOp
    <3>3. (written[c][j] = NewState(c, state[j]))' BY <1>2, <1>6, <1>10, <2>1 DEF NewState
    <3>4. (GroupOf(c, j, snap[c][j]) \notin groups[c])' BY <1>2, <1>3, <1>6, <2>1 DEF GroupOf
    <3>5. op[c] = "requeue" /\ Parent[j] # Null => Parent[j] \in parents'[c]
      <4>1. op[c] = "requeue" => g[1] = Parent[j] BY <1>6, <2>1 DEF GroupOf
      <4> QED BY <1>3, <2>1, <4>1
    <3> QED BY <1>2, <3>1, <3>2, <3>3, <3>4, <3>5
  <2>2. CASE j \notin hit
    <3>1. LockedBy(c, j) /\ written'[c][j] = written[c][j] BY <1>10, <2>2
    <3>2. parents[c] \subseteq parents'[c] /\ groups'[c] \subseteq groups[c] BY <1>3
    <3>3. j \in Batch => (op[c] = "requeue" /\ written[c][j] = Reopened(c, j))'
      BY <1>2, <1>4, <3>1 DEF Writes, Reopened
    <3>4. j \notin Batch => (/\ snap[c][j] = state[j] /\ state[j] \notin {"Missing"} \cup NoOp(c)
                             /\ written[c][j] = NewState(c, state[j])
                             /\ GroupOf(c, j, snap[c][j]) \notin groups[c])'
      BY <1>2, <1>4, <3>1, <3>2 DEF Writes, NoOp, NewState, GroupOf
    <3>5. j \notin Batch /\ op[c] = "requeue" /\ Parent[j] # Null =>
            Parent[j] \in parents'[c] \/ LockedBy(c, Parent[j])'
      <4>1. Parent[j] # Null => Parent[j] \in Job BY JobAssumption
      <4> QED BY <1>4, <1>10, <3>1, <3>2, <4>1 DEF Writes
    <3> QED BY <1>2, <3>3, <3>4, <3>5
  <2> QED BY <2>1, <2>2
<1>14. Counted(c)'
  <2> SUFFICES ASSUME NEW f \in Finished
               PROVE  counters'[c][f] = Cardinality(Gained(c, f)') - Cardinality(Taken(c, f)')
    BY DEF Counted
  <2>1. f # "none" BY DEF Finished
  <2>2. Gained(c, f)' = Gained(c, f) \cup (IF f = new THEN hit ELSE {})
    <3>1. \A j \in Plain : j \in Gained(c, f)' <=> j \in Gained(c, f) \cup (IF f = new THEN hit ELSE {})
      BY <1>6, <1>10, <2>1 DEF Gained, LockedBy, Plain
    <3> QED BY <1>6, <3>1 DEF Gained
  <2>3. Taken(c, f)' = Taken(c, f) \cup (IF f = g[2] THEN hit ELSE {})
    <3>1. \A j \in Plain : j \in Taken(c, f)' <=> j \in Taken(c, f) \cup (IF f = g[2] THEN hit ELSE {})
      BY <1>2, <1>6, <1>10 DEF Taken, Plain
    <3> QED BY <1>6, <3>1 DEF Taken
  <2>4. /\ Gained(c, f) \in SUBSET Job /\ Gained(c, f) \cap hit = {}
        /\ Taken(c, f) \in SUBSET Job /\ Taken(c, f) \cap hit = {}
    BY <1>6, <2>1 DEF Gained, Taken, LockedBy, Plain
  <2>5. Cardinality(Gained(c, f)') = Cardinality(Gained(c, f)) + n * One(f = new)
    <3>1. CASE f = new BY <1>8, <2>2, <2>4, <3>1, CountOfBoth DEF One
    <3>2. CASE f # new
      <4>1. Gained(c, f)' = Gained(c, f) BY <2>2, <3>2
      <4>2. Cardinality(Gained(c, f)) \in Nat BY <2>4, RowsAreFinite
      <4> QED BY <1>8, <3>2, <4>1, <4>2 DEF One
    <3> QED BY <3>1, <3>2
  <2>6. Cardinality(Taken(c, f)') = Cardinality(Taken(c, f)) + n * One(f = g[2])
    <3>1. CASE f = g[2] BY <1>8, <2>3, <2>4, <3>1, CountOfBoth DEF One
    <3>2. CASE f # g[2]
      <4>1. Taken(c, f)' = Taken(c, f) BY <2>3, <3>2
      <4>2. Cardinality(Taken(c, f)) \in Nat BY <2>4, RowsAreFinite
      <4> QED BY <1>8, <3>2, <4>1, <4>2 DEF One
    <3> QED BY <3>1, <3>2
  <2>7. /\ counters[c][f] = Cardinality(Gained(c, f)) - Cardinality(Taken(c, f))
        /\ counters'[c][f] = counters[c][f] - n * One(f = g[2]) + n * One(f = new)
    BY <1>3, <1>4 DEF Counted
  <2>8. /\ Cardinality(Gained(c, f)) \in Nat /\ Cardinality(Taken(c, f)) \in Nat
        /\ n * One(f = new) \in Nat /\ n * One(f = g[2]) \in Nat
    BY <1>8, <2>4, RowsAreFinite DEF One
  <2> HIDE DEF new
  <2> QED BY <2>5, <2>6, <2>7, <2>8
<1>15. Reported(c)'
  <2>1. IdsOf(c, g) \subseteq Pending(c) /\ Pending(c) \subseteq Job BY DEF IdsOf, Pending
  <2>2. Pending(c)' = Pending(c) \ IdsOf(c, g) BY <1>2, <1>3 DEF Pending, IdsOf, GroupOf
  <2>3. Cardinality(Pending(c)') = Cardinality(Pending(c)) - Cardinality(IdsOf(c, g))
    BY <2>1, <2>2, CountOfRest
  <2>4. /\ Cardinality(Pending(c)) \in Nat /\ Cardinality(todo[c]) \in Nat
        /\ succeeded[c] \in Nat /\ skipped[c] \in Nat
    BY <2>1, RowsAreFinite DEF TypeOK
  <2>5. succeeded[c] + skipped[c] + Cardinality(todo[c]) + Cardinality(Pending(c)) = size[c]
    BY <1>4, <1>5 DEF Reported
  <2>6. succeeded'[c] + skipped'[c] + Cardinality(todo'[c]) + Cardinality(Pending(c)') = size'[c]
    BY <1>2, <1>3, <1>8, <2>3, <2>4, <2>5
  <2> QED BY <2>6 DEF Reported
<1>16. ASSUME NEW d \in Caller \ {c} PROVE CallInv(d)'
  BY <1>2, <1>9, Undisturbed DEF BulkInv
<1>17. Locks'
  <2>1. \A d \in Caller \ {c}, j \in hit : ~LockedBy(d, j) BY <1>1 DEF Blocked
  <2>2. \A d \in Caller \ {c}, j \in Job : LockedBy(d, j)' = LockedBy(d, j) BY <1>9 DEF LockedBy
  <2> QED BY <1>10, <2>1, <2>2 DEF BulkInv, Locks
<1>18. BatchRows' BY <1>2 DEF BulkInv, BatchRows
<1>19. CallInv(c)' BY <1>11, <1>12, <1>13, <1>14, <1>15 DEF CallInv
<1> QED BY <1>16, <1>17, <1>18, <1>19 DEF BulkInv

LEMMA LockParentKeeps ==
  ASSUME TypeOK, BulkInv, NEW c \in Caller, NEW p \in parents[c], LockParent(c, p) PROVE BulkInv'
<1>1. /\ written' = [written EXCEPT ![c][p] = Reopened(c, p)]
      /\ parents' = [parents EXCEPT ![c] = @ \ {p}]
      /\ UNCHANGED <<state, op, size, todo, snap, seen, groups, counters, succeeded, skipped>>
      /\ ~Blocked(c, {p})
  BY DEF LockParent, table, result
<1>2. p \in Batch /\ p \in Job BY JobAssumption DEF TypeOK
<1>3. Given(c) /\ Grouped(c) /\ Writes(c) /\ Counted(c) /\ Reported(c) BY DEF BulkInv, CallInv
<1>4. Chunk(c) # {} /\ Calling(c) /\ op[c] = "requeue" BY <1>3 DEF Given, Grouped
<1>5. /\ parents'[c] = parents[c] \ {p} /\ written'[c][p] = Reopened(c, p)
      /\ \A j \in Job \ {p} : written'[c][j] = written[c][j] /\ LockedBy(c, j)' = LockedBy(c, j)
  BY <1>1, <1>2 DEF TypeOK, LockedBy
<1>6. Reopened(c, p) # "none" BY <1>2 DEF Reopened, TypeOK, RowState, Idle, Finished
<1>7. LockedBy(c, p)' BY <1>5, <1>6 DEF LockedBy
<1>8. CallInv(c)'
  <2>1. Chunk(c)' = Chunk(c) BY <1>1 DEF Chunk
  <2>2. Given(c)' BY <1>1, <1>3, <1>4, <2>1 DEF Given, Calling
  <2>3. Grouped(c)' BY <1>1, <1>3, <1>4 DEF Grouped, NoOp
  <2>4. Writes(c)'
    <3> SUFFICES ASSUME NEW j \in Job, LockedBy(c, j)'
                 PROVE  (/\ j \in Batch => op[c] = "requeue" /\ written[c][j] = Reopened(c, j)
                         /\ j \notin Batch =>
                              /\ snap[c][j] = state[j] /\ state[j] \notin {"Missing"} \cup NoOp(c)
                              /\ written[c][j] = NewState(c, state[j])
                              /\ GroupOf(c, j, snap[c][j]) \notin groups[c]
                              /\ op[c] = "requeue" /\ Parent[j] # Null =>
                                   Parent[j] \in parents[c] \/ LockedBy(c, Parent[j]))'
      BY DEF Writes
    <3>1. CASE j = p BY <1>1, <1>2, <1>4, <1>5, <3>1 DEF Reopened
    <3>2. CASE j # p
      <4>1. LockedBy(c, j) /\ written'[c][j] = written[c][j] BY <1>5, <3>2
      <4>2. j \in Batch => (op[c] = "requeue" /\ written[c][j] = Reopened(c, j))'
        BY <1>1, <1>3, <4>1 DEF Writes, Reopened
      <4>3. j \notin Batch => (/\ snap[c][j] = state[j] /\ state[j] \notin {"Missing"} \cup NoOp(c)
                               /\ written[c][j] = NewState(c, state[j])
                               /\ GroupOf(c, j, snap[c][j]) \notin groups[c])'
        BY <1>1, <1>3, <4>1 DEF Writes, NoOp, NewState, GroupOf
      <4>4. j \notin Batch /\ Parent[j] # Null =>
              Parent[j] \in parents'[c] \/ LockedBy(c, Parent[j])'
        <5>1. Parent[j] # Null => Parent[j] \in Job BY JobAssumption
        <5>2. j \notin Batch /\ Parent[j] # Null => Parent[j] \in parents[c] \/ LockedBy(c, Parent[j])
          BY <1>3, <1>4, <4>1 DEF Writes
        <5> QED BY <1>5, <1>7, <5>1, <5>2
      <4> QED BY <1>1, <4>2, <4>3, <4>4
    <3> QED BY <3>1, <3>2
  <2>5. Counted(c)'
    <3>1. \A f \in Finished : Gained(c, f)' = Gained(c, f) /\ Taken(c, f)' = Taken(c, f)
      BY <1>1, <1>2, <1>5 DEF Gained, Taken, Plain
    <3> QED BY <1>1, <1>3, <3>1 DEF Counted
  <2>6. Reported(c)'
    <3>1. Pending(c)' = Pending(c) BY <1>1 DEF Pending, GroupOf
    <3> QED BY <1>1, <1>3, <3>1 DEF Reported, Calling
  <2> QED BY <2>2, <2>3, <2>4, <2>5, <2>6 DEF CallInv
<1>9. \A d \in Caller \ {c} : SameCall(d) BY <1>1 DEF SameCall, TypeOK
<1>10. ASSUME NEW d \in Caller \ {c} PROVE CallInv(d)' BY <1>1, <1>9, Undisturbed DEF BulkInv
<1>11. Locks'
  <2>1. \A d \in Caller \ {c} : ~LockedBy(d, p) BY <1>1 DEF Blocked
  <2>2. \A d \in Caller \ {c}, j \in Job : LockedBy(d, j)' = LockedBy(d, j)
    BY <1>9 DEF SameCall, LockedBy
  <2>3. \A j \in Job \ {p} : LockedBy(c, j)' = LockedBy(c, j) BY <1>5
  <2>4. ASSUME NEW d \in Caller, NEW e \in Caller, NEW j \in Job, LockedBy(d, j)', LockedBy(e, j)'
        PROVE  d = e
    BY <2>1, <2>2, <2>3, <2>4 DEF BulkInv, Locks
  <2> QED BY <2>4 DEF Locks
<1>12. BatchRows' BY <1>1 DEF BulkInv, BatchRows
<1> QED BY <1>8, <1>10, <1>11, <1>12 DEF BulkInv

\* A call whose transaction is over owes nothing for its chunk.
LEMMA ClosedKeeps ==
  ASSUME TypeOK, NEW c \in Caller, Given(c), Close(c), groups'[c] = {}, parents'[c] = {},
         todo'[c] \subseteq todo[c], op'[c] # "none", op'[c] = "done" => todo'[c] = {}
  PROVE  Given(c)' /\ Grouped(c)' /\ Writes(c)' /\ Counted(c)' /\ Pending(c)' = {}
<1>1. snap'[c] = NoWrites /\ written'[c] = NoWrites /\ counters'[c] = NoCount
  BY DEF Close, TypeOK
<1>2. Chunk(c)' = {} BY <1>1 DEF Chunk, NoWrites
<1>3. \A j \in Job : ~LockedBy(c, j)' BY <1>1 DEF LockedBy, NoWrites
<1>4. Given(c)' BY <1>1, <1>2 DEF Given, Plain, NoWrites, NoCount
<1>5. Counted(c)'
  <2>1. \A f \in Finished : Gained(c, f)' = {} /\ Taken(c, f)' = {}
    BY <1>1, <1>3 DEF Gained, Taken, Plain, NoWrites, Finished
  <2>2. \A f \in Finished : counters'[c][f] = 0 BY <1>1 DEF NoCount
  <2> QED BY <2>1, <2>2, FS_EmptySet DEF Counted
<1>6. Grouped(c)' BY DEF Grouped
<1>7. Writes(c)' BY <1>3 DEF Writes
<1>8. Pending(c)' = {} BY DEF Pending
<1> QED BY <1>4, <1>5, <1>6, <1>7, <1>8

LEMMA CommitKeeps == ASSUME TypeOK, BulkInv, NEW c \in Caller, Commit(c) PROVE BulkInv'
<1>1. /\ state' = [j \in Job |-> IF LockedBy(c, j) THEN written[c][j] ELSE state[j]]
      /\ op' = [op EXCEPT ![c] = IF todo[c] = {} THEN "done" ELSE @]
      /\ seen' = [seen EXCEPT ![c] = @ \cup {p \in Batch : LockedBy(c, p)}]
      /\ InChunk(c) /\ groups[c] = {} /\ parents[c] = {} /\ Close(c)
      /\ UNCHANGED <<size, todo, groups, parents, succeeded, skipped>>
  BY DEF Commit, result
<1>2. Given(c) /\ Writes(c) /\ Reported(c) BY DEF BulkInv, CallInv
<1>3. Chunk(c) # {} /\ Calling(c) BY <1>1, <1>2 DEF Given, InChunk, Chunk
<1>4. op'[c] = IF todo[c] = {} THEN "done" ELSE op[c] BY <1>1 DEF TypeOK
<1>5. op'[c] # "none" /\ (op'[c] = "done" => todo'[c] = {})
  BY <1>1, <1>3, <1>4 DEF Calling
<1>6. Given(c)' /\ Grouped(c)' /\ Writes(c)' /\ Counted(c)' /\ Pending(c)' = {}
  BY <1>1, <1>2, <1>5, ClosedKeeps
<1>7. Reported(c)'
  <2>1. Pending(c) = {} BY <1>1 DEF Pending
  <2>2. succeeded[c] + skipped[c] + Cardinality(todo[c]) + Cardinality(Pending(c)) = size[c]
    BY <1>2, <1>3 DEF Reported
  <2>3. Pending(c)' = Pending(c) BY <1>6, <2>1
  <2> QED BY <1>1, <2>2, <2>3 DEF Reported
<1>8. ASSUME NEW d \in Caller \ {c} PROVE CallInv(d)'
  <2>1. SameCall(d) BY <1>1 DEF SameCall, Close, TypeOK
  <2>2. \A j \in Job : LockedBy(d, j) => state'[j] = state[j] BY <1>1 DEF BulkInv, Locks
  <2> QED BY <2>1, <2>2, Undisturbed DEF BulkInv
<1>9. BatchRows'
  <2>1. \A b \in Batch : LockedBy(c, b) => written[c][b] = Reopened(c, b)
    BY <1>2, JobAssumption DEF Writes
  <2> QED BY <1>1, <2>1, JobAssumption DEF BulkInv, BatchRows, Reopened
<1>10. Locks'
  <2>1. \A d \in Caller, j \in Job : LockedBy(d, j)' => LockedBy(d, j)
    <3>1. \A j \in Job : ~LockedBy(c, j)' BY <1>1 DEF Close, TypeOK, LockedBy, NoWrites
    <3>2. \A d \in Caller \ {c} : written'[d] = written[d] BY <1>1 DEF Close, TypeOK
    <3> QED BY <3>1, <3>2 DEF LockedBy
  <2> QED BY <2>1 DEF BulkInv, Locks
<1> QED BY <1>6, <1>7, <1>8, <1>9, <1>10 DEF BulkInv, CallInv

LEMMA FailKeeps == ASSUME TypeOK, BulkInv, NEW c \in Caller, Fail(c) PROVE BulkInv'
<1>1. /\ groups' = [groups EXCEPT ![c] = {}] /\ parents' = [parents EXCEPT ![c] = {}]
      /\ todo' = [todo EXCEPT ![c] = {}] /\ op' = [op EXCEPT ![c] = "thrown"] /\ Close(c)
      /\ UNCHANGED <<state, size, seen, succeeded, skipped>>
  BY DEF Fail, table, result
<1>2. Given(c) BY DEF BulkInv, CallInv
<1>3. groups'[c] = {} /\ parents'[c] = {} /\ todo'[c] = {} /\ op'[c] = "thrown"
  BY <1>1 DEF TypeOK
<1>4. Given(c)' /\ Grouped(c)' /\ Writes(c)' /\ Counted(c)' BY <1>1, <1>2, <1>3, ClosedKeeps
<1>5. Reported(c)' BY <1>3 DEF Reported, Calling
<1>6. ASSUME NEW d \in Caller \ {c} PROVE CallInv(d)'
  <2>1. SameCall(d) BY <1>1 DEF SameCall, Close, TypeOK
  <2> QED BY <1>1, <2>1, Undisturbed DEF BulkInv
<1>7. BatchRows' BY <1>1 DEF BulkInv, BatchRows
<1>8. Locks'
  <2>1. \A d \in Caller, j \in Job : LockedBy(d, j)' => LockedBy(d, j)
    <3>1. \A j \in Job : ~LockedBy(c, j)' BY <1>1 DEF Close, TypeOK, LockedBy, NoWrites
    <3>2. \A d \in Caller \ {c} : written'[d] = written[d] BY <1>1 DEF Close, TypeOK
    <3> QED BY <3>1, <3>2 DEF LockedBy
  <2> QED BY <2>1 DEF BulkInv, Locks
<1> QED BY <1>4, <1>5, <1>6, <1>7, <1>8 DEF BulkInv, CallInv

\* Workers and the orchestrator change free rows only, and batches only to a verdict.
LEMMA OthersKeep ==
  ASSUME TypeOK, BulkInv, NEW j \in Job, NEW s, state' = [state EXCEPT ![j] = s], Free(j),
         j \in Batch => s \in {"Completed", "Failed"},
         UNCHANGED <<op, size, todo, snap, seen, transaction, result>>
  PROVE  BulkInv'
<1>1. ASSUME NEW d \in Caller PROVE CallInv(d)'
  <2>1. SameCall(d) BY DEF SameCall, transaction, result
  <2>2. \A i \in Job : LockedBy(d, i) => state'[i] = state[i] BY DEF Free, TypeOK
  <2> QED BY <2>1, <2>2, Undisturbed DEF BulkInv
<1>2. BatchRows' BY JobAssumption DEF BulkInv, BatchRows, TypeOK
<1>3. Locks' BY DEF BulkInv, Locks, LockedBy, transaction
<1> QED BY <1>1, <1>2, <1>3 DEF BulkInv

LEMMA InitInv == Init => BulkInv
<1> SUFFICES ASSUME Init PROVE BulkInv OBVIOUS
<1>1. ASSUME NEW c \in Caller PROVE CallInv(c)
  <2>1. /\ op[c] = "none" /\ size[c] = 0 /\ todo[c] = {} /\ snap[c] = NoWrites
        /\ groups[c] = {} /\ parents[c] = {} /\ written[c] = NoWrites /\ counters[c] = NoCount
        /\ succeeded[c] = 0 /\ skipped[c] = 0
    BY DEF Init
  <2>2. Chunk(c) = {} BY <2>1 DEF Chunk, NoWrites
  <2>3. \A j \in Job : ~LockedBy(c, j) BY <2>1 DEF LockedBy, NoWrites
  <2>4. Given(c) BY <2>1, <2>2 DEF Given
  <2>5. Grouped(c) /\ Writes(c) /\ Reported(c) BY <2>1, <2>3 DEF Grouped, Writes, Reported, Calling
  <2>6. Counted(c)
    <3>1. \A f \in Finished : Gained(c, f) = {} /\ Taken(c, f) = {}
      BY <2>1, <2>3 DEF Gained, Taken, Plain, NoWrites, Finished
    <3>2. \A f \in Finished : counters[c][f] = 0 BY <2>1 DEF NoCount
    <3> QED BY <3>1, <3>2, FS_EmptySet DEF Counted
  <2> QED BY <2>4, <2>5, <2>6 DEF CallInv
<1>2. BatchRows BY DEF Init, BatchRows
<1>3. Locks BY DEF Init, Locks, LockedBy, NoWrites
<1> QED BY <1>1, <1>2, <1>3 DEF BulkInv

LEMMA StepInv == TypeOK /\ BulkInv /\ [Next]_vars => BulkInv'
<1> SUFFICES ASSUME TypeOK, BulkInv, [Next]_vars PROVE BulkInv' OBVIOUS
<1>1. ASSUME NEW j \in Job, Claim(j) PROVE BulkInv'
  BY <1>1, OthersKeep DEF Claim
<1>2. ASSUME NEW j \in Job, End(j) PROVE BulkInv'
  <2>1. j \notin Batch BY <1>2 DEF End, BulkInv, BatchRows
  <2>2. PICK s \in {"Completed", "Failed"} : state' = [state EXCEPT ![j] = s] BY <1>2 DEF End
  <2> QED BY <1>2, <2>1, <2>2, OthersKeep DEF End
<1>3. ASSUME NEW c \in Caller, Call(c) PROVE BulkInv' BY <1>3, CallKeeps
<1>4. ASSUME NEW c \in Caller, Snapshot(c) PROVE BulkInv' BY <1>4, SnapshotKeeps
<1>5. ASSUME NEW c \in Caller, NEW g \in groups[c], Update(c, g) PROVE BulkInv' BY <1>5, UpdateKeeps
<1>6. ASSUME NEW c \in Caller, NEW p \in parents[c], LockParent(c, p) PROVE BulkInv'
  BY <1>6, LockParentKeeps
<1>7. ASSUME NEW c \in Caller, Commit(c) PROVE BulkInv' BY <1>7, CommitKeeps
<1>8. ASSUME NEW c \in Caller, Fail(c) PROVE BulkInv' BY <1>8, FailKeeps
<1>9. ASSUME NEW b \in Batch, Settle(b) PROVE BulkInv'
  <2>1. PICK s \in {"Completed", "Failed"} : state' = [state EXCEPT ![b] = s] BY <1>9 DEF Settle
  <2> QED BY <1>9, <2>1, JobAssumption, OthersKeep DEF Settle
<1>10. CASE UNCHANGED vars
  <2>1. UNCHANGED <<state, op, size, todo, snap, seen, groups, parents, written, counters, succeeded, skipped>>
    BY <1>10 DEF vars, table, transaction, result
  <2>2. ASSUME NEW d \in Caller PROVE CallInv(d)'
    BY <2>1, Undisturbed DEF BulkInv, SameCall
  <2>3. BatchRows' /\ Locks' BY <2>1 DEF BulkInv, BatchRows, Locks, LockedBy
  <2> QED BY <2>2, <2>3 DEF BulkInv
<1> QED BY <1>1, <1>2, <1>3, <1>4, <1>5, <1>6, <1>7, <1>8, <1>9, <1>10 DEF Next

-------------------------------------------------------------------------------
(* The theorems.                                                           *)

\* The counters of finished jobs follow a worker's result: one row joins its state.
LEMMA EndCounts ==
  ASSUME TypeOK, BulkInv, StatsAgree, NEW j \in Job, End(j) PROVE StatsAgree'
<1>1. PICK s \in {"Completed", "Failed"} : /\ state' = [state EXCEPT ![j] = s]
                                           /\ stats' = [stats EXCEPT ![s] = @ + 1]
  BY DEF End
<1>2. state[j] = "Processing" /\ j \in Plain BY DEF End, Plain, BulkInv, BatchRows
<1> SUFFICES ASSUME NEW f \in Finished PROVE stats'[f] = Cardinality(Rows(f)') BY DEF StatsAgree
<1>3. /\ Rows(f) \in SUBSET Job /\ IsFiniteSet(Rows(f)) /\ Cardinality(Rows(f)) \in Nat
      /\ stats[f] = Cardinality(Rows(f))
  <2>1. Rows(f) \in SUBSET Job BY DEF Rows
  <2> QED BY <2>1, RowsAreFinite DEF StatsAgree
<1>4. j \notin Rows(f) BY <1>2 DEF Rows, Finished
<1>5. CASE f = s
  <2>1. Rows(f)' = Rows(f) \cup {j} BY <1>1, <1>2, <1>5 DEF Rows, TypeOK, Plain
  <2>2. Cardinality(Rows(f) \cup {j}) = Cardinality(Rows(f)) + 1 BY <1>3, <1>4, FS_AddElement
  <2>3. stats'[f] = stats[f] + 1 BY <1>1, <1>5 DEF TypeOK
  <2> QED BY <1>3, <2>1, <2>2, <2>3
<1>6. CASE f # s
  <2>1. Rows(f)' = Rows(f) BY <1>1, <1>2, <1>6 DEF Rows, TypeOK, Plain, Finished
  <2>2. stats'[f] = stats[f] BY <1>1, <1>6 DEF TypeOK
  <2> QED BY <1>3, <2>1, <2>2
<1> QED BY <1>5, <1>6

\* A commit moves each counter by the rows that joined the state less those that left.
LEMMA CommitCounts ==
  ASSUME TypeOK, BulkInv, StatsAgree, NEW c \in Caller, Commit(c) PROVE StatsAgree'
<1>1. /\ state' = [j \in Job |-> IF LockedBy(c, j) THEN written[c][j] ELSE state[j]]
      /\ stats' = [f \in Finished |-> stats[f] + counters[c][f]]
  BY DEF Commit
<1> SUFFICES ASSUME NEW f \in Finished PROVE stats'[f] = Cardinality(Rows(f)') BY DEF StatsAgree
<1>2. f # "none" BY DEF Finished
<1>3. /\ Rows(f) \in SUBSET Job /\ Gained(c, f) \in SUBSET Job /\ Taken(c, f) \in SUBSET Rows(f)
      /\ Rows(f) \ Taken(c, f) \in SUBSET Job
  BY DEF Rows, Gained, Taken, Plain
<1>4. Rows(f)' = (Rows(f) \ Taken(c, f)) \cup Gained(c, f)
  BY <1>1, <1>2 DEF Rows, Gained, Taken, Plain, LockedBy
<1>5. (Rows(f) \ Taken(c, f)) \cap Gained(c, f) = {}
  BY <1>2 DEF Rows, Gained, Taken, Plain, LockedBy
<1>6. Cardinality(Rows(f)') = Cardinality(Rows(f) \ Taken(c, f)) + Cardinality(Gained(c, f))
  BY <1>3, <1>4, <1>5, CountOfBoth
<1>7. Cardinality(Rows(f) \ Taken(c, f)) = Cardinality(Rows(f)) - Cardinality(Taken(c, f))
  BY <1>3, CountOfRest
<1>8. /\ Cardinality(Rows(f)) \in Nat /\ Cardinality(Taken(c, f)) \in Nat
      /\ Cardinality(Gained(c, f)) \in Nat
  <2>1. Taken(c, f) \in SUBSET Job BY <1>3
  <2> QED BY <1>3, <2>1, RowsAreFinite
<1>9. /\ stats[f] = Cardinality(Rows(f))
      /\ counters[c][f] = Cardinality(Gained(c, f)) - Cardinality(Taken(c, f))
  BY DEF StatsAgree, BulkInv, CallInv, Counted
<1>10. stats'[f] = stats[f] + counters[c][f] BY <1>1
<1> QED BY <1>6, <1>7, <1>8, <1>9, <1>10

LEMMA StepCounts == TypeOK /\ BulkInv /\ StatsAgree /\ [Next]_vars => StatsAgree'
<1> SUFFICES ASSUME TypeOK, BulkInv, StatsAgree, [Next]_vars PROVE StatsAgree' OBVIOUS
<1>1. ASSUME UNCHANGED <<state, stats>> PROVE StatsAgree' BY <1>1 DEF StatsAgree, Rows
<1>2. ASSUME NEW j \in Job, Claim(j) PROVE StatsAgree'
  <2>1. /\ state' = [state EXCEPT ![j] = "Processing"] /\ state[j] = "Enqueued" /\ stats' = stats
    BY <1>2 DEF Claim
  <2>2. \A f \in Finished : Rows(f)' = Rows(f) BY <2>1 DEF Rows, Finished, TypeOK
  <2> QED BY <2>1, <2>2 DEF StatsAgree
<1>3. ASSUME NEW j \in Job, End(j) PROVE StatsAgree' BY <1>3, EndCounts
<1>4. ASSUME NEW c \in Caller, Call(c) PROVE StatsAgree' BY <1>1, <1>4 DEF Call, table
<1>5. ASSUME NEW c \in Caller, Snapshot(c) PROVE StatsAgree' BY <1>1, <1>5 DEF Snapshot, table
<1>6. ASSUME NEW c \in Caller, NEW g \in groups[c], Update(c, g) PROVE StatsAgree'
  BY <1>1, <1>6 DEF Update, table
<1>7. ASSUME NEW c \in Caller, NEW p \in parents[c], LockParent(c, p) PROVE StatsAgree'
  BY <1>1, <1>7 DEF LockParent, table
<1>8. ASSUME NEW c \in Caller, Commit(c) PROVE StatsAgree' BY <1>8, CommitCounts
<1>9. ASSUME NEW c \in Caller, Fail(c) PROVE StatsAgree' BY <1>1, <1>9 DEF Fail, table
<1>10. ASSUME NEW b \in Batch, Settle(b) PROVE StatsAgree'
  <2>1. PICK s \in {"Completed", "Failed"} : state' = [state EXCEPT ![b] = s] BY <1>10 DEF Settle
  <2>2. \A f \in Finished : Rows(f)' = Rows(f) BY <2>1 DEF Rows, TypeOK
  <2>3. stats' = stats BY <1>10 DEF Settle
  <2> QED BY <2>2, <2>3 DEF StatsAgree
<1>11. CASE UNCHANGED vars BY <1>1, <1>11 DEF vars, table
<1> QED BY <1>2, <1>3, <1>4, <1>5, <1>6, <1>7, <1>8, <1>9, <1>10, <1>11 DEF Next

\* What a call has reported when it is done is what it was given.
LEMMA TotalsFollow == TypeOK /\ BulkInv => TotalsAddUp
<1> SUFFICES ASSUME TypeOK, BulkInv, NEW c \in Caller, op[c] = "done"
             PROVE  succeeded[c] + skipped[c] = size[c]
  BY DEF TotalsAddUp
<1>1. Given(c) /\ Reported(c) BY DEF BulkInv, CallInv
<1>2. todo[c] = {} /\ groups[c] = {} BY <1>1 DEF Given, Calling
<1>3. Pending(c) = {} BY <1>2 DEF Pending
<1>4. Cardinality(todo[c]) = 0 /\ Cardinality(Pending(c)) = 0 BY <1>2, <1>3, FS_EmptySet
<1>5. succeeded[c] \in Nat /\ skipped[c] \in Nat BY DEF TypeOK
<1> QED BY <1>1, <1>4, <1>5 DEF Reported

\* What a commit does to one row, with the caller's writes as the invariant has them.
LEMMA CommitRow ==
  ASSUME TypeOK, BulkInv, NEW c \in Caller, NEW j \in Job, Commit(c)
  PROVE  /\ state'[j] # state[j] /\ j \notin Batch =>
              state[j] \in Idle /\ state'[j] = IF op[c] = "delete" THEN "Deleted" ELSE "Enqueued"
         /\ marked'[j] # marked[j] => op[c] = "delete" /\ state[j] = "Processing"
         /\ /\ op[c] = "requeue" /\ state'[j] # state[j]
            /\ j \notin Batch /\ Parent[j] \notin {Null} \cup seen[c]
            => state'[Parent[j]] \notin {"Completed", "Failed"}
<1>1. /\ state' = [i \in Job |-> IF LockedBy(c, i) THEN written[c][i] ELSE state[i]]
      /\ marked' = [i \in Job |-> marked[i] \/ (op[c] = "delete" /\ written[c][i] = "Processing")]
      /\ InChunk(c) /\ parents[c] = {}
  BY DEF Commit
<1>2. Given(c) /\ Writes(c) BY DEF BulkInv, CallInv
<1>3. Calling(c) BY <1>1, <1>2 DEF Given, InChunk, Chunk
<1>4. ASSUME state'[j] # state[j], j \notin Batch
      PROVE  state[j] \in Idle /\ state'[j] = IF op[c] = "delete" THEN "Deleted" ELSE "Enqueued"
  <2>1. LockedBy(c, j) /\ state'[j] = written[c][j] BY <1>1, <1>4
  <2>2. /\ state[j] \notin {"Missing"} \cup NoOp(c) /\ written[c][j] = NewState(c, state[j])
    BY <1>2, <1>4, <2>1 DEF Writes
  <2>3. state[j] \in RowState BY DEF TypeOK
  <2>4. CASE op[c] = "delete" BY <1>4, <2>1, <2>2, <2>3, <2>4 DEF NewState, RowState
  <2>5. CASE op[c] = "requeue" BY <1>4, <2>1, <2>2, <2>3, <2>5 DEF NewState, NoOp, RowState
  <2> QED BY <1>3, <2>4, <2>5 DEF Calling
<1>5. ASSUME marked'[j] # marked[j] PROVE op[c] = "delete" /\ state[j] = "Processing"
  <2>1. op[c] = "delete" /\ written[c][j] = "Processing" BY <1>1, <1>5 DEF TypeOK
  <2>2. LockedBy(c, j) BY <2>1 DEF LockedBy
  <2>3. j \notin Batch BY <1>2, <2>1, <2>2 DEF Writes
  <2> QED BY <1>2, <2>1, <2>2, <2>3 DEF Writes, NewState
<1>6. ASSUME op[c] = "requeue", state'[j] # state[j], j \notin Batch, Parent[j] # Null,
             Parent[j] \notin seen[c]
      PROVE  state'[Parent[j]] \notin {"Completed", "Failed"}
  <2>1. LockedBy(c, j) BY <1>1, <1>6
  <2>2. Parent[j] \in Batch /\ Parent[j] \in Job BY <1>6, JobAssumption
  <2>3. LockedBy(c, Parent[j]) BY <1>1, <1>2, <1>6, <2>1 DEF Writes
  <2>4. state'[Parent[j]] = Reopened(c, Parent[j]) BY <1>1, <1>2, <2>2, <2>3 DEF Writes
  <2> QED BY <1>6, <2>4 DEF Reopened
<1> QED BY <1>4, <1>5, <1>6

\* Every variable keeps its type, for any table, any callers and any chunk size.
THEOREM TypeCorrect == Spec => []TypeOK
<1>1. Init => TypeOK BY InitTyped
<1>2. TypeOK /\ [Next]_vars => TypeOK' BY StepTyped
<1> QED BY <1>1, <1>2, PTL DEF Spec

\* The invariant of the calls: what a transaction has written follows from the rows it
\* has locked, and what is counted and reported from what it has written.
THEOREM CallsAreSound == Spec => [](TypeOK /\ BulkInv)
<1>1. Init => TypeOK /\ BulkInv BY InitTyped, InitInv
<1>2. TypeOK /\ BulkInv /\ [Next]_vars => (TypeOK /\ BulkInv)' BY StepTyped, StepInv
<1> QED BY <1>1, <1>2, PTL DEF Spec

\* BulkDeleteJobs and BulkRequeueJobs keep the counters of succeeded, failed and deleted
\* jobs equal to the rows in these states, whoever else works on the same rows.
THEOREM CountersAgree == Spec => []StatsAgree
<1>1. Init => StatsAgree BY DEF Init, StatsAgree, Rows
<1>2. TypeOK /\ BulkInv /\ StatsAgree /\ [Next]_vars => StatsAgree' BY StepCounts
<1> QED BY <1>1, <1>2, CallsAreSound, PTL DEF Spec

\* A bulk call that returns has reported each of its ids once: BulkResultModel's totals
\* add up to the size of the selection.
THEOREM EveryIdIsReported == Spec => []TotalsAddUp
<1>1. TypeOK /\ BulkInv => TotalsAddUp BY TotalsFollow
<1> QED BY <1>1, CallsAreSound, PTL

\* A chunk's commit does to each row what DeleteJob or RequeueJob would do to it at that
\* moment, although the chunk was read before its transaction began.
THEOREM BulkIsManyCommands == Spec => CommitIsManyCommands
<1> DEFINE Each == \A c \in Caller, j \in Job : Commit(c) =>
             /\ state'[j] # state[j] /\ j \notin Batch =>
                  state[j] \in Idle /\ state'[j] = IF op[c] = "delete" THEN "Deleted" ELSE "Enqueued"
             /\ marked'[j] # marked[j] => op[c] = "delete" /\ state[j] = "Processing"
             /\ /\ op[c] = "requeue" /\ state'[j] # state[j]
                /\ j \notin Batch /\ Parent[j] \notin {Null} \cup seen[c]
                => state'[Parent[j]] \notin {"Completed", "Failed"}
<1>1. TypeOK /\ BulkInv => Each BY CommitRow
<1>2. TypeOK /\ BulkInv /\ [Next]_vars => [Each]_vars BY <1>1
<1>3. Spec => [][Each]_vars BY <1>2, CallsAreSound, PTL DEF Spec
<1> QED BY <1>3 DEF CommitIsManyCommands
=============================================================================
