------------------------ MODULE JobLifecycle_proofs ------------------------
(***************************************************************************)
(* Proofs about JobLifecycle: what holds whatever the switches say, what   *)
(* holds in the intended regime, and that there the job table implements   *)
(* JobPromise.                                                             *)
(*                                                                         *)
(* ClaimIsExclusive is not inductive by itself: recovery must not find a   *)
(* held row stale, so the keep-alive of a held row is fresh.  That a       *)
(* finalized row stays clean needs the monitor to be gone before its       *)
(* worker's locals are.  That the counters agree needs an unfinished row   *)
(* to have been counted nowhere, and nothing left over from a failed save. *)
(***************************************************************************)
EXTENDS JobLifecycle, TLAPS

----------------------------------------------------------------------------
(* Types.                                                                  *)

\* A row's new state is a state, whoever sets it.
LEMMA RecoveredStateType ==
  ASSUME NEW j \in Job, TypeOK
  PROVE  RecoveredState(j) \in {"Deleted", "Failed", "Enqueued"}
BY DEF RecoveredState, TypeOK

\* Every column, local and account keeps its type through every step of the system.
LEMMA TypeInductive == TypeOK /\ [Next]_vars => TypeOK'
<1> SUFFICES ASSUME TypeOK, [Next]_vars PROVE TypeOK'
  OBVIOUS
<1> USE DEF TypeOK, row, loops, accounts
<1>1. ASSUME NEW j \in Job, Publish(j) PROVE TypeOK'
  BY <1>1 DEF Publish, RowState, Outcome
<1>2. CASE ActivateScheduled
  BY <1>2 DEF ActivateScheduled, RowState, Outcome, Queued
<1>3. ASSUME NEW w \in Worker, NEW j \in Job, Claim(w, j) PROVE TypeOK'
  BY <1>3 DEF Claim, Take, RowState
<1>4. ASSUME NEW w \in Worker, Begin(w) PROVE TypeOK'
  BY <1>4 DEF Begin
<1>5. ASSUME NEW w \in Worker, MonitorRead(w) PROVE TypeOK'
  BY <1>5 DEF MonitorRead, MonitorEnds
<1>6. ASSUME NEW w \in Worker, MonitorUpdate(w) PROVE TypeOK'
  <2>1. keepAlive' \in [Job -> {"none", "fresh", "stale"}]
    BY <1>6 DEF MonitorUpdate
  <2>2. /\ monitor' \in [Worker -> {"off", "waiting", "updating"}]
        /\ watched' \in [Worker -> Job \cup {Null}]
    BY <1>6 DEF MonitorUpdate, MonitorEnds
  <2> QED
    BY <1>6, <2>1, <2>2 DEF MonitorUpdate
<1>7. ASSUME NEW w \in Worker, MonitorStop(w) PROVE TypeOK'
  BY <1>7 DEF MonitorStop, MonitorEnds
<1>8. ASSUME NEW w \in Worker, HandlerEnds(w) PROVE TypeOK'
  BY <1>8 DEF HandlerEnds, Returned, Outcome, Finished, Queued
<1>9. ASSUME NEW w \in Worker, Finalize(w) PROVE TypeOK'
  <2> DEFINE j == task[w]
  <2>1. j \in Job /\ outcome[w] \in Outcome
    BY <1>9 DEF Finalize
  <2>2. state' \in [Job -> RowState] /\ owner' \in [Job -> Worker \cup {Null}]
    BY <1>9, <2>1 DEF Finalize, Release, RowState
  <2>3. /\ keepAlive' \in [Job -> {"none", "fresh", "stale"}]
        /\ cancelling' \in [Job -> BOOLEAN] /\ expires' \in [Job -> BOOLEAN]
    BY <1>9, <2>1 DEF Finalize, Release, ModeAfterSave, ExpiryAfterSave
  <2>4. stats' \in [Job -> [Finished -> Int]] /\ grants' \in [Job -> Nat]
    BY <1>9, <2>1 DEF Finalize, One
  <2>5. UNCHANGED <<monitor, watched, condemned, asked, claims, requeues>>
    BY <1>9 DEF Finalize
  <2>6. Leave(w, "idle")
    BY <1>9 DEF Finalize
  <2> QED
    BY <2>2, <2>3, <2>4, <2>5, <2>6 DEF Leave
<1>10. ASSUME NEW w \in Worker, SaveFails(w) PROVE TypeOK'
  BY <1>10 DEF SaveFails, Outcome, Finished
<1>11. ASSUME NEW w \in Worker, Abandon(w) PROVE TypeOK'
  BY <1>11 DEF Abandon, Leave
<1>12. ASSUME NEW w \in Worker, Crash(w) PROVE TypeOK'
  BY <1>12 DEF Crash, Leave, MonitorEnds
<1>13. ASSUME NEW j \in Job, KeepAliveAges(j) PROVE TypeOK'
  BY <1>13 DEF KeepAliveAges
<1>14. CASE RecoverStale
  <2>1. PICK S \in SUBSET {j \in Job : Stale(j)} : RecoverStale!(S)
    BY <1>14 DEF RecoverStale
  <2>2. state' \in [Job -> RowState]
    BY <2>1, RecoveredStateType DEF RowState, Outcome, Finished, Queued
  <2>3. /\ owner' \in [Job -> Worker \cup {Null}]
        /\ keepAlive' \in [Job -> {"none", "fresh", "stale"}]
    BY <2>1 DEF Release
  <2>4. cancelling' \in [Job -> BOOLEAN] /\ expires' \in [Job -> BOOLEAN]
    BY <2>1
  <2>5. stats' \in [Job -> [Finished -> Int]]
    BY <2>1 DEF Counted, One
  <2>6. grants' \in [Job -> Nat]
    BY <2>1 DEF One
  <2> QED
    BY <2>1, <2>2, <2>3, <2>4, <2>5, <2>6
<1>15. CASE CleanupSelect
  BY <1>15 DEF CleanupSelect
<1>16. CASE CleanupDelete
  BY <1>16 DEF CleanupDelete, Release, RowState
<1>17. ASSUME NEW j \in Job, DeleteJob(j) PROVE TypeOK'
  <2>1. CASE DeleteProcessing(j)
    BY <2>1 DEF DeleteProcessing
  <2>2. CASE DeleteIdle(j)
    BY <2>2 DEF DeleteIdle, Moved, One, RowState, Outcome, Finished
  <2> QED
    BY <1>17, <2>1, <2>2 DEF DeleteJob
<1>18. ASSUME NEW j \in Job, RequeueJob(j) PROVE TypeOK'
  BY <1>18 DEF RequeueJob, Moved, One, RowState, Outcome, Queued
<1>19. CASE UNCHANGED vars
  BY <1>19 DEF vars
<1> QED
  BY <1>1, <1>2, <1>3, <1>4, <1>5, <1>6, <1>7, <1>8, <1>9, <1>10, <1>11, <1>12,
     <1>13, <1>14, <1>15, <1>16, <1>17, <1>18, <1>19 DEF Next

\* Type correctness.
THEOREM TypeCorrect == Spec => []TypeOK
<1>1. Init => TypeOK
  BY DEF Init, TypeOK, RowState
<1> QED
  BY <1>1, TypeInductive, PTL DEF Spec

----------------------------------------------------------------------------
(* What holds whatever the switches say.                                   *)

\* Only the claim makes a row Processing, and it sets both columns; only Release takes
\* them away, and never from a row that stays Processing.
LEMMA RecoverableInductive ==
  TypeOK /\ ProcessingIsRecoverable /\ [Next]_vars => ProcessingIsRecoverable'
<1> SUFFICES ASSUME TypeOK, ProcessingIsRecoverable, [Next]_vars,
                    NEW j \in Job, state'[j] = "Processing"
             PROVE  keepAlive'[j] # "none" /\ owner'[j] # Null
  BY DEF ProcessingIsRecoverable
<1> USE DEF TypeOK, ProcessingIsRecoverable, row, loops, accounts
<1>1. CASE \E w \in Worker, i \in Job : Claim(w, i)
  BY <1>1, NullAssumption DEF Claim, Take
<1>2. CASE \E w \in Worker : MonitorUpdate(w)
  BY <1>2 DEF MonitorUpdate
<1>3. CASE \E w \in Worker : Finalize(w)
  BY <1>3 DEF Finalize, Release, Outcome, Finished, Queued
<1>4. CASE \E i \in Job : KeepAliveAges(i)
  BY <1>4 DEF KeepAliveAges
<1>5. CASE RecoverStale
  <2>1. PICK S \in SUBSET {i \in Job : Stale(i)} : RecoverStale!(S)
    BY <1>5 DEF RecoverStale
  <2>2. j \notin S
    BY <2>1, RecoveredStateType
  <2> QED
    BY <2>1, <2>2 DEF Release
<1>6. CASE CleanupDelete
  BY <1>6 DEF CleanupDelete, Release
<1>7. CASE \/ \E i \in Job : Publish(i) \/ DeleteJob(i) \/ RequeueJob(i)
           \/ ActivateScheduled
  BY <1>7 DEF Publish, ActivateScheduled, DeleteJob, DeleteProcessing, DeleteIdle, RequeueJob, Queued
<1>8. CASE UNCHANGED row
  BY <1>8
<1>9. CASE \/ \E w \in Worker : \/ Begin(w) \/ MonitorRead(w) \/ MonitorStop(w)
                               \/ HandlerEnds(w) \/ SaveFails(w) \/ Abandon(w) \/ Crash(w)
           \/ CleanupSelect
  BY <1>8, <1>9 DEF Begin, MonitorRead, MonitorStop, HandlerEnds, SaveFails, Abandon, Crash, CleanupSelect
<1> QED
  BY <1>1, <1>2, <1>3, <1>4, <1>5, <1>6, <1>7, <1>8, <1>9 DEF Next, vars

\* No claimed job is ever out of StaleJobRecovery's sight.
THEOREM Recoverable == Spec => []ProcessingIsRecoverable
<1>1. Init => ProcessingIsRecoverable
  BY DEF Init, ProcessingIsRecoverable
<1> QED
  BY <1>1, TypeCorrect, RecoverableInductive, PTL DEF Spec

\* A queued job holds an authorisation that no claim has used yet: this is what makes
\* ExecutionsAuthorised inductive.
AuthorisedFor(j) ==
  /\ claims[j] + One(state[j] \in Queued) <= grants[j]
  /\ state[j] = "Absent" => claims[j] = 0

Authorised == \A j \in Job : AuthorisedFor(j)

\* A recovered job is queued again only if it may be restarted.
LEMMA RequeuedByRecovery ==
  ASSUME NEW j \in Job, TypeOK, RecoveredState(j) = "Enqueued"
  PROVE  j \notin NoRestart
BY DEF RecoveredState, TypeOK

\* Every step that queues a job that was not queued grants an execution.
LEMMA AuthorisedInductive == TypeOK /\ Authorised /\ [Next]_vars => Authorised'
<1> SUFFICES ASSUME TypeOK, Authorised, [Next]_vars, NEW j \in Job
             PROVE  AuthorisedFor(j)'
  BY DEF Authorised
<1>0. /\ claims[j] \in Nat /\ grants[j] \in Nat
      /\ claims[j] + One(state[j] \in Queued) <= grants[j]
      /\ state[j] = "Absent" => claims[j] = 0
  BY DEF TypeOK, Authorised, AuthorisedFor
<1> USE DEF One, AuthorisedFor
<1>1. ASSUME NEW i \in Job, Publish(i) PROVE AuthorisedFor(j)'
  BY <1>0, <1>1 DEF Publish, TypeOK, Queued
<1>2. CASE ActivateScheduled
  BY <1>0, <1>2 DEF ActivateScheduled, accounts, TypeOK, Queued
<1>3. ASSUME NEW w \in Worker, NEW i \in Job, Claim(w, i) PROVE AuthorisedFor(j)'
  BY <1>0, <1>3 DEF Claim, Claimable, Take, TypeOK, Queued
<1>4. ASSUME NEW w \in Worker, Finalize(w) PROVE AuthorisedFor(j)'
  <2>1. outcome[w] # "Absent"
    BY <1>4 DEF Finalize, TypeOK, Outcome, Finished, Queued
  <2> QED
    BY <1>0, <1>4, <2>1 DEF Finalize, TypeOK
<1>5. CASE RecoverStale
  <2>1. PICK S \in SUBSET {i \in Job : Stale(i)} : RecoverStale!(S)
    BY <1>5 DEF RecoverStale
  <2>2. /\ claims'[j] = claims[j]
        /\ state'[j] = IF j \in S THEN RecoveredState(j) ELSE state[j]
        /\ grants'[j] = grants[j] + One(j \in S \ NoRestart /\ RecoveredState(j) = "Enqueued")
    BY <2>1 DEF TypeOK
  <2> QED
    BY <1>0, <2>2, RecoveredStateType, RequeuedByRecovery DEF Queued
<1>6. CASE CleanupDelete
  BY <1>0, <1>6 DEF CleanupDelete, accounts, Queued
<1>7. ASSUME NEW i \in Job, DeleteJob(i) PROVE AuthorisedFor(j)'
  <2>1. /\ UNCHANGED <<claims, grants>>
        /\ state'[j] \in {state[j], "Deleted"}
    BY <1>7 DEF DeleteJob, DeleteProcessing, DeleteIdle, TypeOK
  <2> QED
    BY <1>0, <2>1 DEF Queued
<1>8. ASSUME NEW i \in Job, RequeueJob(i) PROVE AuthorisedFor(j)'
  <2>1. /\ UNCHANGED claims
        /\ state[i] \in Finished \cup {"Scheduled"}
        /\ state'[j] = IF i = j THEN "Enqueued" ELSE state[j]
        /\ grants'[j] = grants[j] + One(i = j /\ state[j] \in Finished)
    BY <1>8 DEF RequeueJob, TypeOK, Queued, Outcome
  <2> QED
    BY <1>0, <2>1 DEF Queued
<1>9. CASE UNCHANGED <<state, claims, grants>>
  BY <1>0, <1>9
<1>10. CASE \/ \E w \in Worker : \/ Begin(w) \/ MonitorRead(w) \/ MonitorUpdate(w)
                                \/ MonitorStop(w) \/ HandlerEnds(w) \/ SaveFails(w)
                                \/ Abandon(w) \/ Crash(w)
            \/ CleanupSelect
            \/ \E i \in Job : KeepAliveAges(i)
            \/ UNCHANGED vars
  BY <1>9, <1>10 DEF Begin, MonitorRead, MonitorUpdate, MonitorStop, HandlerEnds, SaveFails,
     Abandon, Crash, CleanupSelect, KeepAliveAges, row, accounts, vars
<1> QED
  BY <1>1, <1>2, <1>3, <1>4, <1>5, <1>6, <1>7, <1>8, <1>10 DEF Next

\* No execution without an authorisation, in every regime: crashes, slow workers and
\* failed saves included.
THEOREM OnlyAuthorisedExecutions == Spec => []ExecutionsAuthorised
<1>1. Init => Authorised
  <2> SUFFICES ASSUME Init, NEW j \in Job PROVE AuthorisedFor(j)
    BY DEF Authorised
  <2>1. state[j] = "Absent" /\ claims[j] = 0 /\ grants[j] = 0
    BY DEF Init
  <2> QED
    BY <2>1 DEF AuthorisedFor, One, Queued
<1>2. TypeOK /\ Authorised => ExecutionsAuthorised
  <2> SUFFICES ASSUME TypeOK, Authorised, NEW j \in Job PROVE claims[j] <= grants[j]
    BY DEF ExecutionsAuthorised
  <2>1. /\ claims[j] \in Nat /\ grants[j] \in Nat
        /\ claims[j] + One(state[j] \in Queued) <= grants[j]
    BY DEF TypeOK, Authorised, AuthorisedFor
  <2> QED
    BY <2>1 DEF One
<1> QED
  BY <1>1, <1>2, TypeCorrect, AuthorisedInductive, PTL DEF Spec

----------------------------------------------------------------------------
(* The intended regime: what every step keeps.                             *)

\* Nobody overruns InvisibilityTimeout and no save fails.
Regular == Timely /\ PromptHandlers /\ ~DbFailures

WorkerInOrder(w) ==
  /\ monitor[w] # "off" => pc[w] \in {"running", "leaving"} /\ watched[w] = task[w]
  /\ pc[w] \in {"idle", "down"} => task[w] = Null
  /\ tracked[w] = "none"

HeldInOrder(w, j) ==
  Holds(w, j) => \/ state[j] = "Purged"
                 \/ state[j] = "Processing" /\ owner[j] = w /\ keepAlive[j] = "fresh"

RowInOrder(j) ==
  state[j] # "Purged" =>
    /\ stats[j] = [f \in Finished |-> One(f = state[j])]
    /\ expires[j] => state[j] \in {"Completed", "Deleted"}
    /\ state[j] # "Processing" => owner[j] = Null /\ keepAlive[j] = "none"

RegularInv ==
  /\ TypeOK
  /\ \A w \in Worker : WorkerInOrder(w)
  /\ \A w \in Worker, j \in Job : HeldInOrder(w, j)
  /\ \A j \in Job : RowInOrder(j)
  /\ \A j \in condemned : Present(j)

----------------------------------------------------------------------------
(* One lemma for each part of RegularInv.                                  *)

\* The part of TypeOK that concerns the worker loops.
LocalTypes ==
  /\ pc \in [Worker -> {"idle", "claimed", "running", "leaving", "down"}]
  /\ task \in [Worker -> Job \cup {Null}]
  /\ monitor \in [Worker -> {"off", "waiting", "updating"}]
  /\ watched \in [Worker -> Job \cup {Null}]
  /\ tracked \in [Worker -> Outcome \cup {"none"}]

\* The part of TypeOK that concerns the rows.
RowTypes ==
  /\ state \in [Job -> RowState]
  /\ owner \in [Job -> Worker \cup {Null}]
  /\ keepAlive \in [Job -> {"none", "fresh", "stale"}]
  /\ cancelling \in [Job -> BOOLEAN]
  /\ expires \in [Job -> BOOLEAN]
  /\ stats \in [Job -> [Finished -> Int]]

LEMMA PartialTypes == TypeOK => LocalTypes /\ RowTypes
BY DEF TypeOK, LocalTypes, RowTypes

\* Each worker's locals stay in order: the monitor lives inside one execution, and no
\* save leaves counters behind.
LEMMA WorkersInductive ==
  ASSUME Regular, RegularInv, [Next]_vars, NEW v \in Worker
  PROVE  WorkerInOrder(v)'
<1>t. LocalTypes /\ WorkerInOrder(v)
  BY PartialTypes DEF RegularInv
<1> USE DEF LocalTypes, WorkerInOrder
<1>1. ASSUME NEW w \in Worker, NEW j \in Job, Claim(w, j) PROVE WorkerInOrder(v)'
  <2>1. w = v => monitor[v] = "off"
    BY <1>1, <1>t DEF Claim
  <2> QED
    BY <1>1, <1>t, <2>1 DEF Claim
<1>2. ASSUME NEW w \in Worker, Begin(w) PROVE WorkerInOrder(v)'
  BY <1>2, <1>t DEF Begin
<1>3. ASSUME NEW w \in Worker, MonitorRead(w) \/ MonitorUpdate(w) \/ MonitorStop(w)
      PROVE  WorkerInOrder(v)'
  BY <1>3, <1>t DEF MonitorRead, MonitorUpdate, MonitorStop, MonitorEnds
<1>4. ASSUME NEW w \in Worker, HandlerEnds(w) PROVE WorkerInOrder(v)'
  BY <1>4, <1>t DEF HandlerEnds
<1>5. ASSUME NEW w \in Worker,
             \/ Leave(w, "idle") /\ MonitorJoined(w) /\ UNCHANGED <<monitor, watched>>
             \/ Leave(w, "down") /\ MonitorEnds(w)
      PROVE  WorkerInOrder(v)'
  BY <1>5, <1>t DEF Leave, MonitorJoined, MonitorEnds
<1>6. ASSUME NEW w \in Worker, Finalize(w) \/ Abandon(w) \/ Crash(w)
      PROVE  WorkerInOrder(v)'
  BY <1>5, <1>6 DEF Finalize, Abandon, Crash
<1>7. ASSUME NEW w \in Worker, SaveFails(w) PROVE FALSE
  BY <1>7 DEF SaveFails, Regular
<1>8. CASE UNCHANGED loops
  BY <1>8, <1>t DEF loops
<1>9. ASSUME NEW j \in Job,
             Publish(j) \/ KeepAliveAges(j) \/ DeleteJob(j) \/ RequeueJob(j)
      PROVE  WorkerInOrder(v)'
  BY <1>8, <1>9 DEF Publish, KeepAliveAges, DeleteJob, DeleteProcessing, DeleteIdle, RequeueJob
<1>10. CASE \/ ActivateScheduled \/ RecoverStale \/ CleanupSelect \/ CleanupDelete
            \/ UNCHANGED vars
  BY <1>8, <1>10 DEF ActivateScheduled, RecoverStale, CleanupSelect, CleanupDelete, vars
<1> QED
  BY <1>1, <1>2, <1>3, <1>4, <1>6, <1>7, <1>9, <1>10 DEF Next

\* A held row stays its holder's, and fresh, until the holder lets go of it.
LEMMA HeldInductive ==
  ASSUME Regular, RegularInv, [Next]_vars, NEW v \in Worker, NEW i \in Job
  PROVE  HeldInOrder(v, i)'
<1> SUFFICES ASSUME Holds(v, i)' PROVE HeldInOrder(v, i)'
  BY DEF HeldInOrder
<1>t. LocalTypes /\ RowTypes /\ Null \notin Job
  BY PartialTypes, NullAssumption DEF RegularInv
<1>h. \A w \in Worker, j \in Job : HeldInOrder(w, j)
  BY DEF RegularInv
<1>k. CASE Holds(v, i) /\ UNCHANGED <<state[i], owner[i], keepAlive[i]>>
  BY <1>h, <1>k DEF HeldInOrder
<1>q. ASSUME state[i] \in Outcome \cup {"Absent"} PROVE ~Holds(v, i)
  BY <1>h, <1>q DEF HeldInOrder, Outcome, Finished, Queued
<1> USE DEF LocalTypes, RowTypes
<1>1. ASSUME NEW w \in Worker, NEW j \in Job, Claim(w, j) PROVE HeldInOrder(v, i)'
  <2>1. CASE w = v
    <3>1. i = j
      BY <1>1, <1>t, <2>1 DEF Claim, Holds
    <3> QED
      BY <1>1, <1>t, <2>1, <3>1 DEF Claim, Take, HeldInOrder
  <2>2. CASE w # v
    <3>1. Holds(v, i)
      BY <1>1, <1>t, <2>2 DEF Claim, Holds
    <3>2. i # j
      BY <1>1, <1>q, <3>1 DEF Claim, Claimable, Outcome, Queued
    <3> QED
      BY <1>1, <1>t, <1>k, <3>1, <3>2 DEF Claim, Take
  <2> QED
    BY <2>1, <2>2
<1>2. ASSUME NEW w \in Worker, MonitorUpdate(w) PROVE HeldInOrder(v, i)'
  <2>1. Holds(v, i) /\ UNCHANGED <<state, owner>>
    BY <1>2 DEF MonitorUpdate, Holds
  <2>2. keepAlive'[i] \in {keepAlive[i], "fresh"}
    BY <1>2, <1>t DEF MonitorUpdate
  <2> QED
    BY <1>h, <2>1, <2>2 DEF HeldInOrder
<1>3. ASSUME NEW w \in Worker, Leave(w, "idle") \/ Leave(w, "down")
      PROVE  w # v /\ Holds(v, i)
  BY <1>3, <1>t DEF Leave, Holds
<1>4. ASSUME NEW w \in Worker, Finalize(w) PROVE HeldInOrder(v, i)'
  <2>1. w # v /\ Holds(v, i)
    BY <1>3, <1>4 DEF Finalize
  <2>2. CASE task[w] = i
    <3>1. Holds(w, i) /\ state[i] # "Purged"
      BY <1>4, <2>2 DEF Finalize, Holds, Present
    <3> QED
      BY <1>h, <2>1, <3>1 DEF HeldInOrder
  <2>3. CASE task[w] # i
    BY <1>4, <1>t, <1>k, <2>1, <2>3 DEF Finalize, Release
  <2> QED
    BY <2>2, <2>3
<1>5. ASSUME NEW w \in Worker, Abandon(w) \/ Crash(w) PROVE HeldInOrder(v, i)'
  BY <1>3, <1>5, <1>k DEF Abandon, Crash, row
<1>6. ASSUME NEW w \in Worker, Begin(w) \/ HandlerEnds(w) PROVE HeldInOrder(v, i)'
  BY <1>6, <1>t, <1>k DEF Begin, HandlerEnds, row, Holds
<1>7. CASE UNCHANGED <<row, pc, task>>
  BY <1>7, <1>k DEF Holds, row
<1>8. ASSUME NEW w \in Worker, MonitorRead(w) \/ MonitorStop(w) \/ SaveFails(w)
      PROVE  HeldInOrder(v, i)'
  BY <1>7, <1>8 DEF MonitorRead, MonitorStop, SaveFails
<1>u. UNCHANGED loops => Holds(v, i)
  BY DEF Holds, loops
<1>9. ASSUME NEW j \in Job, KeepAliveAges(j) PROVE HeldInOrder(v, i)'
  <2>1. Holds(v, i)
    BY <1>9, <1>u DEF KeepAliveAges
  <2>2. i # j
    BY <1>9, <2>1 DEF KeepAliveAges, MayAge, Regular
  <2> QED
    BY <1>9, <1>t, <1>k, <2>1, <2>2 DEF KeepAliveAges
<1>10. CASE RecoverStale
  <2>1. PICK S \in SUBSET {j \in Job : Stale(j)} : RecoverStale!(S)
    BY <1>10 DEF RecoverStale
  <2>2. Holds(v, i)
    BY <2>1, <1>u
  <2>3. i \notin S
    BY <1>h, <2>1, <2>2 DEF HeldInOrder, Stale
  <2> QED
    BY <2>1, <2>2, <2>3, <1>t, <1>k DEF Release
<1>11. CASE CleanupDelete
  <2>1. Holds(v, i)
    BY <1>11, <1>u DEF CleanupDelete
  <2>2. CASE i \in condemned
    BY <1>11, <2>2 DEF CleanupDelete, HeldInOrder
  <2>3. CASE i \notin condemned
    BY <1>11, <1>t, <1>k, <2>1, <2>3 DEF CleanupDelete, Release
  <2> QED
    BY <2>2, <2>3
<1>12. ASSUME NEW j \in Job, Publish(j) \/ RequeueJob(j) \/ DeleteIdle(j)
       PROVE  HeldInOrder(v, i)'
  <2>1. Holds(v, i)
    BY <1>12, <1>u DEF Publish, RequeueJob, DeleteIdle
  <2>2. i # j
    BY <1>12, <1>q, <2>1 DEF Publish, RequeueJob, DeleteIdle
  <2> QED
    BY <1>12, <1>t, <1>k, <2>1, <2>2 DEF Publish, RequeueJob, DeleteIdle
<1>13. ASSUME NEW j \in Job, DeleteProcessing(j) PROVE HeldInOrder(v, i)'
  BY <1>13, <1>k, <1>u DEF DeleteProcessing
<1>14. CASE ActivateScheduled
  <2>1. Holds(v, i)
    BY <1>14, <1>u DEF ActivateScheduled
  <2>2. state[i] # "Scheduled"
    BY <1>q, <2>1 DEF Outcome, Queued
  <2> QED
    BY <1>14, <1>t, <1>k, <2>1, <2>2 DEF ActivateScheduled
<1>15. CASE CleanupSelect \/ UNCHANGED vars
  BY <1>7, <1>15 DEF CleanupSelect, vars, loops
<1> QED
  BY <1>1, <1>2, <1>4, <1>5, <1>6, <1>8, <1>9, <1>10, <1>11, <1>12, <1>13, <1>14, <1>15
  DEF Next, DeleteJob

\* The step that moves a row moves its counter, sets or clears its ExpireAt and lets go
\* of its owner and keep-alive.
LEMMA RowsInductive ==
  ASSUME Regular, RegularInv, [Next]_vars, NEW i \in Job
  PROVE  RowInOrder(i)'
<1>t. RowTypes /\ LocalTypes /\ Null \notin Job
  BY PartialTypes, NullAssumption DEF RegularInv
<1>r. RowInOrder(i)
  BY DEF RegularInv
<1>s. stats[i] = [f \in Finished |-> stats[i][f]] /\ \A f \in Finished : stats[i][f] \in Int
  BY <1>t DEF RowTypes
<1>k. CASE UNCHANGED <<state[i], owner[i], keepAlive[i], expires[i], stats[i]>>
  BY <1>r, <1>k DEF RowInOrder
<1> USE DEF RowTypes
<1>1. ASSUME NEW j \in Job, Publish(j) PROVE RowInOrder(i)'
  <2>1. CASE i = j
    BY <1>1, <1>t, <1>r, <2>1 DEF Publish, RowInOrder, Queued, Finished, One
  <2>2. CASE i # j
    BY <1>1, <1>t, <1>k, <2>2 DEF Publish
  <2> QED
    BY <2>1, <2>2
<1>2. CASE ActivateScheduled
  <2>1. UNCHANGED <<owner, keepAlive, expires, stats>>
    BY <1>2 DEF ActivateScheduled, accounts
  <2>2. \/ state'[i] = state[i]
        \/ state[i] = "Scheduled" /\ state'[i] = "Enqueued"
    BY <1>2, <1>t DEF ActivateScheduled
  <2> QED
    BY <1>r, <1>k, <2>1, <2>2 DEF RowInOrder, Finished, One
<1>3. ASSUME NEW w \in Worker, NEW j \in Job, Claim(w, j) PROVE RowInOrder(i)'
  <2>1. CASE i = j
    BY <1>3, <1>t, <1>r, <2>1 DEF Claim, Claimable, Take, RowInOrder, Finished, One
  <2>2. CASE i # j
    BY <1>3, <1>t, <1>k, <2>2 DEF Claim, Take
  <2> QED
    BY <2>1, <2>2
<1>4. ASSUME NEW w \in Worker, MonitorUpdate(w) PROVE RowInOrder(i)'
  <2>1. CASE watched[w] = i
    <3>1. Holds(w, i)
      BY <1>4, <2>1 DEF MonitorUpdate, RegularInv, WorkerInOrder, Holds
    <3>2. state[i] \in {"Processing", "Purged"}
      BY <3>1 DEF RegularInv, HeldInOrder
    <3> QED
      BY <1>4, <1>r, <3>2 DEF MonitorUpdate, RowInOrder, accounts
  <2>2. CASE watched[w] # i
    BY <1>4, <1>t, <1>k, <2>2 DEF MonitorUpdate, accounts
  <2> QED
    BY <2>1, <2>2
<1>5. ASSUME NEW w \in Worker, Finalize(w) PROVE RowInOrder(i)'
  <2>1. CASE task[w] = i
    <3>1. outcome[w] \in Outcome /\ tracked[w] = "none"
      BY <1>5 DEF Finalize, RegularInv, TypeOK, WorkerInOrder
    <3>2. state[i] = "Processing"
      BY <1>5, <2>1 DEF Finalize, Present, Holds, RegularInv, HeldInOrder
    <3>3. stats[i] = [f \in Finished |-> 0] /\ expires[i] = FALSE
      BY <1>t, <1>r, <3>2 DEF RowInOrder, Finished, One
    <3>4. state'[i] = outcome[w] /\ owner'[i] = Null /\ keepAlive'[i] = "none"
      BY <1>5, <1>t, <2>1 DEF Finalize, Release
    <3>5. stats'[i] = [f \in Finished |-> One(f = outcome[w])]
      <4>1. stats'[i] = [f \in Finished |-> stats[i][f] + One(f = outcome[w]) + One(f = tracked[w])]
        BY <1>5, <1>t, <2>1 DEF Finalize
      <4>2. \A f \in Finished : stats[i][f] = 0 /\ One(f = tracked[w]) = 0
        BY <3>1, <3>3 DEF Finished, One
      <4>3. \A f \in Finished : stats[i][f] + One(f = outcome[w]) + One(f = tracked[w]) = One(f = outcome[w])
        BY <4>2 DEF One
      <4> QED
        BY <4>1, <4>3
    <3>6. expires'[i] => outcome[w] \in {"Completed", "Deleted"}
      BY <1>5, <1>t, <2>1, <3>1, <3>3 DEF Finalize, ExpiryAfterSave
    <3> QED
      BY <3>4, <3>5, <3>6 DEF RowInOrder
  <2>2. CASE task[w] # i
    BY <1>5, <1>t, <1>k, <2>2 DEF Finalize, Release
  <2> QED
    BY <2>1, <2>2
<1>6. ASSUME NEW j \in Job, KeepAliveAges(j) PROVE RowInOrder(i)'
  BY <1>6, <1>t, <1>r DEF KeepAliveAges, RowInOrder, accounts
<1>7. CASE RecoverStale
  <2>1. PICK S \in SUBSET {j \in Job : Stale(j)} : RecoverStale!(S)
    BY <1>7 DEF RecoverStale
  <2>2. CASE i \in S
    <3> DEFINE to == RecoveredState(i)
    <3>1. state[i] = "Processing" /\ to \in {"Deleted", "Failed", "Enqueued"}
      BY <2>1, <2>2, RecoveredStateType DEF Stale, RegularInv
    <3>2. stats[i] = [f \in Finished |-> 0] /\ expires[i] = FALSE
      BY <1>t, <1>r, <3>1 DEF RowInOrder, Finished, One
    <3>3. /\ state'[i] = to
          /\ expires'[i] => to \in {"Completed", "Deleted"}
          /\ stats'[i] = Counted(i, to)
      BY <2>1, <2>2, <3>1, <3>2
    <3>4. owner'[i] = Null /\ keepAlive'[i] = "none"
      BY <2>1, <2>2 DEF Release
    <3>5. Counted(i, to) = [f \in Finished |-> One(f = to)]
      BY <3>2 DEF Counted, One
    <3> QED
      BY <3>1, <3>3, <3>4, <3>5 DEF RowInOrder
  <2>3. CASE i \notin S
    BY <2>1, <2>3, <1>k DEF Release
  <2> QED
    BY <2>2, <2>3
<1>8. CASE CleanupDelete
  <2>1. CASE i \in condemned
    BY <1>8, <2>1 DEF CleanupDelete, RowInOrder
  <2>2. CASE i \notin condemned
    BY <1>8, <1>t, <1>k, <2>2 DEF CleanupDelete, Release, accounts
  <2> QED
    BY <2>1, <2>2
<1>9. ASSUME NEW from \in RowState, NEW to, stats[i] = [f \in Finished |-> One(f = from)]
      PROVE  Moved(i, from, to) = [f \in Finished |-> One(f = to)]
  BY <1>9 DEF Moved, One
<1>10. ASSUME NEW j \in Job, DeleteIdle(j) PROVE RowInOrder(i)'
  <2>1. CASE i = j
    <3>1. state[i] \in Outcome
      BY <1>10, <2>1 DEF DeleteIdle
    <3>2. stats[i] = [f \in Finished |-> One(f = state[i])]
      BY <1>r, <3>1 DEF RowInOrder, Outcome, Finished, Queued
    <3>3. stats'[i] = [f \in Finished |-> One(f = "Deleted")]
      BY <1>9, <1>10, <1>t, <2>1, <3>2 DEF DeleteIdle
    <3> QED
      BY <1>10, <1>t, <1>r, <2>1, <3>1, <3>3 DEF DeleteIdle, RowInOrder, Outcome, Finished, Queued
  <2>2. CASE i # j
    BY <1>10, <1>t, <1>k, <2>2 DEF DeleteIdle
  <2> QED
    BY <2>1, <2>2
<1>11. ASSUME NEW j \in Job, RequeueJob(j) PROVE RowInOrder(i)'
  <2>1. CASE i = j
    <3>1. state[i] \in Outcome
      BY <1>11, <2>1 DEF RequeueJob
    <3>2. stats[i] = [f \in Finished |-> One(f = state[i])]
      BY <1>r, <3>1 DEF RowInOrder, Outcome, Finished, Queued
    <3>3. stats'[i] = [f \in Finished |-> One(f = "Enqueued")]
      BY <1>9, <1>11, <1>t, <2>1, <3>2 DEF RequeueJob
    <3> QED
      BY <1>11, <1>t, <1>r, <2>1, <3>1, <3>3 DEF RequeueJob, RowInOrder, Outcome, Finished, Queued
  <2>2. CASE i # j
    BY <1>11, <1>t, <1>k, <2>2 DEF RequeueJob
  <2> QED
    BY <2>1, <2>2
<1>12. ASSUME NEW j \in Job, DeleteProcessing(j) PROVE RowInOrder(i)'
  BY <1>12, <1>k DEF DeleteProcessing
<1>13. CASE UNCHANGED <<row, stats>>
  BY <1>13, <1>k DEF row
<1>14. CASE \/ \E w \in Worker : \/ Begin(w) \/ MonitorRead(w) \/ MonitorStop(w)
                                \/ HandlerEnds(w) \/ SaveFails(w) \/ Abandon(w) \/ Crash(w)
            \/ CleanupSelect \/ UNCHANGED vars
  BY <1>13, <1>14 DEF Begin, MonitorRead, MonitorStop, HandlerEnds, SaveFails, Abandon, Crash,
     CleanupSelect, accounts, vars
<1> QED
  BY <1>1, <1>2, <1>3, <1>4, <1>5, <1>6, <1>7, <1>8, <1>10, <1>11, <1>12, <1>14
  DEF Next, DeleteJob

\* Only CleanupDelete removes rows, so what CleanupSelect found is still there.
LEMMA CondemnedInductive ==
  ASSUME RegularInv, [Next]_vars, NEW i \in condemned'
  PROVE  Present(i)'
<1>t. RowTypes /\ condemned \subseteq Job
  BY PartialTypes DEF RegularInv, TypeOK
<1>p. \A j \in condemned : Present(j)
  BY DEF RegularInv
<1> USE DEF RowTypes
<1>1. CASE CleanupSelect
  BY <1>1 DEF CleanupSelect, Present, row
<1>2. CASE CleanupDelete
  BY <1>2 DEF CleanupDelete
<1>3. CASE condemned' = condemned /\ state' = state
  BY <1>3, <1>p DEF Present
<1>4. CASE RecoverStale
  <2>1. PICK S \in SUBSET {j \in Job : Stale(j)} : RecoverStale!(S)
    BY <1>4 DEF RecoverStale
  <2>2. TypeOK
    BY DEF RegularInv
  <2> QED
    BY <1>t, <1>p, <2>1, <2>2, RecoveredStateType DEF Present
<1>5. CASE \/ ActivateScheduled
           \/ \E w \in Worker, j \in Job : Claim(w, j)
  BY <1>5, <1>t, <1>p DEF ActivateScheduled, Claim, Take, Present
<1>6. CASE \E w \in Worker : Finalize(w)
  <2>1. PICK w \in Worker : Finalize(w)
    BY <1>6
  <2>2. outcome[w] \in Outcome
    BY <2>1 DEF Finalize, RegularInv, TypeOK
  <2> QED
    BY <1>t, <1>p, <2>1, <2>2 DEF Finalize, Present, Outcome, Finished, Queued
<1>7. CASE \E j \in Job : Publish(j) \/ DeleteIdle(j) \/ RequeueJob(j)
  BY <1>7, <1>t, <1>p DEF Publish, DeleteIdle, RequeueJob, Present, Queued
<1>8. CASE \/ \E w \in Worker : \/ Begin(w) \/ MonitorRead(w) \/ MonitorUpdate(w)
                               \/ MonitorStop(w) \/ HandlerEnds(w) \/ SaveFails(w)
                               \/ Abandon(w) \/ Crash(w)
           \/ \E j \in Job : KeepAliveAges(j) \/ DeleteProcessing(j)
           \/ UNCHANGED vars
  BY <1>3, <1>8 DEF Begin, MonitorRead, MonitorUpdate, MonitorStop, HandlerEnds, SaveFails,
     Abandon, Crash, KeepAliveAges, DeleteProcessing, row, vars
<1> QED
  BY <1>1, <1>2, <1>4, <1>5, <1>6, <1>7, <1>8 DEF Next, DeleteJob

----------------------------------------------------------------------------
(* The invariant and what it implies.                                      *)

LEMMA RegularInit == Init => RegularInv
<1> SUFFICES ASSUME Init PROVE RegularInv
  OBVIOUS
<1>1. TypeOK
  BY DEF Init, TypeOK, RowState
<1>2. \A w \in Worker : WorkerInOrder(w)
  BY DEF Init, WorkerInOrder
<1>3. \A w \in Worker, j \in Job : HeldInOrder(w, j)
  BY DEF Init, HeldInOrder, Holds
<1>4. ASSUME NEW j \in Job PROVE RowInOrder(j)
  BY DEF Init, RowInOrder, Finished, One
<1>5. \A j \in condemned : Present(j)
  BY DEF Init
<1> QED
  BY <1>1, <1>2, <1>3, <1>4, <1>5 DEF RegularInv

LEMMA RegularInductive ==
  ASSUME Regular
  PROVE  RegularInv /\ [Next]_vars => RegularInv'
<1> SUFFICES ASSUME RegularInv, [Next]_vars PROVE RegularInv'
  OBVIOUS
<1>1. TypeOK'
  BY TypeInductive DEF RegularInv
<1>2. \A w \in Worker : WorkerInOrder(w)'
  BY WorkersInductive
<1>3. \A w \in Worker, j \in Job : HeldInOrder(w, j)'
  BY HeldInductive
<1>4. \A j \in Job : RowInOrder(j)'
  BY RowsInductive
<1>5. \A j \in condemned' : Present(j)'
  BY CondemnedInductive
<1> QED
  BY <1>1, <1>2, <1>3, <1>4, <1>5 DEF RegularInv

LEMMA RegularAlways == ASSUME Regular PROVE Spec => []RegularInv
BY RegularInit, RegularInductive, PTL DEF Spec

\* In the intended regime a claim is exclusive: whoever holds a job is named by its row.
THEOREM Exclusive == ASSUME Regular PROVE Spec => []ClaimIsExclusive
<1>1. RegularInv => ClaimIsExclusive
  BY DEF RegularInv, HeldInOrder, ClaimIsExclusive
<1> QED
  BY <1>1, RegularAlways, PTL

\* In the intended regime the counters agree with the states.
THEOREM CountersAgree == ASSUME Regular PROVE Spec => []StatsAgree
<1>1. RegularInv => StatsAgree
  BY DEF RegularInv, RowInOrder, StatsAgree, Present
<1> QED
  BY <1>1, RegularAlways, PTL

\* In the intended regime only Completed and Deleted rows are up for removal.
THEOREM OnlyRetainedExpire == ASSUME Regular PROVE Spec => []OnlyRetainedRowsExpire
<1>1. RegularInv => OnlyRetainedRowsExpire
  BY DEF RegularInv, RowInOrder, OnlyRetainedRowsExpire, Present
<1> QED
  BY <1>1, RegularAlways, PTL

\* In the intended regime a row that nobody executes has no owner and no keep-alive.
THEOREM IdleClean == ASSUME Regular PROVE Spec => []IdleRowsAreClean
<1>1. RegularInv => IdleRowsAreClean
  BY DEF RegularInv, RowInOrder, IdleRowsAreClean, Present
<1> QED
  BY <1>1, RegularAlways, PTL

----------------------------------------------------------------------------
(* In the intended regime the job table implements JobPromise.             *)

PromiseVars == <<[j \in Job |-> PhaseOf(state[j])], owner, task, stats>>

\* What a worker, the table or a user may see unchanged for a step to be a stutter.
LEMMA Stutters ==
  ASSUME UNCHANGED <<owner, task, stats>>,
         \A j \in Job : PhaseOf(state'[j]) = PhaseOf(state[j])
  PROVE  UNCHANGED PromiseVars
BY DEF PromiseVars

\* A job's share of the totals follows from its phase, and an idle row has no runner.
LEMMA Moves ==
  ASSUME RegularInv', NEW S \in SUBSET Job,
         owner \in [Job -> Worker \cup {Null}], stats \in [Job -> [Finished -> Int]],
         \A i \in S : state'[i] \notin {"Processing", "Purged"},
         \A i \in Job \ S : UNCHANGED <<state[i], owner[i], stats[i]>>
  PROVE  Promise!Move(S, [i \in S |-> PhaseOf(state'[i])])
<1> DEFINE to == [i \in S |-> PhaseOf(state'[i])]
<1>1. /\ owner' \in [Job -> Worker \cup {Null}] /\ stats' \in [Job -> [Finished -> Int]]
      /\ state' \in [Job -> RowState]
  BY DEF RegularInv, TypeOK
<1>2. \A i \in S : RowInOrder(i)'
  BY DEF RegularInv
<1>3. \A s \in RowState : [f \in Finished |-> One(f = s)] = Promise!Share(PhaseOf(s))
  BY DEF One, RowState, Outcome, Finished, Queued, PhaseOf, Promise!Share, Promise!Finished
<1>4. \A i \in S : owner'[i] = Null /\ stats'[i] = Promise!Share(to[i])
  BY <1>1, <1>2, <1>3 DEF RowInOrder
<1>5. owner' = [i \in Job |-> IF i \in S THEN Null ELSE owner[i]]
  BY <1>1, <1>4
<1>6. stats' = [i \in Job |-> IF i \in S THEN Promise!Share(to[i]) ELSE stats[i]]
  BY <1>1, <1>4
<1>7. \A i \in Job : PhaseOf(state'[i]) = IF i \in S THEN to[i] ELSE PhaseOf(state[i])
  OBVIOUS
<1> HIDE DEF to
<1>8. Promise!Move(S, to)
  BY <1>5, <1>6, <1>7 DEF Promise!Move
<1> QED
  BY <1>8 DEF to

\* The same for one row.
LEMMA MovesOne ==
  ASSUME RegularInv, RegularInv', NEW j \in Job, NEW s \in RowState \ {"Processing", "Purged"},
         state' = [state EXCEPT ![j] = s],
         \A i \in Job \ {j} : UNCHANGED <<owner[i], stats[i]>>
  PROVE  Promise!Move({j}, [i \in {j} |-> PhaseOf(s)])
<1>1. /\ state \in [Job -> RowState] /\ owner \in [Job -> Worker \cup {Null}]
      /\ stats \in [Job -> [Finished -> Int]]
  BY DEF RegularInv, TypeOK
<1>2. Promise!Move({j}, [i \in {j} |-> PhaseOf(state'[i])])
  BY <1>1, Moves
<1>3. [i \in {j} |-> PhaseOf(state'[i])] = [i \in {j} |-> PhaseOf(s)]
  BY <1>1
<1> QED
  BY <1>2, <1>3

LEMMA PromiseInit == Init => Promise!Init
BY DEF Init, Promise!Init, PhaseOf, Promise!Share, Promise!Finished, Finished, Queued

\* Every step of the system is a step of the promise or invisible to it.
LEMMA PromiseStep ==
  ASSUME Regular, RegularInv, RegularInv', [Next]_vars
  PROVE  Promise!Next \/ UNCHANGED PromiseVars
<1>t. LocalTypes /\ RowTypes /\ Null \notin Job
  BY PartialTypes, NullAssumption DEF RegularInv
<1>o. \A w \in Worker : WorkerInOrder(w)
  BY DEF RegularInv
<1>h. \A w \in Worker, j \in Job : HeldInOrder(w, j)
  BY DEF RegularInv
<1> USE DEF LocalTypes, RowTypes
<1>1. ASSUME NEW j \in Job, Publish(j) PROVE Promise!Submit(j)
  <2>1. PICK s \in Queued : state' = [state EXCEPT ![j] = s]
    BY <1>1 DEF Publish
  <2>2. Promise!Move({j}, [i \in {j} |-> PhaseOf(s)])
    BY <1>1, <2>1, MovesOne DEF Publish, RowState, Outcome, Queued
  <2>3. PhaseOf(s) = "waiting" /\ PhaseOf(state[j]) = "absent" /\ UNCHANGED task
    BY <1>1 DEF Publish, PhaseOf, Queued, loops
  <2> QED
    BY <2>2, <2>3 DEF Promise!Submit
<1>2. CASE ActivateScheduled
  BY <1>2, Stutters DEF ActivateScheduled, PhaseOf, Queued, loops, accounts
<1>3. ASSUME NEW w \in Worker, NEW j \in Job, Claim(w, j) PROVE Promise!Start(j, w)
  <2>1. PhaseOf(state[j]) = "waiting" /\ PhaseOf("Processing") = "running"
    BY <1>3 DEF Claim, Claimable, PhaseOf, Queued
  <2>2. task[w] = Null
    BY <1>3, <1>o DEF Claim, WorkerInOrder
  <2>3. [i \in Job |-> PhaseOf(state[i])]' = [[i \in Job |-> PhaseOf(state[i])] EXCEPT ![j] = "running"]
    BY <1>3, <1>t, <2>1 DEF Claim, Take
  <2> QED
    BY <1>3, <2>1, <2>2, <2>3 DEF Claim, Take, Promise!Start
<1>4. ASSUME NEW w \in Worker, Finalize(w)
      PROVE  \E j \in Job : Promise!Finish(j, w)
  <2> DEFINE j == task[w]
  <2>1. j \in Job /\ outcome[w] \in Outcome
    BY <1>4 DEF Finalize, RegularInv, TypeOK
  <2>2. state[j] = "Processing" /\ owner[j] = w
    BY <1>4, <1>h, <2>1 DEF Finalize, Holds, Present, HeldInOrder
  <2>3. Promise!Move({j}, [i \in {j} |-> PhaseOf(outcome[w])])
    <3>1. \A i \in Job \ {j} : UNCHANGED <<owner[i], stats[i]>>
      BY <1>4, <1>t DEF Finalize, Release
    <3>2. state' = [state EXCEPT ![j] = outcome[w]]
      BY <1>4 DEF Finalize
    <3>3. outcome[w] \in RowState \ {"Processing", "Purged"}
      BY <2>1 DEF RowState, Outcome, Finished, Queued
    <3> QED
      BY <2>1, <3>1, <3>2, <3>3, MovesOne
  <2>4. PhaseOf(outcome[w]) \in Promise!Finished \cup {"waiting"}
    BY <2>1 DEF PhaseOf, Outcome, Queued, Finished, Promise!Finished
  <2>5. PhaseOf(state[j]) = "running"
    BY <2>2 DEF PhaseOf, Queued
  <2>6. task' = [task EXCEPT ![w] = Null]
    BY <1>4 DEF Finalize, Leave
  <2> QED
    BY <2>1, <2>2, <2>3, <2>4, <2>5, <2>6 DEF Promise!Finish
<1>5. ASSUME NEW w \in Worker, Abandon(w) \/ Crash(w)
      PROVE  Promise!Drop(w) \/ UNCHANGED PromiseVars
  <2>1. UNCHANGED <<state, owner, stats>> /\ task' = [task EXCEPT ![w] = Null]
    BY <1>5 DEF Abandon, Crash, Leave, row, accounts
  <2>2. CASE task[w] = Null
    BY <1>t, <2>1, <2>2 DEF PromiseVars
  <2>3. CASE task[w] # Null
    BY <2>1, <2>3 DEF Promise!Drop
  <2> QED
    BY <2>2, <2>3
<1>6. CASE RecoverStale
  <2>1. PICK S \in SUBSET {j \in Job : Stale(j)} : RecoverStale!(S)
    BY <1>6 DEF RecoverStale
  <2> DEFINE to == [i \in S |-> PhaseOf(state'[i])]
  <2>2. TypeOK
    BY DEF RegularInv
  <2>3. \A i \in S : state'[i] \in {"Deleted", "Failed", "Enqueued"}
    BY <2>1, <2>2, RecoveredStateType
  <2>4. \A i \in Job \ S : UNCHANGED <<state[i], owner[i], stats[i]>>
    BY <2>1 DEF Release
  <2>5. Promise!Move(S, to)
    BY <1>t, <2>3, <2>4, Moves
  <2>6. to \in [S -> {"waiting", "Failed", "Deleted"}]
    BY <2>3 DEF PhaseOf, Queued
  <2>7. UNCHANGED task
    BY <2>1 DEF loops
  <2>8. ASSUME NEW i \in S PROVE Promise!Orphan(i)
    <3>1. state[i] = "Processing" /\ keepAlive[i] = "stale"
      BY <2>1 DEF Stale
    <3>2. ASSUME NEW w \in Worker, task[w] = i PROVE FALSE
      <4>1. ~Holds(w, i)
        BY <1>h, <3>1 DEF HeldInOrder
      <4>2. pc[w] \in {"idle", "down"}
        BY <1>t, <3>2, <4>1 DEF Holds
      <4> QED
        BY <1>o, <1>t, <3>2, <4>2 DEF WorkerInOrder
    <3> QED
      BY <3>1, <3>2 DEF Promise!Orphan, PhaseOf, Queued
  <2> HIDE DEF to
  <2>9. S \in SUBSET {j \in Job : Promise!Orphan(j)}
    BY <2>8
  <2>10. Promise!TakeOver
    BY <2>5, <2>6, <2>7, <2>9 DEF Promise!TakeOver
  <2> QED
    BY <2>10 DEF Promise!Next
<1>7. CASE CleanupDelete
  <2>1. condemned \in SUBSET {j \in Job : PhaseOf(state[j]) \notin {"absent", "gone"}}
    BY DEF RegularInv, TypeOK, Present, PhaseOf, Queued, RowState, Outcome, Finished
  <2>2. Promise!Forget
    BY <1>7, <2>1 DEF CleanupDelete, Release, Promise!Forget, PhaseOf, Queued, loops, accounts
  <2> QED
    BY <2>2 DEF Promise!Next
<1>8. ASSUME NEW j \in Job, DeleteIdle(j) PROVE Promise!Delete(j)
  <2>1. Promise!Move({j}, [i \in {j} |-> PhaseOf("Deleted")])
    BY <1>8, <1>t, MovesOne DEF DeleteIdle, RowState, Outcome, Finished
  <2>2. PhaseOf("Deleted") = "Deleted"
    BY DEF PhaseOf, Queued
  <2>3. PhaseOf(state[j]) \in {"waiting", "Completed", "Failed"}
    BY <1>8 DEF DeleteIdle, PhaseOf, Outcome, Finished, Queued
  <2> QED
    BY <1>8, <2>1, <2>2, <2>3 DEF Promise!Delete, DeleteIdle, loops
<1>9. ASSUME NEW j \in Job, RequeueJob(j) PROVE Promise!Again(j) \/ UNCHANGED PromiseVars
  <2>1. PhaseOf("Enqueued") = "waiting" /\ PhaseOf("Scheduled") = "waiting"
    BY DEF PhaseOf, Queued
  <2>2. CASE state[j] = "Scheduled"
    <3>1. Moved(j, "Scheduled", "Enqueued") = stats[j]
      BY <1>t DEF Moved, One, Finished
    <3>2. stats' = stats
      BY <1>9, <1>t, <2>2, <3>1 DEF RequeueJob
    <3> QED
      BY <1>9, <1>t, <2>1, <2>2, <3>2, Stutters DEF RequeueJob, loops
  <2>3. CASE state[j] \in Finished
    <3>1. Promise!Move({j}, [i \in {j} |-> PhaseOf("Enqueued")])
      BY <1>9, <1>t, MovesOne DEF RequeueJob, RowState, Outcome, Queued
    <3>2. PhaseOf(state[j]) \in Promise!Finished
      BY <2>3 DEF PhaseOf, Queued, Finished, Promise!Finished
    <3> QED
      BY <1>9, <2>1, <3>1, <3>2 DEF Promise!Again, RequeueJob, loops
  <2> QED
    BY <1>9, <2>2, <2>3 DEF RequeueJob, Outcome, Queued
<1>10. CASE UNCHANGED <<state, owner, task, stats>>
  BY <1>10 DEF PromiseVars
<1>11. CASE \/ \E w \in Worker : \/ Begin(w) \/ MonitorRead(w) \/ MonitorUpdate(w)
                                \/ MonitorStop(w) \/ HandlerEnds(w) \/ SaveFails(w)
            \/ \E j \in Job : KeepAliveAges(j) \/ DeleteProcessing(j)
            \/ CleanupSelect \/ UNCHANGED vars
  BY <1>10, <1>11 DEF Begin, MonitorRead, MonitorUpdate, MonitorStop, HandlerEnds, SaveFails,
     KeepAliveAges, DeleteProcessing, CleanupSelect, row, loops, accounts, vars
<1> QED
  BY <1>1, <1>2, <1>3, <1>4, <1>5, <1>6, <1>7, <1>8, <1>9, <1>11
  DEF Next, DeleteJob, Promise!Next

\* The detailed specification implements the abstract one, for every set of jobs and
\* workers: one run at a time, ended by the worker busy with it, taken over only when
\* nobody is, with totals that move in the same step.
THEOREM Refinement == ASSUME Regular PROVE Spec => KeepsPromise
<1>1. RegularInv /\ RegularInv' /\ [Next]_vars =>
        [Promise!Next]_<<[j \in Job |-> PhaseOf(state[j])], owner, task, stats>>
  BY PromiseStep DEF PromiseVars
<1> QED
  BY <1>1, RegularAlways, PromiseInit, PTL DEF Spec, KeepsPromise, Promise!Spec
=============================================================================
