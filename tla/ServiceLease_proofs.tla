------------------------- MODULE ServiceLease_proofs -------------------------
(***************************************************************************)
(* For any servers, bounds and number of unsteady servers: as long as time *)
(* outran no live server, one server runs a singleton service, and its row *)
(* says so.                                                                *)
(***************************************************************************)
EXTENDS ServiceLease, TLAPS


\* The types the argument needs.
Typed ==
  /\ status \in [Servers -> Statuses] /\ pc \in [Servers -> Places]
  /\ registered \in [Servers -> BOOLEAN] /\ stale \in [Servers -> BOOLEAN]
  /\ stopping \in [Servers -> BOOLEAN] /\ deleting \in [Servers -> Deletions]
  /\ expired \in BOOLEAN
  /\ late \in Nat

Holding == {"acquired", "marking", "executing", "ending"}

\* What a live server may count on while time outran nobody.
Fresh(s) == ~stale[s]
Known(s) == ~stopping[s] => registered[s] /\ status[s] # "none"
Holds(s) == ~stopping[s] /\ pc[s] \in Holding => holder = s /\ ~expired
Shown(s) == ~stopping[s] /\ pc[s] = "executing" => status[s] = "Running"
Leaving(s) == deleting[s] # "none" => stopping[s]
Sound == \A s \in Servers : Up(s) => Fresh(s) /\ Known(s) /\ Holds(s) /\ Shown(s) /\ Leaving(s)

LeaseInv == Typed /\ (late = 0 => Sound)

-------------------------------------------------------------------------------
LEMMA InitTyped == Init => Typed
<1> SUFFICES ASSUME Init PROVE Typed OBVIOUS
<1>1. expired \in BOOLEAN BY Zenon DEF Init
<1>2. /\ registered \in [Servers -> BOOLEAN] /\ stale \in [Servers -> BOOLEAN]
      /\ stopping \in [Servers -> BOOLEAN] /\ deleting \in [Servers -> Deletions]
  BY DEF Init, Deletions
<1>3. status \in [Servers -> Statuses] /\ pc \in [Servers -> Places] /\ late \in Nat
  BY DEF Init, Statuses, Places
<1> QED BY <1>1, <1>2, <1>3 DEF Typed

LEMMA InitSound == Init => Sound
BY DEF Init, Sound, Up, Fresh, Known, Holds, Shown, Leaving, Holding

LEMMA StepTyped == Typed /\ [Next]_vars => Typed'
<1> SUFFICES ASSUME Typed, [Next]_vars PROVE Typed' OBVIOUS
<1> USE DEF Typed, Statuses, Places, Deletions
<1>1. ASSUME NEW s \in Servers, Supervise(s) PROVE Typed'
  <2>1. CASE TryAcquire(s) BY <2>1 DEF TryAcquire, Take, serverRows, host
  <2>2. CASE HeldElsewhere(s)
    BY <2>2 DEF HeldElsewhere, Status, leaseRow, serverRows, supervisor, host
  <2>3. CASE AcquireThrows(s) BY <2>3 DEF AcquireThrows, Take, serverRows, supervisor, host
  <2>4. CASE Subscribe(s) BY <2>4 DEF Subscribe, leaseRow, serverRows, host
  <2>5. CASE MarkRunning(s) BY <2>5 DEF MarkRunning, Status, leaseRow, serverRows, host
  <2>6. CASE MarkThrows(s) BY <2>6 DEF MarkThrows, leaseRow, serverRows, host
  <2>7. CASE InvokeEnds(s) BY <2>7 DEF InvokeEnds, leaseRow, serverRows, host
  <2>8. CASE Release(s) BY <2>8 DEF Release, DropLease, leaseRow, serverRows, host
  <2>9. CASE Record(s) BY <2>9 DEF Record, Status, leaseRow, serverRows, host
  <2>10. CASE Quit(s) BY <2>10 DEF Quit, leaseRow, serverRows, host
  <2> QED
    BY <1>1, <2>1, <2>2, <2>3, <2>4, <2>5, <2>6, <2>7, <2>8, <2>9, <2>10 DEF Supervise
<1>2. ASSUME NEW s \in Servers, Host(s) PROVE Typed'
  <2>1. CASE StopHost(s) BY <2>1 DEF StopHost, leaseRow, serverRows, supervisor
  <2>2. CASE DeleteLeaseRow(s)
    BY <2>2 DEF DeleteLeaseRow, DropLease, leaseRow, serverRows, supervisor
  <2>3. CASE DeleteInstanceRow(s)
    BY <2>3 DEF DeleteInstanceRow, leaseRow, serverRows, supervisor
  <2>4. CASE Unregister(s) BY <2>4 DEF Unregister, DropLease, Die
  <2>5. CASE Crash(s) BY <2>5 DEF Crash, Die, leaseRow, serverRows
  <2> QED BY <1>2, <2>1, <2>2, <2>3, <2>4, <2>5 DEF Host
<1>3. ASSUME NEW s \in Servers, Heartbeat(s) PROVE Typed'
  BY <1>3 DEF Heartbeat, Beat, SwapAndComputeLost, leaseRow, serverRows, supervisor, host
<1>4. ASSUME NEW s \in Servers, BeatAges(s) PROVE Typed'
  BY <1>4 DEF BeatAges, Outrun, leaseRow, supervisor, host
<1>5. CASE LeaseExpires BY <1>5 DEF LeaseExpires, Outrun, serverRows, supervisor, host
<1>6. CASE CleanUpServers BY <1>6 DEF CleanUpServers, supervisor, host
<1>7. CASE UNCHANGED vars
  BY <1>7 DEF vars, leaseRow, serverRows, supervisor, host
<1> QED BY <1>1, <1>2, <1>3, <1>4, <1>5, <1>6, <1>7 DEF Next

\* Time that has once outrun a server stays counted.
LEMMA LateStays == Typed /\ [Next]_vars /\ late' = 0 => late = 0
<1> SUFFICES ASSUME Typed, [Next]_vars, late' = 0, late # 0 PROVE FALSE OBVIOUS
<1> USE DEF Typed
<1>1. ASSUME NEW s \in Servers, Supervise(s) PROVE FALSE
  BY <1>1 DEF Supervise, TryAcquire, HeldElsewhere, AcquireThrows, Subscribe, MarkRunning,
     MarkThrows, InvokeEnds, Release, Record, Quit
<1>2. ASSUME NEW s \in Servers, Host(s) PROVE FALSE
  BY <1>2 DEF Host, StopHost, DeleteLeaseRow, DeleteInstanceRow, Unregister, Crash
<1>3. ASSUME NEW s \in Servers, Heartbeat(s) PROVE FALSE
  BY <1>3 DEF Heartbeat, Beat, SwapAndComputeLost
<1>4. ASSUME NEW s \in Servers, BeatAges(s) PROVE FALSE BY <1>4 DEF BeatAges, Outrun
<1>5. CASE LeaseExpires BY <1>5 DEF LeaseExpires, Outrun
<1>6. CASE CleanUpServers BY <1>6 DEF CleanUpServers
<1>7. CASE UNCHANGED vars BY <1>7 DEF vars
<1> QED BY <1>1, <1>2, <1>3, <1>4, <1>5, <1>6, <1>7 DEF Next

\* A step of a supervisor keeps every live server's ground.
LEMMA SuperviseSound ==
  ASSUME Typed, Sound, NEW s \in Servers, Supervise(s) PROVE Sound'
<1> USE DEF Typed, Statuses, Places, Deletions, Sound, Up, Fresh, Known, Holds, Shown, Leaving, Holding
<1>1. CASE TryAcquire(s)
  BY <1>1, ServersAssumption DEF TryAcquire, Take, CanTake, serverRows, host
<1>2. CASE HeldElsewhere(s)
  BY <1>2 DEF HeldElsewhere, Status, leaseRow, serverRows, supervisor, host
<1>3. CASE AcquireThrows(s)
  BY <1>3, ServersAssumption DEF AcquireThrows, Take, CanTake, serverRows, supervisor, host
<1>4. CASE Subscribe(s) BY <1>4 DEF Subscribe, leaseRow, serverRows, host
<1>5. CASE MarkRunning(s) BY <1>5 DEF MarkRunning, Status, leaseRow, serverRows, host
<1>6. CASE MarkThrows(s) BY <1>6 DEF MarkThrows, leaseRow, serverRows, host
<1>7. CASE InvokeEnds(s) BY <1>7 DEF InvokeEnds, leaseRow, serverRows, host
<1>8. CASE Release(s)
  <2>1. pc'[s] \in {"stopped", "acquiring", "released"} BY <1>8 DEF Release
  <2>2. \A t \in Servers \ {s} : pc'[t] = pc[t] BY <1>8 DEF Release
  <2>3. holder \in Servers \ {s} => holder' = holder /\ expired' = expired
    BY <1>8 DEF Release, DropLease, leaseRow
  <2> QED BY <1>8, <2>1, <2>2, <2>3 DEF Release, serverRows, host
<1>9. CASE Record(s) BY <1>9 DEF Record, Status, leaseRow, serverRows, host
<1>10. CASE Quit(s) BY <1>10 DEF Quit, leaseRow, serverRows, host
<1> QED
  BY <1>1, <1>2, <1>3, <1>4, <1>5, <1>6, <1>7, <1>8, <1>9, <1>10 DEF Supervise

\* So does the end of another process, or its shutdown.
LEMMA HostSound ==
  ASSUME Typed, Sound, NEW s \in Servers, Host(s) PROVE Sound'
<1> USE DEF Typed, Statuses, Places, Deletions, Sound, Up, Fresh, Known, Holds, Shown, Leaving, Holding
<1>1. CASE StopHost(s) BY <1>1 DEF StopHost, leaseRow, serverRows, supervisor
<1>2. CASE DeleteLeaseRow(s)
  <2>1. stopping[s] /\ stopping' = stopping /\ pc' = pc
    BY <1>2 DEF DeleteLeaseRow, supervisor
  <2>2. holder \in Servers \ {s} => holder' = holder /\ expired' = expired
    BY <1>2 DEF DeleteLeaseRow, DropLease, leaseRow
  <2> QED BY <1>2, <2>1, <2>2 DEF DeleteLeaseRow, serverRows
<1>3. CASE DeleteInstanceRow(s)
  BY <1>3 DEF DeleteInstanceRow, leaseRow, serverRows, supervisor
<1>4. CASE Unregister(s)
  <2>1. holder \in Servers \ {s} => holder' = holder /\ expired' = expired
    BY <1>4 DEF Unregister, DropLease
  <2> QED BY <1>4, <2>1 DEF Unregister, Die
<1>5. CASE Crash(s) BY <1>5 DEF Crash, Die, leaseRow, serverRows
<1> QED BY <1>1, <1>2, <1>3, <1>4, <1>5 DEF Host

\* The heartbeat helps, and time and the cleanup touch only the dead.
LEMMA RestSound ==
  ASSUME Typed, Sound, late' = 0,
         \/ \E s \in Servers : Heartbeat(s) \/ BeatAges(s)
         \/ LeaseExpires \/ CleanUpServers \/ UNCHANGED vars
  PROVE  Sound'
<1> USE DEF Typed, Statuses, Places, Deletions, Sound, Up, Fresh, Known, Holds, Shown, Leaving, Holding
<1>1. ASSUME NEW s \in Servers, Beat(s) PROVE Sound'
  BY <1>1 DEF Beat, leaseRow, supervisor, host
<1>2. ASSUME NEW s \in Servers, SwapAndComputeLost(s) PROVE Sound'
  BY <1>2 DEF SwapAndComputeLost, leaseRow, serverRows, host
<1>3. ASSUME NEW s \in Servers, BeatAges(s) PROVE Sound'
  <2>1. ~Up(s) BY <1>3 DEF BeatAges, Outrun
  <2> QED BY <1>3, <2>1 DEF BeatAges, leaseRow, supervisor, host
<1>4. CASE LeaseExpires
  <2>1. ~Up(holder) BY <1>4 DEF LeaseExpires, Outrun
  <2> QED BY <1>4, <2>1 DEF LeaseExpires, serverRows, supervisor, host
<1>5. CASE CleanUpServers
  <2> DEFINE gone == {s \in Servers : registered[s] /\ stale[s]}
  <2>1. \A s \in gone : ~Up(s) OBVIOUS
  <2>2. \A s \in Servers \ gone :
          status'[s] = status[s] /\ registered'[s] = registered[s] /\ stale'[s] = stale[s]
    BY <1>5 DEF CleanUpServers
  <2>3. holder \notin gone => holder' = holder /\ expired' = expired
    BY <1>5 DEF CleanUpServers
  <2>4. UNCHANGED <<supervisor, host>> BY <1>5 DEF CleanUpServers
  <2> HIDE DEF gone
  <2> QED BY <2>1, <2>2, <2>3, <2>4 DEF supervisor, host
<1>6. CASE UNCHANGED vars BY <1>6 DEF vars, leaseRow, serverRows, supervisor, host
<1> QED BY <1>1, <1>2, <1>3, <1>4, <1>5, <1>6 DEF Heartbeat

\* The inductive invariant.
THEOREM LeaseInvariant == Spec => []LeaseInv
<1>1. Init => LeaseInv BY InitTyped, InitSound DEF LeaseInv
<1>2. LeaseInv /\ [Next]_vars => LeaseInv'
  <2> SUFFICES ASSUME LeaseInv, [Next]_vars, late' = 0 PROVE Sound'
    BY StepTyped DEF LeaseInv
  <2>1. Typed /\ Sound BY LateStays DEF LeaseInv
  <2>2. ASSUME NEW s \in Servers, Supervise(s) PROVE Sound' BY <2>1, <2>2, SuperviseSound
  <2>3. ASSUME NEW s \in Servers, Host(s) PROVE Sound' BY <2>1, <2>3, HostSound
  <2> QED BY <2>1, <2>2, <2>3, RestSound DEF Next
<1> QED BY <1>1, <1>2, PTL DEF Spec

\* At most one server runs a singleton service without having been told to stop, as long
\* as time outran no live server (BackgroundServiceLeaseCoordinator, Heartbeat,
\* ServerCleanup): two that run would both be the holder.
THEOREM OneRunsAlways == Spec => []OneRuns
<1>1. LeaseInv => OneRuns
  BY DEF LeaseInv, Sound, Holds, Holding, Up, OneRuns, Runs
<1> QED BY <1>1, LeaseInvariant, PTL

\* What runs is shown as running, as long as time outran no live server
\* (BackgroundServiceSupervisor: the status is written before the code is invoked).
THEOREM RunningIsShownAlways == Spec => []RunningIsShown
<1>1. LeaseInv => RunningIsShown
  BY DEF LeaseInv, Sound, Shown, Up, RunningIsShown
<1> QED BY <1>1, LeaseInvariant, PTL
-------------------------------------------------------------------------------
\* The rest of the type invariant, which the argument above does not need.
Others ==
  /\ holder \in Servers \cup {NoServer}
  /\ token \in [Servers -> {"none", "live", "cancelled"}]
  /\ why \in [Servers -> {"none", "over", "error", "stop"}]
  /\ beat \in [Servers -> {"idle", "renewed", "missed"}]
  /\ previousHeld \in [Servers -> BOOLEAN]
  /\ late \in 0..MaxLate /\ faults \in 0..MaxFaults

LEMMA StepOthers == Others /\ [Next]_vars => Others'
<1> SUFFICES ASSUME Others, [Next]_vars PROVE Others' OBVIOUS
<1> USE BoundsAssumption DEF Others, Fault
<1>1. ASSUME NEW s \in Servers, Supervise(s) PROVE Others'
  <2>1. CASE TryAcquire(s) BY <2>1 DEF TryAcquire, Take, host, heartbeat
  <2>2. CASE HeldElsewhere(s) BY <2>2 DEF HeldElsewhere, leaseRow, supervisor, heartbeat
  <2>3. CASE AcquireThrows(s) BY <2>3 DEF AcquireThrows, Take, supervisor, heartbeat
  <2>4. CASE Subscribe(s) BY <2>4 DEF Subscribe, leaseRow, heartbeat
  <2>5. CASE MarkRunning(s) BY <2>5 DEF MarkRunning, leaseRow, heartbeat
  <2>6. CASE MarkThrows(s) BY <2>6 DEF MarkThrows, leaseRow, heartbeat
  <2>7. CASE InvokeEnds(s) BY <2>7 DEF InvokeEnds, leaseRow, heartbeat
  <2>8. CASE Release(s) BY <2>8 DEF Release, DropLease, leaseRow, heartbeat
  <2>9. CASE Record(s) BY <2>9 DEF Record, leaseRow, heartbeat
  <2>10. CASE Quit(s) BY <2>10 DEF Quit, leaseRow, heartbeat
  <2> QED
    BY <1>1, <2>1, <2>2, <2>3, <2>4, <2>5, <2>6, <2>7, <2>8, <2>9, <2>10 DEF Supervise
<1>2. ASSUME NEW s \in Servers, Host(s) PROVE Others'
  <2>1. CASE StopHost(s) BY <2>1 DEF StopHost, leaseRow, supervisor, heartbeat
  <2>2. CASE DeleteLeaseRow(s)
    BY <2>2 DEF DeleteLeaseRow, DropLease, leaseRow, supervisor, heartbeat
  <2>3. CASE DeleteInstanceRow(s) BY <2>3 DEF DeleteInstanceRow, leaseRow, supervisor, heartbeat
  <2>4. CASE Unregister(s) BY <2>4 DEF Unregister, DropLease, Die
  <2>5. CASE Crash(s) BY <2>5 DEF Crash, Die, leaseRow
  <2> QED BY <1>2, <2>1, <2>2, <2>3, <2>4, <2>5 DEF Host
<1>3. ASSUME NEW s \in Servers, Heartbeat(s) PROVE Others'
  <2>1. CASE Beat(s) BY <2>1 DEF Beat, leaseRow, supervisor
  <2>2. CASE SwapAndComputeLost(s)
    <3>1. previousHeld' \in [Servers -> BOOLEAN] BY <2>2 DEF SwapAndComputeLost
    <3>2. token' \in [Servers -> {"none", "live", "cancelled"}] BY <2>2 DEF SwapAndComputeLost
    <3>3. beat' \in [Servers -> {"idle", "renewed", "missed"}] BY <2>2 DEF SwapAndComputeLost
    <3> QED BY <2>2, <3>1, <3>2, <3>3 DEF SwapAndComputeLost, leaseRow
  <2> QED BY <1>3, <2>1, <2>2 DEF Heartbeat
<1>4. ASSUME NEW s \in Servers, BeatAges(s) PROVE Others'
  BY <1>4 DEF BeatAges, Outrun, leaseRow, supervisor, heartbeat
<1>5. CASE LeaseExpires BY <1>5 DEF LeaseExpires, Outrun, supervisor, heartbeat
<1>6. CASE CleanUpServers BY <1>6 DEF CleanUpServers, supervisor, heartbeat
<1>7. CASE UNCHANGED vars BY <1>7 DEF vars, leaseRow, supervisor, heartbeat
<1> QED BY <1>1, <1>2, <1>3, <1>4, <1>5, <1>6, <1>7 DEF Next

\* Every variable keeps its type: the lease names a server or nobody, a supervisor is at one
\* of its places, and the counters stay within their bounds.
THEOREM TypeCorrect == Spec => []TypeOK
<1>1. Init => Others BY BoundsAssumption DEF Init, Others
<1>2. TypeOK <=> Typed /\ Others BY BoundsAssumption DEF TypeOK, Typed, Others
<1> QED BY <1>1, <1>2, InitTyped, StepTyped, StepOthers, PTL DEF Spec
===============================================================================
