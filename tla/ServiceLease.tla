----------------------------- MODULE ServiceLease -----------------------------
(***************************************************************************)
(* A singleton background service: its lease row, the supervisor of each   *)
(* server that wants to run it, the heartbeat that renews the lease and    *)
(* reports its loss, and the cleanup that removes dead servers.            *)
(*                                                                         *)
(* One database statement or transaction is one step.  Time is seen only   *)
(* as the code sees it: the lease has expired or not, a server's last beat *)
(* is older than HealthCheckTimeout or not.  `late' counts the times it    *)
(* outran a server that is alive.  A restarted process is another server.  *)
(***************************************************************************)
EXTENDS Naturals, FiniteSets

CONSTANTS Servers, NoServer,
          Unsteady,     \* the servers that may be shut down, crash or be outrun by time
          MaxLate,      \* how often time outruns a live server
          MaxFaults     \* how many of the supervisors' statements fail

ASSUME ServersAssumption == NoServer \notin Servers /\ Unsteady \subseteq Servers
ASSUME BoundsAssumption == MaxLate \in Nat /\ MaxFaults \in Nat

VARIABLES holder, expired,      \* the lease row: HolderServerId, LeaseExpiresAt < now
          registered, stale,    \* the server rows: there, LastHeartbeatTime too old
          status,               \* the instance rows
          pc, token, why,       \* the supervisor: its place, the linked token, why it released
          stopping, deleting,   \* the host: its token, the fire-and-forget deletion
          beat, previousHeld,   \* the heartbeat: what the statement returned, the tracker
          late, faults

leaseRow == <<holder, expired>>
serverRows == <<registered, stale>>
supervisor == <<pc, token, why>>
host == <<stopping, deleting>>
heartbeat == <<beat, previousHeld>>
vars == <<leaseRow, serverRows, status, supervisor, host, heartbeat, late, faults>>

Places == {"acquiring", "acquired", "marking", "executing", "ending", "released",
           "stopped", "dead"}
\* Waiting, Faulted and Restarting are "resting"; without a row, "none".
Statuses == {"Running", "resting", "none"}
\* What the deletion a shutdown began has yet to delete.
Deletions == {"none", "lease", "instance"}

TypeOK ==
  /\ holder \in Servers \cup {NoServer} /\ expired \in BOOLEAN
  /\ registered \in [Servers -> BOOLEAN] /\ stale \in [Servers -> BOOLEAN]
  /\ status \in [Servers -> Statuses]
  /\ pc \in [Servers -> Places]
  /\ token \in [Servers -> {"none", "live", "cancelled"}]
  /\ why \in [Servers -> {"none", "over", "error", "stop"}]
  /\ stopping \in [Servers -> BOOLEAN] /\ deleting \in [Servers -> Deletions]
  /\ beat \in [Servers -> {"idle", "renewed", "missed"}]
  /\ previousHeld \in [Servers -> BOOLEAN]
  /\ late \in 0..MaxLate /\ faults \in 0..MaxFaults

Up(s) == pc[s] # "dead"

\* Every server has registered itself and the service (Waiting), nobody holds the lease.
Init ==
  /\ holder = NoServer /\ expired = FALSE
  /\ registered = [s \in Servers |-> TRUE] /\ stale = [s \in Servers |-> FALSE]
  /\ status = [s \in Servers |-> "resting"]
  /\ pc = [s \in Servers |-> "acquiring"]
  /\ token = [s \in Servers |-> "none"] /\ why = [s \in Servers |-> "none"]
  /\ stopping = [s \in Servers |-> FALSE] /\ deleting = [s \in Servers |-> "none"]
  /\ beat = [s \in Servers |-> "idle"] /\ previousHeld = [s \in Servers |-> FALSE]
  /\ late = 0 /\ faults = 0

Fault == faults < MaxFaults /\ faults' = faults + 1

\* ExecuteUpdate of the instance row, which may be gone.
Status(s, x) == status' = [status EXCEPT ![s] = IF @ = "none" THEN "none" ELSE x]

\* ExecuteDelete of the lease row, if s holds it.
DropLease(s) == holder' = (IF holder = s THEN NoServer ELSE holder) /\ expired' = (expired /\ holder # s)

-------------------------------------------------------------------------------
(* The supervisor's loop. *)

\* (Two mutants: the expiry is not looked at; one's own lease is not recognised.)
CanTakeAny(s) == s \in Servers
CanTakeOthers(s) == holder = NoServer \/ expired

CanTake(s) == holder \in {NoServer, s} \/ expired

\* The row is locked, read and written in one transaction; its foreign key wants the
\* server's row.
Take(s) == registered[s] /\ CanTake(s) /\ holder' = s /\ expired' = FALSE

\* A shutdown that begins meanwhile need not reach the statement.
TryAcquire(s) ==
  /\ pc[s] = "acquiring"
  /\ Take(s)
  /\ pc' = [pc EXCEPT ![s] = "acquired"]
  /\ UNCHANGED <<serverRows, status, token, why, host, heartbeat, late, faults>>

HeldElsewhere(s) ==
  /\ pc[s] = "acquiring" /\ ~CanTake(s)
  /\ Status(s, "resting")
  /\ UNCHANGED <<leaseRow, serverRows, supervisor, host, heartbeat, late, faults>>

\* The commit arrives and its answer does not: the supervisor backs off, holding the lease.
AcquireThrows(s) ==
  /\ pc[s] = "acquiring"
  /\ Take(s)
  /\ Fault
  /\ UNCHANGED <<serverRows, status, supervisor, host, heartbeat, late>>

\* The linked token exists and hears of losses from here on.
Subscribe(s) ==
  /\ pc[s] = "acquired"
  /\ pc' = [pc EXCEPT ![s] = "marking"]
  /\ token' = [token EXCEPT ![s] = "live"]
  /\ UNCHANGED <<leaseRow, serverRows, status, why, host, heartbeat, late, faults>>

MarkRunning(s) ==
  /\ pc[s] = "marking" /\ ~stopping[s]
  /\ pc' = [pc EXCEPT ![s] = "executing"]
  /\ Status(s, "Running")
  /\ UNCHANGED <<leaseRow, serverRows, token, why, host, heartbeat, late, faults>>

\* The write throws; the lease is kept over the back-off, until the finally block.
MarkThrows(s) ==
  /\ pc[s] = "marking"
  /\ pc' = [pc EXCEPT ![s] = "ending"]
  /\ \/ stopping[s] /\ why' = [why EXCEPT ![s] = "stop"] /\ UNCHANGED faults
     \/ Fault /\ why' = [why EXCEPT ![s] = "error"]
  /\ UNCHANGED <<leaseRow, serverRows, status, token, host, heartbeat, late>>

\* User code returns, throws, or obeys a cancelled token (a lost lease, a shutdown).
InvokeEnds(s) ==
  /\ pc[s] = "executing"
  /\ pc' = [pc EXCEPT ![s] = "ending"]
  /\ \/ why' = [why EXCEPT ![s] = "over"]
     \/ stopping[s] /\ why' = [why EXCEPT ![s] = "stop"]
  /\ UNCHANGED <<leaseRow, serverRows, status, token, host, heartbeat, late, faults>>

\* SingletonRelease: unsubscribe, then delete the lease; a failure is swallowed.
Release(s) ==
  /\ pc[s] = "ending"
  /\ token' = [token EXCEPT ![s] = "none"]
  /\ pc' = [pc EXCEPT ![s] = CASE why[s] = "stop" -> "stopped"
                               [] why[s] = "error" -> "acquiring"
                               [] OTHER -> "released"]
  /\ why' = [why EXCEPT ![s] = "none"]
  /\ \/ DropLease(s) /\ UNCHANGED faults
     \/ UNCHANGED leaseRow /\ Fault
  /\ UNCHANGED <<serverRows, status, host, heartbeat, late>>

\* Faulted, then Waiting (a lost lease) or Restarting; the iteration starts over whether or
\* not the writes succeed.
Record(s) ==
  /\ pc[s] = "released"
  /\ pc' = [pc EXCEPT ![s] = "acquiring"]
  /\ \/ Status(s, "resting") /\ UNCHANGED faults
     \/ UNCHANGED status /\ Fault
  /\ UNCHANGED <<leaseRow, serverRows, token, why, host, heartbeat, late>>

\* The loop ends when its token is cancelled; RunAsync then deletes the instance row.
Quit(s) ==
  /\ pc[s] \in {"acquiring", "released"} /\ stopping[s]
  /\ pc' = [pc EXCEPT ![s] = "stopped"]
  /\ status' = [status EXCEPT ![s] = "none"]
  /\ UNCHANGED <<leaseRow, serverRows, token, why, host, heartbeat, late, faults>>

-------------------------------------------------------------------------------
(* The host, the process. *)

StopHost(s) ==
  /\ s \in Unsteady /\ Up(s) /\ ~stopping[s]
  /\ stopping' = [stopping EXCEPT ![s] = TRUE]
  /\ deleting' = [deleting EXCEPT ![s] = "lease"]
  /\ UNCHANGED <<leaseRow, serverRows, status, supervisor, heartbeat, late, faults>>

\* Two statements, in this order; one that fails ends the deletion.
DeleteLeaseRow(s) ==
  /\ Up(s) /\ deleting[s] = "lease"
  /\ \/ DropLease(s) /\ deleting' = [deleting EXCEPT ![s] = "instance"] /\ UNCHANGED faults
     \/ UNCHANGED leaseRow /\ deleting' = [deleting EXCEPT ![s] = "none"] /\ Fault
  /\ UNCHANGED <<serverRows, status, supervisor, stopping, heartbeat, late>>

DeleteInstanceRow(s) ==
  /\ Up(s) /\ deleting[s] = "instance"
  /\ deleting' = [deleting EXCEPT ![s] = "none"]
  /\ \/ status' = [status EXCEPT ![s] = "none"] /\ UNCHANGED faults
     \/ UNCHANGED status /\ Fault
  /\ UNCHANGED <<leaseRow, serverRows, supervisor, stopping, heartbeat, late>>

Die(s) ==
  /\ pc' = [pc EXCEPT ![s] = "dead"]
  /\ token' = [token EXCEPT ![s] = "none"] /\ why' = [why EXCEPT ![s] = "none"]
  /\ stopping' = [stopping EXCEPT ![s] = FALSE]
  /\ beat' = [beat EXCEPT ![s] = "idle"]
  /\ previousHeld' = [previousHeld EXCEPT ![s] = FALSE]
  /\ deleting' = [deleting EXCEPT ![s] = "none"]

\* WarpServerRegistration.StopAsync, last of the host; a supervisor that outlives the
\* shutdown timeout dies with the process.  Its deletions are one step here: what others see
\* between them they see after DeleteLeaseRow too, and if one fails, the rest is a Crash's.
Unregister(s) ==
  /\ Up(s) /\ stopping[s]
  /\ DropLease(s)
  /\ registered' = [registered EXCEPT ![s] = FALSE]
  /\ status' = [status EXCEPT ![s] = "none"]
  /\ Die(s)
  /\ stale' = [stale EXCEPT ![s] = FALSE]
  /\ UNCHANGED <<late, faults>>

Crash(s) ==
  /\ s \in Unsteady /\ Up(s)
  /\ Die(s)
  /\ UNCHANGED <<leaseRow, serverRows, status, late, faults>>

-------------------------------------------------------------------------------
(* The heartbeat, and the cleanup of servers. *)

\* One statement: the server's beat, and the renewal of the leases it holds that have not
\* expired.  Without a server row it returns nothing, and the task throws.
Beat(s) ==
  /\ Up(s) /\ beat[s] = "idle" /\ registered[s]
  /\ stale' = [stale EXCEPT ![s] = FALSE]
  /\ beat' = [beat EXCEPT ![s] = IF holder = s /\ ~expired THEN "renewed" ELSE "missed"]
  /\ UNCHANGED <<leaseRow, registered, status, supervisor, host, previousHeld, late, faults>>

\* (A mutant: the loss of a lease is counted, and not published.)
SwapQuietly(s) ==
  /\ Up(s) /\ beat[s] # "idle"
  /\ previousHeld' = [previousHeld EXCEPT ![s] = beat[s] = "renewed"]
  /\ beat' = [beat EXCEPT ![s] = "idle"]
  /\ UNCHANGED <<leaseRow, serverRows, status, supervisor, host, late, faults>>

\* Held at the previous beat and not renewed at this one is lost: the service's linked
\* token, if there is one, is cancelled.
SwapAndComputeLost(s) ==
  /\ Up(s) /\ beat[s] # "idle"
  /\ previousHeld' = [previousHeld EXCEPT ![s] = beat[s] = "renewed"]
  /\ token' = [token EXCEPT ![s] =
                 IF previousHeld[s] /\ beat[s] = "missed" /\ @ = "live" THEN "cancelled" ELSE @]
  /\ beat' = [beat EXCEPT ![s] = "idle"]
  /\ UNCHANGED <<leaseRow, serverRows, status, pc, why, host, late, faults>>

Outrun(s) ==
  IF Up(s) THEN s \in Unsteady /\ late < MaxLate /\ late' = late + 1 ELSE UNCHANGED late

LeaseExpires ==
  /\ holder # NoServer /\ ~expired
  /\ expired' = TRUE
  /\ Outrun(holder)
  /\ UNCHANGED <<holder, serverRows, status, supervisor, host, heartbeat, faults>>

BeatAges(s) ==
  /\ registered[s] /\ ~stale[s]
  /\ stale' = [stale EXCEPT ![s] = TRUE]
  /\ Outrun(s)
  /\ UNCHANGED <<leaseRow, registered, status, supervisor, host, heartbeat, faults>>

\* ServerCleanup, run by any server: the rows of every server whose beat is too old.
CleanUpServers ==
  LET gone == {s \in Servers : registered[s] /\ stale[s]}
  IN  /\ gone # {} /\ \E s \in Servers : Up(s)
      /\ registered' = [s \in Servers |-> registered[s] /\ s \notin gone]
      /\ stale' = [s \in Servers |-> stale[s] /\ s \notin gone]
      /\ status' = [s \in Servers |-> IF s \in gone THEN "none" ELSE status[s]]
      /\ holder' = IF holder \in gone THEN NoServer ELSE holder
      /\ expired' = (expired /\ holder \notin gone)
      /\ UNCHANGED <<supervisor, host, heartbeat, late, faults>>

-------------------------------------------------------------------------------
Supervise(s) ==
  \/ TryAcquire(s) \/ HeldElsewhere(s) \/ AcquireThrows(s) \/ Subscribe(s)
  \/ MarkRunning(s) \/ MarkThrows(s) \/ InvokeEnds(s) \/ Release(s) \/ Record(s) \/ Quit(s)
Host(s) == StopHost(s) \/ DeleteLeaseRow(s) \/ DeleteInstanceRow(s) \/ Unregister(s) \/ Crash(s)
Heartbeat(s) == Beat(s) \/ SwapAndComputeLost(s)

Next ==
  \/ \E s \in Servers : Supervise(s) \/ Host(s) \/ Heartbeat(s) \/ BeatAges(s)
  \/ LeaseExpires
  \/ CleanUpServers

\* The supervisor's next step, user code's aside.
Drive(s) ==
  TryAcquire(s) \/ Subscribe(s) \/ MarkRunning(s) \/ MarkThrows(s) \/ Release(s) \/ Record(s)
  \/ Quit(s)
TimePasses(s) == ~Up(s) /\ (BeatAges(s) \/ (holder = s /\ LeaseExpires))

\* Supervisors and heartbeats run on timers while their process lives, a shutdown has a
\* timeout, and time passes for the dead.  User code owes nothing.
Fairness ==
  /\ \A s \in Servers : WF_vars(Drive(s)) /\ WF_vars(Heartbeat(s))
  /\ \A s \in Unsteady : WF_vars(Unregister(s)) /\ WF_vars(TimePasses(s))
  /\ WF_vars(CleanUpServers)

Spec == Init /\ [][Next]_vars
FairSpec == Spec /\ Fairness

-------------------------------------------------------------------------------
Runs(s) == pc[s] = "executing" /\ ~stopping[s] /\ token[s] = "live"

\* As long as time outran no live server, at most one server runs the service with nobody
\* having told it to stop: whoever runs it holds the lease, and the lease has not expired
\* (BackgroundServiceLeaseCoordinator, the heartbeat's renewal, ServerCleanup).
OneRuns ==
  late = 0 => \A s, t \in Servers : Runs(s) /\ Runs(t) => s = t

\* "Dashboard truthfulness is preferred over running blind" (BackgroundServiceSupervisor):
\* as long as time outran no live server, a service whose host is not shutting down runs
\* only where its instance row says Running.
RunningIsShown ==
  late = 0 => \A s \in Servers : pc[s] = "executing" /\ ~stopping[s] => status[s] = "Running"

\* A loss after the lease was once renewed is heard: a server that runs the service, held
\* the lease at its previous beat and holds it no longer gets its token cancelled, takes the
\* lease back, stops, or has lost its server row as well (HeartbeatLeaseTracker, Heartbeat).
ConfirmedLossIsHeard ==
  \A s \in Servers :
    (Runs(s) /\ previousHeld[s] /\ holder # s) ~> (~Runs(s) \/ holder = s \/ ~registered[s])

\* The same without the condition, as the design states it: whoever runs the service and
\* does not hold its lease hears of that.
LossIsHeard == \A s \in Servers : (Runs(s) /\ holder # s) ~> (~Runs(s) \/ holder = s)

\* If some server stays up and registered and is not shut down, the service is executed
\* again and again: no lease, left by a dead server, a shutdown or a failed release, bars
\* everybody for ever.
Available(s) == Up(s) /\ registered[s] /\ ~stopping[s]
ServiceKeepsRunning ==
  \A s \in Servers : <>[]Available(s) => []<>(\E t \in Servers : pc[t] = "executing")
===============================================================================
