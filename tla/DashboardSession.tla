-------------------------- MODULE DashboardSession --------------------------
(***************************************************************************)
(* One tab of the dashboard, src/ui: the authentication gate of App.tsx,   *)
(* the extensions it loads, the layout that comes and goes with the gate,  *)
(* the hub connection of stores/realtime.ts and the statistics that either *)
(* the hub pushes or the feed of lib/realtimeFeed.ts polls for.            *)
(*                                                                         *)
(* A fetch of the statistics is two steps: the server answers with what it *)
(* has, and any time later, in any order, the answer is delivered.  The    *)
(* other requests are answered and delivered in one step.  React effects   *)
(* run in the step that changes what is on the screen.                     *)
(***************************************************************************)
EXTENDS Integers, Sequences, FiniteSets, Functions

CONSTANTS Slots,       \* the slot (mode and selector) of each extension with
                       \* a script, in the order of the manifests
          Conns,       \* the hub connections a tab can build, 1..n
          MaxLoads,    \* runs of loadExtensions and
          MaxPolls,    \* fetches of the statistics under way at a time
          MaxTotals, MaxFaults, MaxExpiries

ASSUME SessionAssumption ==
  /\ Slots \in Seq(STRING)
  /\ Conns \subseteq Nat \ {0} /\ IsFiniteSet(Conns)
  /\ MaxLoads \in Nat /\ MaxPolls \in Nat
  /\ MaxTotals \in Nat /\ MaxFaults \in Nat /\ MaxExpiries \in Nat

VARIABLES builtIn,      \* config.hasBuiltInLogin
          session,      \* the cookie is valid
          totals,       \* how many changes the statistics have seen
          signal,       \* a broadcast is due
          probed, needsLogin, loaded,     \* App's state
          load, regs, observing, mounts,  \* the extension runtime
          polls, stats, error,            \* the dashboard store
          status, boot, conn, chan,       \* the realtime store
          sampler, poller,                \* the feed's timers
          addons,       \* attempt of the layout's discovery call
          faults, expiries

server == <<session, totals, signal>>
gate == <<probed, needsLogin, loaded>>
runtime == <<load, regs, observing, mounts>>
store == <<polls, stats, error>>
hub == <<status, boot, conn, chan>>
feed == <<sampler, poller>>
budget == <<faults, expiries>>
vars == <<builtIn, server, gate, runtime, store, hub, feed, addons, budget>>

\* The extensions, named by their place among the manifests.
Exts == 1..Len(Slots)

\* What a run of loadExtensions waits for: the manifests, or a script.
Awaited == 0..Len(Slots)

None == -1
\* An answer of GET /status is a value of totals or one of two errors.
Unauthorized == -2
Failed == -3
Answers == 0..MaxTotals \cup {Unauthorized, Failed}

TypeOK ==
  /\ builtIn \in BOOLEAN /\ session \in BOOLEAN /\ signal \in BOOLEAN
  /\ totals \in 0..MaxTotals
  /\ probed \in BOOLEAN /\ needsLogin \in BOOLEAN /\ loaded \in BOOLEAN
  /\ load \in [Awaited -> Nat]
  /\ regs \in Seq(Exts) /\ mounts \in [Exts -> Nat]
  /\ observing \in BOOLEAN
  /\ polls \in [Answers -> Nat]
  /\ stats \in {None} \cup 0..MaxTotals /\ error \in BOOLEAN
  /\ status \in {"idle", "connecting", "connected", "reconnecting", "disabled"}
  /\ boot \in {None} \cup Conns
  /\ conn \in [Conns -> {"unused", "starting", "open", "retrying", "closed"}]
  /\ chan \in [Conns -> Seq({None} \cup 0..MaxTotals)]
  /\ sampler \in BOOLEAN /\ poller \in BOOLEAN
  /\ addons \in {"none", "first", "second"}
  /\ faults \in 0..MaxFaults /\ expiries \in 0..MaxExpiries

-----------------------------------------------------------------------------
(* What the gate shows, and the effects of the layout coming and going.    *)

LoginShown == probed /\ needsLogin
Mounted == probed /\ ~needsLogin /\ loaded

\* The dot of the navbar (the production build draws none for "disabled").
RealtimeStatusIndicator ==
  CASE ~Mounted \/ status \in {"idle", "disabled"} -> "none"
    [] status = "connected" -> "Live"
    [] OTHER -> "Waiting"

\* "Connection lost".
Banner == Mounted /\ error

\* The numbers beside the navbar's links, drawn once there are any, and those
\* of the sections' sidebars, 0 until then.
Badges == IF Mounted THEN stats ELSE None
SidebarCounts == IF Mounted /\ stats # None THEN stats ELSE 0

Fault == faults < MaxFaults /\ faults' = faults + 1

UnderWay(p) == SumFunction(p)

\* getStatus(), answered by what the server has; the layout's own fetch is
\* dropped when MaxPolls are under way.
Ask(p, a) == IF UnderWay(p) < MaxPolls THEN [p EXCEPT ![a] = @ + 1] ELSE p
Reply == IF session' THEN totals ELSE Unauthorized

pushDelivering(st) == st = "connected"

applyMode(st) == ~pushDelivering(st)

\* A processAll that does not look at what is there: a mount per registration.
MountsUnchecked(on, m, r) ==
  [e \in Exts |-> IF on THEN m[e] + Cardinality({i \in DOMAIN r : r[i] = e}) ELSE 0]

\* regKey names the slot and not the extension: of the extensions registered for
\* one, the loop over registrations comes to the first of them first.
First(r, e) ==
  \E i \in DOMAIN r : r[i] = e /\ \A j \in 1..i - 1 : Slots[r[j]] # Slots[e]

Taken(m, e) == \E f \in Exts : Slots[f] = Slots[e] /\ m[f] > 0

\* processAll: what was mounted on elements that are gone is dropped, and
\* a registration is mounted unless its slot is taken, by whomever.
Mounts(on, m, r) ==
  [e \in Exts |-> IF ~on THEN 0
                    ELSE IF Taken(m, e) \/ ~First(r, e) THEN m[e] ELSE 1]

processAll == mounts' = IF observing' THEN Mounts(Mounted', mounts, regs') ELSE mounts

\* MainLayout's effects on mounting: the first fetch, the feed, discovery.
LayoutMounts ==
  /\ sampler' = TRUE
  /\ poller' = applyMode(status)
  /\ addons' = "first"

\* A clean-up that forgets the poller.
LayoutLeavesPoller ==
  /\ sampler' = FALSE /\ UNCHANGED poller
  /\ addons' = "none"

\* ... and their clean-up: the feed stops, the discovery call is cancelled.
LayoutUnmounts ==
  /\ sampler' = FALSE /\ poller' = FALSE
  /\ addons' = "none"

\* Called by every action that changes the gate; p is polls without what the
\* action itself consumed.
Rendered(p) ==
  /\ processAll
  /\ \/ Mounted' /\ ~Mounted /\ LayoutMounts /\ polls' = Ask(p, Reply)
     \/ Mounted /\ ~Mounted' /\ LayoutUnmounts /\ polls' = p
     \/ Mounted = Mounted' /\ UNCHANGED <<feed, addons>> /\ polls' = p

-----------------------------------------------------------------------------
(* The gate.                                                               *)

\* A run of loadExtensions starts.
initExtensions ==
  /\ UnderWay(load) < MaxLoads
  /\ load' = [load EXCEPT ![0] = @ + 1]

\* getAuthStatus answers, or fails and counts as unauthenticated.
Probe ==
  /\ builtIn /\ ~probed
  /\ probed' = TRUE
  /\ \/ session /\ initExtensions /\ UNCHANGED <<needsLogin, faults>>
     \/ ~session /\ needsLogin' = TRUE /\ UNCHANGED <<load, faults>>
     \/ Fault /\ needsLogin' = TRUE /\ UNCHANGED load
  /\ UNCHANGED <<builtIn, server, stats, error, hub, expiries>>
  /\ UNCHANGED <<loaded, regs, observing>>
  /\ Rendered(polls)

\* App.handleLogin: what was loaded is loaded again, the layout shows at once
\* if anything was.
handleLogin == needsLogin' = FALSE /\ initExtensions

\* LoginPage.handleSubmit with good credentials.
Login ==
  /\ LoginShown
  /\ session' = TRUE
  /\ handleLogin
  /\ UNCHANGED <<probed, loaded, regs, observing>>
  /\ Rendered(polls)
  /\ UNCHANGED <<builtIn, totals, signal, stats, error, hub, budget>>

\* The interceptor of api/client.ts, when App has installed its handler.
onUnauthorized == needsLogin' = (needsLogin \/ builtIn)

-----------------------------------------------------------------------------
(* loadExtensions: the manifests, then their scripts one after the other;  *)
(* manifests that fail leave no extensions.                                *)

\* The end of a run: App learns of it, and runtime.start unless it gave up.
Loaded(a, started) ==
  /\ load' = [load EXCEPT ![a] = @ - 1]
  /\ loaded' = TRUE
  /\ observing' = (observing \/ started)

Manifests ==
  /\ load[0] > 0
  /\ \/ /\ session
        /\ IF Slots = <<>>
             THEN Loaded(0, FALSE)
             ELSE /\ load' = [load EXCEPT ![0] = @ - 1, ![1] = @ + 1]
                  /\ UNCHANGED <<loaded, observing>>
        /\ UNCHANGED <<needsLogin, faults>>
     \/ ~session /\ onUnauthorized /\ Loaded(0, FALSE) /\ UNCHANGED faults
     \/ Fault /\ Loaded(0, FALSE) /\ UNCHANGED needsLogin
  /\ UNCHANGED <<builtIn, server, stats, error, hub, expiries>>
  /\ UNCHANGED <<probed, regs>>
  /\ Rendered(polls)

\* A script is fetched, imported and installed; install registers, and a script
\* that fails is skipped.
Install(e) ==
  /\ load[e] > 0
  /\ \/ regs' = Append(regs, e) /\ UNCHANGED faults
     \/ Fault /\ UNCHANGED regs
  /\ UNCHANGED <<builtIn, server, stats, error, hub, expiries>>
  /\ UNCHANGED <<probed, needsLogin>>
  /\ \/ /\ e < Len(Slots)
        /\ load' = [load EXCEPT ![e] = @ - 1, ![e + 1] = @ + 1]
        /\ UNCHANGED <<loaded, observing, mounts, feed, addons, polls>>
     \/ /\ e = Len(Slots)
        /\ Loaded(e, TRUE)
        /\ Rendered(polls)

\* The page under the layout changes, and the observers of earlier runs see it;
\* a run under way has registered some of its scripts by then.
Mutation ==
  /\ observing
  /\ UNCHANGED <<builtIn, server, gate, load, regs, observing, store, hub, feed, addons,
                 budget>>
  /\ processAll

-----------------------------------------------------------------------------
(* The statistics.                                                         *)

\* The feed's timer: fetchStats every second while the poller is on.
Poll ==
  /\ poller
  /\ UnderWay(polls) < MaxPolls
  /\ \/ polls' = Ask(polls, IF session THEN totals ELSE Unauthorized) /\ UNCHANGED faults
     \/ polls' = Ask(polls, Failed) /\ Fault
  /\ UNCHANGED <<builtIn, server, gate, runtime, stats, error, hub, feed, addons,
                 expiries>>

\* A fetchStats that leaves the banner up.
fetchStatsKeepsError(a) ==
  /\ polls[a] > 0
  /\ IF a \in Nat
       THEN stats' = a /\ UNCHANGED error /\ UNCHANGED needsLogin
       ELSE /\ error' = TRUE /\ UNCHANGED stats
            /\ IF a = Unauthorized THEN onUnauthorized ELSE UNCHANGED needsLogin
  /\ UNCHANGED <<builtIn, server, hub, budget>>
  /\ UNCHANGED <<probed, loaded, load, regs, observing>>
  /\ Rendered([polls EXCEPT ![a] = @ - 1])

\* An answer reaches fetchStats; a 401 has met the interceptor before.
fetchStats(a) ==
  /\ polls[a] > 0
  /\ IF a \in Nat
       THEN stats' = a /\ error' = FALSE /\ UNCHANGED needsLogin
       ELSE /\ error' = TRUE /\ UNCHANGED stats
            /\ IF a = Unauthorized THEN onUnauthorized ELSE UNCHANGED needsLogin
  /\ UNCHANGED <<builtIn, server, hub, budget>>
  /\ UNCHANGED <<probed, loaded, load, regs, observing>>
  /\ Rendered([polls EXCEPT ![a] = @ - 1])

-----------------------------------------------------------------------------
(* The hub.                                                                *)

\* The store's subscribers hear of a status only when it differs.
StatusSet(st) ==
  /\ status' = st
  /\ poller' = IF sampler /\ st # status THEN applyMode(st) ELSE poller
  /\ UNCHANGED sampler

\* connectIfEnabled(push): nothing while a boot is under way or a connection
\* is up; a reconnecting one does not count as up.
connectIfEnabled(push) ==
  IF boot # None \/ status \in {"connected", "connecting"}
    THEN UNCHANGED <<hub, feed>>
    ELSE IF ~push
      THEN StatusSet("disabled") /\ UNCHANGED <<boot, conn, chan>>
      ELSE \E c \in Conns :
             /\ conn[c] = "unused" /\ \A d \in Conns : d < c => conn[d] # "unused"
             /\ conn' = [conn EXCEPT ![c] = "starting"]
             /\ boot' = c
             /\ StatusSet("connecting")
             /\ UNCHANGED chan

\* The addons answer; the first failure is followed by a second attempt, a
\* 401 goes past the interceptor both times.
Addons ==
  /\ addons # "none"
  /\ UNCHANGED <<builtIn, server, stats, error, expiries>>
  /\ UNCHANGED <<probed, loaded, load, regs, observing>>
  /\ \/ /\ session
        /\ \E push \in BOOLEAN : connectIfEnabled(push)
        /\ addons' = "none"
        /\ UNCHANGED <<needsLogin, faults, mounts, polls>>
     \/ /\ ~session /\ builtIn
        /\ needsLogin' = TRUE
        /\ Rendered(polls)
        /\ UNCHANGED <<hub, faults>>
     \/ /\ \/ /\ addons = "first" /\ addons' = "second"
              /\ UNCHANGED <<hub, feed, faults>>
           \/ /\ addons = "second" /\ addons' = "none" /\ Fault
              /\ connectIfEnabled(FALSE)
        /\ UNCHANGED <<needsLogin, mounts, polls>>

\* connection.start() resolves or is refused.
Started ==
  /\ boot # None
  /\ boot' = None
  /\ \/ /\ session
        /\ conn' = [conn EXCEPT ![boot] = "open"]
        /\ StatusSet("connected") /\ UNCHANGED faults
     \/ /\ \/ ~session /\ UNCHANGED faults
           \/ session /\ Fault
        /\ conn' = [conn EXCEPT ![boot] = "closed"]
        /\ StatusSet("disabled")
  /\ UNCHANGED <<builtIn, server, gate, runtime, store, chan, addons, expiries>>

\* A connection drops and begins to reconnect.
Drop(c) ==
  /\ conn[c] = "open" /\ Fault
  /\ conn' = [conn EXCEPT ![c] = "retrying"]
  /\ chan' = [chan EXCEPT ![c] = <<>>]
  /\ StatusSet("reconnecting")
  /\ UNCHANGED <<builtIn, server, gate, runtime, store, boot, addons, expiries>>

\* Reconnecting ends: the connection is back, or is closed for good.
Retried(c) ==
  /\ conn[c] = "retrying"
  /\ \/ session /\ conn' = [conn EXCEPT ![c] = "open"] /\ StatusSet("connected")
     \/ conn' = [conn EXCEPT ![c] = "closed"] /\ StatusSet("disabled")
  /\ UNCHANGED <<builtIn, server, gate, runtime, store, boot, chan, addons, budget>>

\* The broadcaster sends the statistics of this moment to every connection,
\* or the bare event when it could not read them.
Broadcast ==
  /\ signal
  /\ signal' = FALSE
  /\ \A c \in Conns : chan[c] = <<>>
  /\ \E payload \in {None, totals} :
       /\ payload = None => Fault
       /\ payload # None => UNCHANGED faults
       /\ chan' = [c \in Conns |-> IF conn[c] = "open" THEN <<payload>> ELSE <<>>]
  /\ UNCHANGED <<builtIn, session, totals, gate, runtime, store, status, boot, conn,
                 feed, addons, expiries>>

\* bridgeEvent's handler writes a payload straight to the dashboard store.
bridgeEvent(c) ==
  /\ chan[c] # <<>>
  /\ chan' = [chan EXCEPT ![c] = Tail(@)]
  /\ IF Head(chan[c]) # None
       THEN stats' = Head(chan[c]) /\ error' = FALSE
       ELSE UNCHANGED <<stats, error>>
  /\ UNCHANGED <<builtIn, server, gate, runtime, polls, status, boot, conn, feed,
                 addons, budget>>

-----------------------------------------------------------------------------
(* The world.                                                              *)

\* A job finishes somewhere.
Finish ==
  /\ totals < MaxTotals
  /\ totals' = totals + 1 /\ signal' = TRUE
  /\ UNCHANGED <<builtIn, session, gate, runtime, store, hub, feed, addons, budget>>

Expire ==
  /\ builtIn /\ session /\ expiries < MaxExpiries
  /\ session' = FALSE /\ expiries' = expiries + 1
  /\ UNCHANGED <<builtIn, totals, signal, gate, runtime, store, hub, feed, addons,
                 faults>>

NoLoad == [a \in Awaited |-> 0]
NoExt == [e \in Exts |-> 0]
NoPoll == [a \in Answers |-> 0]
NoConn == [c \in Conns |-> "unused"]
NoEvent == [c \in Conns |-> <<>>]

\* The logout button: the session ends and the tab is loaded anew.
Logout ==
  /\ Mounted /\ builtIn /\ expiries < MaxExpiries
  /\ expiries' = expiries + 1
  /\ session' = FALSE
  /\ probed' = FALSE /\ needsLogin' = FALSE /\ loaded' = FALSE
  /\ load' = NoLoad /\ regs' = <<>> /\ observing' = FALSE /\ mounts' = NoExt
  /\ polls' = NoPoll /\ stats' = None /\ error' = FALSE
  /\ status' = "idle" /\ boot' = None /\ conn' = NoConn /\ chan' = NoEvent
  /\ sampler' = FALSE /\ poller' = FALSE /\ addons' = "none"
  /\ UNCHANGED <<builtIn, totals, signal, faults>>

\* Without the login addon there is nothing to probe: the extensions are
\* under way at once.
Init ==
  /\ builtIn \in BOOLEAN
  /\ session \in {TRUE, ~builtIn}
  /\ totals = 0 /\ signal = FALSE
  /\ probed = ~builtIn /\ needsLogin = FALSE /\ loaded = FALSE
  /\ load = [NoLoad EXCEPT ![0] = IF builtIn THEN 0 ELSE 1]
  /\ regs = <<>> /\ observing = FALSE /\ mounts = NoExt
  /\ polls = NoPoll /\ stats = None /\ error = FALSE
  /\ status = "idle" /\ boot = None /\ conn = NoConn /\ chan = NoEvent
  /\ sampler = FALSE /\ poller = FALSE /\ addons = "none"
  /\ faults = 0 /\ expiries = 0

Next ==
  \/ Probe \/ Login \/ Logout
  \/ Manifests \/ \E e \in Exts : Install(e)
  \/ Mutation \/ Poll \/ Addons \/ Started \/ Broadcast
  \/ \E a \in Answers : fetchStats(a)
  \/ \E c \in Conns : Drop(c) \/ Retried(c) \/ bridgeEvent(c)
  \/ Finish \/ Expire

\* Timers fire, requests are answered, reconnecting ends; nobody has to log
\* in, no job has to finish and no session has to expire.
Fairness ==
  /\ WF_vars(Probe) /\ WF_vars(Poll) /\ WF_vars(Addons) /\ WF_vars(Started)
  /\ WF_vars(Broadcast)
  /\ WF_vars(Manifests) /\ \A e \in Exts : WF_vars(Install(e))
  /\ \A a \in Answers : WF_vars(fetchStats(a))
  /\ \A c \in Conns : WF_vars(Retried(c) \/ bridgeEvent(c))

Spec == Init /\ [][Next]_vars /\ Fairness

-----------------------------------------------------------------------------
(* Properties.                                                             *)

(***************************************************************************)
(* The feed fits the hub, whatever order the events of two connections     *)
(* take (a tab builds a second one when its layout mounts while the first  *)
(* reconnects) and however boots outlive the layout that asked for them:   *)
(* the navbar says "Live" only while some connection delivers, the tab     *)
(* polls exactly when the layout is up and the store is not connected, and *)
(* no timer outlives the layout.                                           *)
(***************************************************************************)
ConnectedMeansOpen ==
  status = "connected" \/ RealtimeStatusIndicator = "Live" =>
    \E c \in Conns : conn[c] = "open"
ModeFits ==
  /\ sampler = Mounted
  /\ poller = (Mounted /\ status # "connected")
FeedFits == ConnectedMeansOpen /\ ModeFits

(***************************************************************************)
(* Loading the extensions again after a login registers them again, and a  *)
(* slot still holds one mount; the extension that registered for a slot    *)
(* before the others keeps it, however the layout comes and goes and       *)
(* whichever scripts fail; when no run is under way no slot that somebody  *)
(* registered for is empty as long as the layout is up.                    *)
(***************************************************************************)
MountedOnce ==
  /\ \A e \in Exts : mounts[e] <= 1
  /\ \A e, f \in Exts :
       Slots[e] = Slots[f] /\ mounts[e] > 0 /\ mounts[f] > 0 => e = f
  /\ \A e \in Exts : mounts[e] > 0 => Mounted /\ First(regs, e)
  /\ (Mounted /\ observing /\ load = NoLoad) =>
       \A i \in DOMAIN regs : Taken(mounts, regs[i])

(***************************************************************************)
(* Without the hub the layout's numbers catch up with the server's, though *)
(* fetches overlap and answers overtake one another.                       *)
(***************************************************************************)
StatsCatchUp ==
  <>[](Mounted /\ status # "connected") =>
    <>[](Badges = totals /\ SidebarCounts = totals /\ ~Banner)

(***************************************************************************)
(* With the hub up the numbers catch up too: what stores/realtime.ts says  *)
(* of its drain on connecting.                                             *)
(***************************************************************************)
StatsCatchUpLive ==
  <>[](RealtimeStatusIndicator = "Live") => <>[](Badges = totals)
=============================================================================
