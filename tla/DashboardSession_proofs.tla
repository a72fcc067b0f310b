----------------------- MODULE DashboardSession_proofs -----------------------
(***************************************************************************)
(* For any extensions, connections, loader runs and bounds: the poller     *)
(* runs exactly when the hub does not push, and a slot holds one mount, of *)
(* the first to register for it, however the gate opens and closes.        *)
(***************************************************************************)
EXTENDS DashboardSession, TLAPS

-------------------------------------------------------------------------------
(* The invariant.                                                          *)

\* An effect that mounts nothing before the loader is done leaves nothing mounted.
NothingBefore == ~observing => \A e \in Exts : mounts[e] = 0

\* Somebody is the first for every slot that was registered for.
FirstIsThere ==
  \A i \in DOMAIN regs : \E f \in Exts : Slots[f] = Slots[regs[i]] /\ First(regs, f)

SessionInv == TypeOK /\ FeedFits /\ NothingBefore /\ FirstIsThere /\ MountedOnce

\* What the gate, the loader and the layout's effects write.
Gated ==
  /\ probed \in BOOLEAN /\ needsLogin \in BOOLEAN /\ loaded \in BOOLEAN
  /\ observing \in BOOLEAN
  /\ regs \in Seq(Exts)

Effects ==
  /\ mounts \in [Exts -> Nat]
  /\ sampler \in BOOLEAN /\ poller \in BOOLEAN
  /\ addons \in {"none", "first", "second"}
  /\ polls \in [Answers -> Nat]

LEMMA AskTyped ==
  ASSUME NEW p \in [Answers -> Nat], NEW a \in Answers
  PROVE  Ask(p, a) \in [Answers -> Nat]
BY DEF Ask

LEMMA AnswersTyped ==
  /\ Unauthorized \in Answers /\ Failed \in Answers
  /\ TypeOK => totals \in Answers
  /\ \A a \in Answers : a \in Nat => a \in 0..MaxTotals
BY SessionAssumption DEF Answers, Unauthorized, Failed, TypeOK

\* A step registers an extension, behind the others, or none.
Registering == regs' = regs \/ \E e \in Exts : regs' = Append(regs, e)

LEMMA FirstStays ==
  ASSUME regs \in Seq(Exts), Registering
  PROVE  /\ regs' \in Seq(Exts)
         /\ \A e \in Exts : First(regs, e) => First(regs', e)
<1>1. CASE regs' = regs BY <1>1 DEF First
<1>2. ASSUME NEW e \in Exts, regs' = Append(regs, e)
      PROVE  /\ regs' \in Seq(Exts)
             /\ \A f \in Exts : First(regs, f) => First(regs', f)
  <2>1. /\ regs' \in Seq(Exts) /\ DOMAIN regs \subseteq DOMAIN regs'
        /\ \A i \in DOMAIN regs : regs'[i] = regs[i] /\ 1..i - 1 \subseteq DOMAIN regs
    BY <1>2
  <2>2. ASSUME NEW f \in Exts, First(regs, f) PROVE First(regs', f)
    <3>1. PICK i \in DOMAIN regs :
            regs[i] = f /\ \A j \in 1..i - 1 : Slots[regs[j]] # Slots[f]
      BY <2>2 DEF First
    <3>2. i \in DOMAIN regs' /\ regs'[i] = f BY <2>1, <3>1
    <3>3. \A j \in 1..i - 1 : Slots[regs'[j]] # Slots[f] BY <2>1, <3>1
    <3> QED BY <3>2, <3>3 DEF First
  <2> QED BY <2>1, <2>2
<1> QED BY <1>1, <1>2 DEF Registering

LEMMA FirstComes ==
  ASSUME regs \in Seq(Exts), FirstIsThere, Registering
  PROVE  FirstIsThere'
<1>1. /\ regs' \in Seq(Exts)
      /\ \A e \in Exts : First(regs, e) => First(regs', e)
  BY FirstStays
<1>2. CASE regs' = regs BY <1>2 DEF FirstIsThere, First
<1>3. ASSUME NEW e \in Exts, regs' = Append(regs, e) PROVE FirstIsThere'
  <2>1. /\ DOMAIN regs' = DOMAIN regs \cup {Len(regs) + 1}
        /\ DOMAIN regs = 1..Len(regs) /\ Len(regs) \in Nat
        /\ \A i \in DOMAIN regs : regs'[i] = regs[i]
        /\ regs'[Len(regs) + 1] = e
    BY <1>3
  <2>2. ASSUME NEW i \in DOMAIN regs
        PROVE  \E f \in Exts : Slots[f] = Slots[regs'[i]] /\ First(regs', f)
    BY <1>1, <2>1, <2>2 DEF FirstIsThere
  <2>3. \E f \in Exts : Slots[f] = Slots[e] /\ First(regs', f)
    <3>1. CASE \E i \in DOMAIN regs : Slots[regs[i]] = Slots[e]
      BY <1>1, <3>1 DEF FirstIsThere
    <3>2. CASE \A i \in DOMAIN regs : Slots[regs[i]] # Slots[e]
      <4>1. \A j \in 1..(Len(regs) + 1) - 1 : Slots[regs'[j]] # Slots[e]
        BY <2>1, <3>2
      <4>2. First(regs', e) BY <2>1, <4>1 DEF First
      <4> QED BY <4>2
    <3> QED BY <3>1, <3>2
  <2> QED BY <2>1, <2>2, <2>3 DEF FirstIsThere
<1> QED BY <1>2, <1>3 DEF Registering

\* Two that are first for one slot are one.
LEMMA OneIsFirst ==
  ASSUME NEW r \in Seq(Exts), NEW e \in Exts, NEW f \in Exts,
         First(r, e), First(r, f), Slots[e] = Slots[f]
  PROVE  e = f
<1>1. PICK i \in DOMAIN r : r[i] = e /\ \A j \in 1..i - 1 : Slots[r[j]] # Slots[e]
  BY DEF First
<1>2. PICK k \in DOMAIN r : r[k] = f /\ \A j \in 1..k - 1 : Slots[r[j]] # Slots[f]
  BY DEF First
<1>3. i \in Nat \ {0} /\ k \in Nat \ {0} OBVIOUS
<1>4. ~(i < k) /\ ~(k < i) BY <1>1, <1>2, <1>3
<1> QED BY <1>1, <1>2, <1>3, <1>4

\* The effects of a step that changes the gate or the registrations and not the hub.
LEMMA RenderedKeeps ==
  ASSUME SessionInv, Gated', NEW p \in [Answers -> Nat], Rendered(p),
         session' \in BOOLEAN, status' = status,
         observing => observing',
         Registering
  PROVE  Effects' /\ ModeFits' /\ NothingBefore' /\ FirstIsThere' /\ MountedOnce'
<1>1. /\ Mounted \in BOOLEAN /\ Mounted' \in BOOLEAN
  BY DEF SessionInv, TypeOK, Gated, Mounted
<1>2. Reply \in Answers
  BY AnswersTyped DEF SessionInv, Reply
<1>3. polls' \in [Answers -> Nat]
  BY <1>2, AskTyped DEF Rendered
<1>4. /\ sampler' = Mounted' /\ poller' = (Mounted' /\ status' # "connected")
      /\ addons' \in {"none", "first", "second"}
  <2>1. CASE Mounted' /\ ~Mounted
    <3>1. LayoutMounts BY <2>1 DEF Rendered
    <3> QED BY <1>1, <2>1, <3>1 DEF LayoutMounts, applyMode, pushDelivering
  <2>2. CASE Mounted /\ ~Mounted'
    <3>1. LayoutUnmounts BY <2>2 DEF Rendered
    <3> QED BY <1>1, <2>2, <3>1 DEF LayoutUnmounts
  <2>3. CASE Mounted' = Mounted
    <3>1. sampler' = sampler /\ poller' = poller /\ addons' = addons
      BY <2>3 DEF Rendered, feed
    <3>2. sampler = Mounted /\ poller = (Mounted /\ status # "connected")
      BY DEF SessionInv, FeedFits, ModeFits
    <3>3. addons \in {"none", "first", "second"} BY DEF SessionInv, TypeOK
    <3> QED BY <2>3, <3>1, <3>2, <3>3
  <2> QED BY <1>1, <2>1, <2>2, <2>3
<1>5. /\ regs' \in Seq(Exts) /\ regs \in Seq(Exts) /\ mounts \in [Exts -> Nat]
      /\ observing \in BOOLEAN /\ observing' \in BOOLEAN
  BY DEF SessionInv, TypeOK, Gated
<1>6. /\ FirstIsThere' /\ \A e \in Exts : First(regs, e) => First(regs', e)
  BY <1>5, FirstStays, FirstComes DEF SessionInv
<1>7. CASE observing'
  <2>1. mounts' = [e \in Exts |-> IF ~Mounted' THEN 0
                     ELSE IF Taken(mounts, e) \/ ~First(regs', e) THEN mounts[e] ELSE 1]
    BY <1>7 DEF Rendered, processAll, Mounts
  <2>2. mounts' \in [Exts -> Nat] BY <2>1, <1>5
  <2>3. \A e \in Exts : mounts[e] <= 1 /\ (mounts[e] > 0 => First(regs', e))
    BY <1>6 DEF SessionInv, MountedOnce
  <2>4. \A e \in Exts : mounts'[e] <= 1 /\ (mounts'[e] > 0 => Mounted' /\ First(regs', e))
    BY <2>1, <2>3, <1>5
  <2>5. \A e, f \in Exts :
          Slots[e] = Slots[f] /\ mounts'[e] > 0 /\ mounts'[f] > 0 => e = f
    BY <2>4, <1>5, OneIsFirst
  <2>6. ASSUME Mounted', NEW i \in DOMAIN regs' PROVE Taken(mounts, regs[i])'
    <3>1. PICK f \in Exts : Slots[f] = Slots[regs'[i]] /\ First(regs', f)
      BY <1>6 DEF FirstIsThere
    <3>2. CASE Taken(mounts, f)
      <4>1. PICK g \in Exts : Slots[g] = Slots[f] /\ mounts[g] > 0 BY <3>2 DEF Taken
      <4>2. Taken(mounts, g) BY <4>1 DEF Taken
      <4>3. mounts'[g] > 0 BY <2>1, <2>6, <4>1, <4>2
      <4> QED BY <3>1, <4>1, <4>3 DEF Taken
    <3>3. CASE ~Taken(mounts, f)
      <4>1. mounts'[f] = 1 BY <2>1, <2>6, <3>1, <3>3
      <4> QED BY <3>1, <4>1 DEF Taken
    <3> QED BY <3>2, <3>3
  <2>7. MountedOnce' BY <2>4, <2>5, <2>6 DEF MountedOnce
  <2> QED BY <2>2, <2>7, <1>1, <1>3, <1>4, <1>6, <1>7 DEF Effects, ModeFits, NothingBefore
<1>8. CASE ~observing'
  <2>1. mounts' = mounts /\ ~observing BY <1>8 DEF Rendered, processAll
  <2>2. \A e \in Exts : mounts'[e] = 0 BY <2>1 DEF SessionInv, NothingBefore
  <2> QED BY <2>1, <2>2, <1>1, <1>3, <1>4, <1>5, <1>6, <1>8
          DEF Effects, ModeFits, NothingBefore, MountedOnce
<1> QED BY <1>5, <1>7, <1>8

\* A status is set where the feed fits already.
LEMMA StatusSetKeeps ==
  ASSUME SessionInv, NEW st, StatusSet(st), Mounted' = Mounted
  PROVE  ModeFits' /\ sampler' \in BOOLEAN /\ poller' \in BOOLEAN
<1>1. Mounted \in BOOLEAN BY DEF SessionInv, TypeOK, Mounted
<1> QED BY <1>1 DEF SessionInv, FeedFits, ModeFits, StatusSet, applyMode, pushDelivering, TypeOK

LEMMA InitInv == Init => SessionInv
<1> SUFFICES ASSUME Init PROVE SessionInv OBVIOUS
<1>1. TypeOK
  <2>1. /\ builtIn \in BOOLEAN /\ session \in BOOLEAN /\ signal \in BOOLEAN
        /\ probed \in BOOLEAN /\ needsLogin \in BOOLEAN /\ loaded \in BOOLEAN
        /\ observing \in BOOLEAN /\ error \in BOOLEAN /\ sampler \in BOOLEAN
        /\ poller \in BOOLEAN
    BY DEF Init
  <2>2. /\ totals \in 0..MaxTotals /\ faults \in 0..MaxFaults /\ expiries \in 0..MaxExpiries
    BY SessionAssumption DEF Init
  <2>3. /\ load \in [Awaited -> Nat]
        /\ regs \in Seq(Exts) /\ mounts \in [Exts -> Nat]
        /\ polls \in [Answers -> Nat]
        /\ conn \in [Conns -> {"unused", "starting", "open", "retrying", "closed"}]
    BY DEF Init, NoExt, NoPoll, NoConn, NoLoad, Awaited
  <2>4. chan \in [Conns -> Seq({None} \cup 0..MaxTotals)]
    BY DEF Init, NoEvent
  <2> QED BY <2>1, <2>2, <2>3, <2>4 DEF Init, TypeOK
<1>2. Mounted = FALSE BY DEF Init, Mounted
<1>3. FeedFits
  BY <1>2 DEF Init, FeedFits, ConnectedMeansOpen, ModeFits, RealtimeStatusIndicator
<1>4. NothingBefore /\ FirstIsThere /\ MountedOnce
  BY <1>2 DEF Init, NothingBefore, FirstIsThere, MountedOnce, NoExt
<1> QED BY <1>1, <1>3, <1>4 DEF SessionInv

-------------------------------------------------------------------------------
(* The parts of a step.                                                    *)

\* What remains: the server, the loader's runs, the numbers and the hub.
Rest ==
  /\ builtIn \in BOOLEAN /\ session \in BOOLEAN /\ signal \in BOOLEAN
  /\ totals \in 0..MaxTotals
  /\ load \in [Awaited -> Nat]
  /\ stats \in {None} \cup 0..MaxTotals /\ error \in BOOLEAN
  /\ status \in {"idle", "connecting", "connected", "reconnecting", "disabled"}
  /\ boot \in {None} \cup Conns
  /\ conn \in [Conns -> {"unused", "starting", "open", "retrying", "closed"}]
  /\ chan \in [Conns -> Seq({None} \cup 0..MaxTotals)]
  /\ faults \in 0..MaxFaults /\ expiries \in 0..MaxExpiries

LEMMA FaultTyped == faults \in 0..MaxFaults /\ Fault => faults' \in 0..MaxFaults
BY SessionAssumption DEF Fault

LEMMA RunStarts ==
  ASSUME load \in [Awaited -> Nat], initExtensions
  PROVE  load' \in [Awaited -> Nat]
BY DEF initExtensions, Awaited

\* A step that renders and leaves the hub alone.
LEMMA GateStep ==
  ASSUME SessionInv, NEW p \in [Answers -> Nat], Rendered(p), Gated', Rest',
         status' = status, conn' = conn, observing => observing',
         Registering
  PROVE  SessionInv'
<1>1. session' \in BOOLEAN BY DEF Rest
<1>2. Effects' /\ ModeFits' /\ NothingBefore' /\ FirstIsThere' /\ MountedOnce'
  BY <1>1, RenderedKeeps
<1>3. TypeOK' BY <1>2 DEF TypeOK, Gated, Effects, Rest
<1>4. ConnectedMeansOpen'
  BY DEF SessionInv, FeedFits, ConnectedMeansOpen, RealtimeStatusIndicator
<1> QED BY <1>2, <1>3, <1>4 DEF SessionInv, FeedFits

LEMMA ScriptsAwaited ==
  /\ 0 \in Awaited
  /\ \A e \in Exts : /\ e \in Awaited /\ e # e + 1
                     /\ e < Len(Slots) => e + 1 \in Awaited
<1>1. Len(Slots) \in Nat BY SessionAssumption
<1> QED BY <1>1 DEF Exts, Awaited

LEMMA RunEnds ==
  ASSUME NEW c \in [Awaited -> Nat], NEW a \in Awaited, c[a] > 0
  PROVE  [c EXCEPT ![a] = @ - 1] \in [Awaited -> Nat]
<1>1. c[a] - 1 \in Nat OBVIOUS
<1> QED BY <1>1

LEMMA RunMoves ==
  ASSUME NEW c \in [Awaited -> Nat], NEW a \in Awaited, NEW b \in Awaited, a # b, c[a] > 0
  PROVE  /\ [c EXCEPT ![a] = @ - 1, ![b] = @ + 1] \in [Awaited -> Nat]
         /\ [c EXCEPT ![a] = @ - 1, ![b] = @ + 1][b] > 0
<1>1. c[a] - 1 \in Nat /\ c[b] + 1 \in Nat OBVIOUS
<1> QED BY <1>1

\* A script is there and another is awaited: what is on the screen stays.
LEMMA WaitStep ==
  ASSUME SessionInv, NEW e \in Exts, Registering, Rest',
         load' = [load EXCEPT ![e] = @ - 1, ![e + 1] = @ + 1],
         e < Len(Slots), load[e] > 0,
         UNCHANGED <<builtIn, server, stats, error, hub, expiries>>,
         UNCHANGED <<probed, needsLogin>>,
         UNCHANGED <<loaded, observing, mounts, feed, addons, polls>>
  PROVE  SessionInv'
<1>1. /\ regs' \in Seq(Exts) /\ FirstIsThere'
      /\ \A f \in Exts : First(regs, f) => First(regs', f)
  BY FirstStays, FirstComes DEF SessionInv, TypeOK
<1>2. TypeOK'
  BY <1>1 DEF SessionInv, TypeOK, Rest, feed
<1>3. FeedFits'
  BY DEF SessionInv, FeedFits, ConnectedMeansOpen, ModeFits, RealtimeStatusIndicator,
         Mounted, hub, feed
<1>4. load' # NoLoad
  <2>1. e \in Awaited /\ e + 1 \in Awaited /\ e # e + 1 BY ScriptsAwaited
  <2>2. load \in [Awaited -> Nat] BY DEF SessionInv, TypeOK
  <2>3. load'[e + 1] > 0 BY <2>1, <2>2, RunMoves
  <2>4. NoLoad[e + 1] = 0 BY <2>1 DEF NoLoad
  <2>5. load' = NoLoad => load'[e + 1] = 0 BY <2>4
  <2> QED BY <2>3, <2>5
<1>5. NothingBefore' BY DEF SessionInv, NothingBefore
<1>6. MountedOnce'
  BY <1>1, <1>4 DEF SessionInv, MountedOnce, Mounted, NoLoad
<1> QED BY <1>1, <1>2, <1>3, <1>5, <1>6 DEF SessionInv

\* A step that leaves the gate and the extensions alone.
LEMMA HubStep ==
  ASSUME SessionInv, UNCHANGED <<gate, regs, observing, mounts>>,
         load' = load, Effects', Rest', ModeFits',
         status' = "connected" => \E c \in Conns : conn'[c] = "open"
  PROVE  SessionInv'
<1>1. /\ probed' = probed /\ needsLogin' = needsLogin /\ loaded' = loaded
      /\ regs' = regs /\ observing' = observing /\ mounts' = mounts
  BY DEF gate
<1>2. Gated' BY <1>1 DEF SessionInv, TypeOK, Gated
<1>3. TypeOK' BY <1>2 DEF TypeOK, Gated, Effects, Rest
<1>4. ConnectedMeansOpen' BY DEF ConnectedMeansOpen, RealtimeStatusIndicator
<1>5. NothingBefore' /\ FirstIsThere' /\ MountedOnce'
  BY <1>1 DEF SessionInv, NothingBefore, FirstIsThere, MountedOnce, Mounted, First, Taken
<1> QED BY <1>3, <1>4, <1>5 DEF SessionInv, FeedFits

\* A step that leaves what the navbar shows alone as well.
LEMMA QuietStep ==
  ASSUME SessionInv, UNCHANGED <<gate, runtime, feed, addons, status>>,
         polls' \in [Answers -> Nat], Rest',
         \A c \in Conns : conn[c] = "open" => conn'[c] = "open"
  PROVE  SessionInv'
<1>1. /\ probed' = probed /\ needsLogin' = needsLogin /\ loaded' = loaded
      /\ regs' = regs /\ observing' = observing /\ mounts' = mounts /\ load' = load
      /\ sampler' = sampler /\ poller' = poller /\ addons' = addons /\ status' = status
  BY DEF gate, runtime, feed
<1>2. Effects' BY <1>1 DEF SessionInv, TypeOK, Effects
<1>3. ModeFits' BY <1>1 DEF SessionInv, FeedFits, ModeFits, Mounted
<1>4. status' = "connected" => \E c \in Conns : conn'[c] = "open"
  BY <1>1 DEF SessionInv, FeedFits, ConnectedMeansOpen
<1> QED BY <1>1, <1>2, <1>3, <1>4, HubStep DEF gate

-------------------------------------------------------------------------------
(* Every step.                                                             *)

\* The types a step starts from.
LEMMA TypedParts == SessionInv => Gated /\ Effects /\ Rest
BY DEF SessionInv, TypeOK, Gated, Effects, Rest

LEMMA GateActions ==
  ASSUME SessionInv, Probe \/ Login \/ Manifests \/ Mutation \/ \E e \in Exts : Install(e)
  PROVE  SessionInv'
<1>1. Gated /\ Effects /\ Rest BY TypedParts
<1>2. polls \in [Answers -> Nat] BY <1>1 DEF Effects
<1>3. CASE Probe
  <2>1. /\ UNCHANGED <<builtIn, server, stats, error, hub, expiries>>
        /\ UNCHANGED <<loaded, regs, observing>>
        /\ Rendered(polls) /\ probed' = TRUE
    BY <1>3 DEF Probe
  <2>2. /\ needsLogin' \in BOOLEAN
        /\ load' \in [Awaited -> Nat]
        /\ faults' \in 0..MaxFaults
    BY <1>1, <1>3, RunStarts, FaultTyped DEF Probe, Gated, Rest
  <2>3. Gated' BY <1>1, <2>1, <2>2 DEF Gated
  <2>4. Rest' BY <1>1, <2>1, <2>2 DEF Rest, server, hub
  <2> QED BY <1>1, <1>2, <2>1, <2>3, <2>4, GateStep DEF hub, Gated, Registering
<1>4. CASE Login
  <2>1. /\ UNCHANGED <<probed, loaded, regs, observing>>
        /\ UNCHANGED <<builtIn, totals, signal, stats, error, hub, budget>>
        /\ Rendered(polls) /\ session' = TRUE /\ needsLogin' = FALSE /\ initExtensions
    BY <1>4 DEF Login, handleLogin
  <2>2. load' \in [Awaited -> Nat]
    BY <1>1, <2>1, RunStarts DEF Rest
  <2>3. Gated' BY <1>1, <2>1 DEF Gated
  <2>4. Rest' BY <1>1, <2>1, <2>2 DEF Rest, hub, budget
  <2> QED BY <1>1, <1>2, <2>1, <2>3, <2>4, GateStep DEF hub, Gated, Registering
<1>5. CASE Manifests
  <2>1. /\ UNCHANGED <<builtIn, server, stats, error, hub, expiries>>
        /\ UNCHANGED <<probed, regs>>
        /\ Rendered(polls)
    BY <1>5 DEF Manifests
  <2>2. /\ needsLogin' \in BOOLEAN /\ loaded' \in BOOLEAN /\ observing' \in BOOLEAN
        /\ observing => observing'
        /\ load' \in [Awaited -> Nat]
        /\ faults' \in 0..MaxFaults
    <3>1. \A q : load[0] > 0 /\ Loaded(0, q) => load' \in [Awaited -> Nat]
      BY <1>1, ScriptsAwaited, RunEnds DEF Loaded, Rest
    <3>2. Slots # <<>> /\ load[0] > 0 /\ load' = [load EXCEPT ![0] = @ - 1, ![1] = @ + 1]
            => load' \in [Awaited -> Nat]
      <4>1. Slots # <<>> => 1 \in Awaited BY SessionAssumption DEF Awaited
      <4> QED BY <1>1, <4>1, ScriptsAwaited, RunMoves DEF Rest
    <3>3. load' \in [Awaited -> Nat] BY <1>5, <3>1, <3>2 DEF Manifests
    <3> QED BY <1>1, <1>5, <3>3, FaultTyped DEF Manifests, Loaded, onUnauthorized, Gated, Rest
  <2>3. Gated' BY <1>1, <2>1, <2>2 DEF Gated
  <2>4. Rest' BY <1>1, <2>1, <2>2 DEF Rest, server, hub
  <2> QED BY <1>1, <1>2, <2>1, <2>2, <2>3, <2>4, GateStep DEF hub, Gated, Registering
<1>6. ASSUME NEW e \in Exts, Install(e) PROVE SessionInv'
  <2>1. /\ UNCHANGED <<builtIn, server, stats, error, hub, expiries>>
        /\ UNCHANGED <<probed, needsLogin>>
        /\ load[e] > 0
    BY <1>6 DEF Install
  <2>2. Registering /\ faults' \in 0..MaxFaults
    BY <1>1, <1>6, FaultTyped DEF Install, Registering, Rest
  <2>3. regs' \in Seq(Exts) BY <1>1, <2>2, FirstStays DEF Gated
  <2>4. CASE /\ e < Len(Slots) /\ load' = [load EXCEPT ![e] = @ - 1, ![e + 1] = @ + 1]
             /\ UNCHANGED <<loaded, observing, mounts, feed, addons, polls>>
    <3>1. load' \in [Awaited -> Nat]
      <4>1. e \in Awaited /\ e + 1 \in Awaited /\ e # e + 1 BY <2>4, ScriptsAwaited
      <4> QED BY <1>1, <2>1, <2>4, <4>1, RunMoves DEF Rest
    <3>2. Rest' BY <1>1, <2>1, <2>2, <2>4, <3>1 DEF Rest, server, hub
    <3> QED BY <1>1, <2>1, <2>2, <2>4, <3>2, WaitStep
  <2>5. CASE Loaded(e, TRUE) /\ Rendered(polls)
    <3>1. /\ loaded' = TRUE /\ observing' = TRUE
          /\ load' \in [Awaited -> Nat]
      BY <1>1, <2>1, <2>5, ScriptsAwaited, RunEnds DEF Loaded, Rest
    <3>2. Gated' BY <1>1, <2>1, <2>3, <3>1 DEF Gated
    <3>3. Rest' BY <1>1, <2>1, <2>2, <3>1 DEF Rest, server, hub
    <3> QED BY <1>2, <2>1, <2>2, <2>5, <3>1, <3>2, <3>3, GateStep DEF hub
  <2> QED BY <1>6, <2>4, <2>5 DEF Install
<1>7. CASE Mutation
  <2>1. /\ UNCHANGED <<builtIn, server, gate, load, regs, observing, store, hub, feed, addons,
                       budget>>
        /\ processAll
    BY <1>7 DEF Mutation
  <2>2. Rendered(polls) BY <2>1 DEF Rendered, gate, store, Mounted
  <2>3. Gated' BY <1>1, <2>1 DEF Gated, gate
  <2>4. Rest' BY <1>1, <2>1 DEF Rest, server, store, hub, budget
  <2> QED BY <1>1, <1>2, <2>1, <2>2, <2>3, <2>4, GateStep DEF hub, Gated, Registering
<1> QED BY <1>3, <1>4, <1>5, <1>6, <1>7

\* The button's reload forgets everything.
LEMMA LogoutAction == ASSUME SessionInv, Logout PROVE SessionInv'
<1>1. Gated /\ Effects /\ Rest BY TypedParts
<1>2. Gated'
  <2>1. regs' \in Seq(Exts) BY DEF Logout
  <2> QED BY <1>1, <2>1 DEF Gated, Logout
<1>3. Effects' BY <1>1 DEF Effects, Logout, NoExt, NoPoll
<1>4. Rest'
  <2>1. expiries' \in 0..MaxExpiries BY <1>1, SessionAssumption DEF Rest, Logout
  <2>2. load' \in [Awaited -> Nat] BY DEF Logout, NoLoad, Awaited
  <2>3. /\ conn' \in [Conns -> {"unused", "starting", "open", "retrying", "closed"}]
        /\ chan' \in [Conns -> Seq({None} \cup 0..MaxTotals)]
    BY DEF Logout, NoConn, NoEvent
  <2> QED BY <1>1, <2>1, <2>2, <2>3 DEF Rest, Logout
<1>5. TypeOK' BY <1>2, <1>3, <1>4 DEF TypeOK, Gated, Effects, Rest
<1>6. Mounted' = FALSE BY DEF Logout, Mounted
<1>7. FeedFits'
  BY <1>6 DEF Logout, FeedFits, ConnectedMeansOpen, ModeFits, RealtimeStatusIndicator
<1>8. NothingBefore' /\ FirstIsThere' /\ MountedOnce'
  BY <1>6 DEF Logout, NothingBefore, FirstIsThere, MountedOnce, NoExt
<1> QED BY <1>5, <1>7, <1>8 DEF SessionInv

LEMMA StatisticsActions ==
  ASSUME SessionInv, Poll \/ Broadcast \/ (\E a \in Answers : fetchStats(a))
                     \/ \E c \in Conns : bridgeEvent(c)
  PROVE  SessionInv'
<1>1. Gated /\ Effects /\ Rest BY TypedParts
<1>2. polls \in [Answers -> Nat] BY <1>1 DEF Effects
<1>3. CASE Poll
  <2>1. UNCHANGED <<builtIn, server, gate, runtime, stats, error, hub, feed, addons, expiries>>
    BY <1>3 DEF Poll
  <2>2. (IF session THEN totals ELSE Unauthorized) \in Answers
    BY AnswersTyped DEF SessionInv
  <2>3. polls' \in [Answers -> Nat] /\ faults' \in 0..MaxFaults
    BY <1>1, <1>2, <1>3, <2>2, AskTyped, AnswersTyped, FaultTyped DEF Poll, Rest
  <2>4. Rest' BY <1>1, <2>1, <2>3 DEF Rest, server, runtime, hub
  <2> QED BY <2>1, <2>3, <2>4, QuietStep DEF hub
<1>4. CASE Broadcast
  <2>1. UNCHANGED <<builtIn, session, totals, gate, runtime, store, status, boot, conn,
                    feed, addons, expiries>> /\ signal' = FALSE
    BY <1>4 DEF Broadcast
  <2>2. PICK payload \in {None, totals} :
          /\ payload = None => Fault
          /\ payload # None => UNCHANGED faults
          /\ chan' = [c \in Conns |-> IF conn[c] = "open" THEN <<payload>> ELSE <<>>]
    BY <1>4 DEF Broadcast
  <2>3. faults' \in 0..MaxFaults BY <1>1, <2>2, FaultTyped DEF Rest
  <2>4. payload \in {None} \cup 0..MaxTotals BY <1>1 DEF Rest
  <2>5. /\ <<payload>> \in Seq({None} \cup 0..MaxTotals)
        /\ <<>> \in Seq({None} \cup 0..MaxTotals)
    BY <2>4
  <2>6. chan' \in [Conns -> Seq({None} \cup 0..MaxTotals)] BY <2>2, <2>5
  <2>7. Rest' BY <1>1, <2>1, <2>3, <2>6 DEF Rest, runtime, store
  <2> QED BY <1>2, <2>1, <2>7, QuietStep DEF store
<1>5. ASSUME NEW a \in Answers, fetchStats(a) PROVE SessionInv'
  <2> DEFINE p == [polls EXCEPT ![a] = @ - 1]
  <2>1. /\ UNCHANGED <<builtIn, server, hub, budget>>
        /\ UNCHANGED <<probed, loaded, load, regs, observing>>
        /\ Rendered(p) /\ polls[a] > 0
    BY <1>5 DEF fetchStats
  <2>2. p \in [Answers -> Nat] BY <1>2, <2>1
  <2>3. /\ needsLogin' \in BOOLEAN /\ error' \in BOOLEAN
        /\ stats' \in {None} \cup 0..MaxTotals
    BY <1>1, <1>5, AnswersTyped DEF fetchStats, onUnauthorized, Gated, Rest
  <2>4. Gated' BY <1>1, <2>1, <2>3 DEF Gated
  <2>5. Rest' BY <1>1, <2>1, <2>3 DEF Rest, server, hub, budget
  <2> HIDE DEF p
  <2> QED BY <1>1, <2>1, <2>2, <2>4, <2>5, GateStep DEF hub, Gated, Registering
<1>6. ASSUME NEW c \in Conns, bridgeEvent(c) PROVE SessionInv'
  <2>1. UNCHANGED <<builtIn, server, gate, runtime, polls, status, boot, conn, feed,
                    addons, budget>>
    BY <1>6 DEF bridgeEvent
  <2>2. chan[c] \in Seq({None} \cup 0..MaxTotals) /\ chan[c] # <<>>
    BY <1>1, <1>6 DEF Rest, bridgeEvent
  <2>3. /\ Head(chan[c]) \in {None} \cup 0..MaxTotals
        /\ Tail(chan[c]) \in Seq({None} \cup 0..MaxTotals)
    BY <2>2
  <2>4. chan' \in [Conns -> Seq({None} \cup 0..MaxTotals)]
    BY <1>1, <1>6, <2>3 DEF Rest, bridgeEvent
  <2>5. stats' \in {None} \cup 0..MaxTotals /\ error' \in BOOLEAN
    BY <1>1, <1>6, <2>3 DEF Rest, bridgeEvent
  <2>6. Rest' BY <1>1, <2>1, <2>4, <2>5 DEF Rest, server, runtime, budget
  <2> QED BY <1>2, <2>1, <2>6, QuietStep
<1> QED BY <1>3, <1>4, <1>5, <1>6

\* Mounting finds the connection up, and asks for none; or builds one, and polls until then.
LEMMA Connecting ==
  ASSUME SessionInv, NEW push \in BOOLEAN, connectIfEnabled(push), Mounted' = Mounted
  PROVE  /\ ModeFits' /\ sampler' \in BOOLEAN /\ poller' \in BOOLEAN
         /\ boot' \in {None} \cup Conns
         /\ status' \in {"idle", "connecting", "connected", "reconnecting", "disabled"}
         /\ conn' \in [Conns -> {"unused", "starting", "open", "retrying", "closed"}]
         /\ chan' = chan
         /\ status' = "connected" => \E c \in Conns : conn'[c] = "open"
<1>1. Gated /\ Effects /\ Rest BY TypedParts
<1>2. CASE boot # None \/ status \in {"connected", "connecting"}
  <2>1. UNCHANGED <<hub, feed>> BY <1>2 DEF connectIfEnabled
  <2> QED BY <1>1, <2>1
          DEF hub, feed, Rest, Effects, SessionInv, FeedFits, ModeFits, ConnectedMeansOpen
<1>3. CASE ~(boot # None \/ status \in {"connected", "connecting"}) /\ ~push
  <2>1. StatusSet("disabled") /\ UNCHANGED <<boot, conn, chan>> BY <1>3 DEF connectIfEnabled
  <2>2. status' = "disabled" BY <2>1 DEF StatusSet
  <2> QED BY <1>1, <2>1, <2>2, StatusSetKeeps DEF Rest
<1>4. CASE ~(boot # None \/ status \in {"connected", "connecting"}) /\ push
  <2>1. PICK c \in Conns : /\ conn' = [conn EXCEPT ![c] = "starting"] /\ boot' = c
                           /\ StatusSet("connecting") /\ UNCHANGED chan
    BY <1>4 DEF connectIfEnabled
  <2>2. status' = "connecting" BY <2>1 DEF StatusSet
  <2>3. conn' \in [Conns -> {"unused", "starting", "open", "retrying", "closed"}]
    BY <1>1, <2>1 DEF Rest
  <2> QED BY <1>1, <2>1, <2>2, <2>3, StatusSetKeeps
<1> QED BY <1>2, <1>3, <1>4

LEMMA HubActions ==
  ASSUME SessionInv, Addons \/ Started \/ \E c \in Conns : Drop(c) \/ Retried(c)
  PROVE  SessionInv'
<1>1. Gated /\ Effects /\ Rest BY TypedParts
<1>2. CASE Addons
  <2>1. /\ UNCHANGED <<builtIn, server, stats, error, expiries>>
        /\ UNCHANGED <<probed, loaded, load, regs, observing>>
    BY <1>2 DEF Addons
  <2>2. CASE /\ ~session /\ builtIn /\ needsLogin' = TRUE /\ Rendered(polls)
             /\ UNCHANGED <<hub, faults>>
    <3>1. Gated' BY <1>1, <2>1, <2>2 DEF Gated
    <3>2. Rest' BY <1>1, <2>1, <2>2 DEF Rest, server, hub
    <3>3. polls \in [Answers -> Nat] BY <1>1 DEF Effects
    <3> QED BY <1>1, <2>1, <2>2, <3>1, <3>2, <3>3, GateStep DEF hub, Gated, Registering
  <2>3. CASE /\ UNCHANGED <<needsLogin, mounts, polls>>
             /\ addons' \in {"none", "second"} /\ UNCHANGED <<hub, feed, faults>>
    <3>1. Rest' BY <1>1, <2>1, <2>3 DEF Rest, server, hub
    <3>2. Effects' BY <1>1, <2>1, <2>3 DEF Effects, feed
    <3>3. ModeFits'
      BY <2>1, <2>3 DEF SessionInv, FeedFits, ModeFits, Mounted, feed, hub
    <3>4. status' = "connected" => \E c \in Conns : conn'[c] = "open"
      BY <2>3 DEF SessionInv, FeedFits, ConnectedMeansOpen, hub
    <3> QED BY <2>1, <2>3, <3>1, <3>2, <3>3, <3>4, HubStep DEF gate
  <2>4. ASSUME UNCHANGED <<needsLogin, mounts, polls>>, addons' = "none",
               faults' = faults \/ Fault,
               NEW push \in BOOLEAN, connectIfEnabled(push)
        PROVE  SessionInv'
    <3>1. Mounted' = Mounted BY <2>1, <2>4 DEF Mounted
    <3>2. /\ ModeFits' /\ sampler' \in BOOLEAN /\ poller' \in BOOLEAN
          /\ boot' \in {None} \cup Conns
          /\ status' \in {"idle", "connecting", "connected", "reconnecting", "disabled"}
          /\ conn' \in [Conns -> {"unused", "starting", "open", "retrying", "closed"}]
          /\ chan' = chan
          /\ status' = "connected" => \E c \in Conns : conn'[c] = "open"
      BY <2>4, <3>1, Connecting
    <3>3. faults' \in 0..MaxFaults BY <1>1, <2>4, FaultTyped DEF Rest
    <3>4. Rest' BY <1>1, <2>1, <3>2, <3>3 DEF Rest, server
    <3>5. Effects' BY <1>1, <2>4, <3>2 DEF Effects
    <3> QED BY <2>1, <2>4, <3>2, <3>4, <3>5, HubStep DEF gate
  <2> QED BY <1>2, <2>2, <2>3, <2>4 DEF Addons
<1>3. ASSUME NEW st \in {"connected", "disabled", "reconnecting"}, StatusSet(st),
             UNCHANGED <<builtIn, server, gate, runtime, store, addons, expiries>>,
             boot' \in {None} \cup Conns,
             conn' \in [Conns -> {"unused", "starting", "open", "retrying", "closed"}],
             chan' \in [Conns -> Seq({None} \cup 0..MaxTotals)],
             faults' = faults \/ Fault,
             st = "connected" => \E c \in Conns : conn'[c] = "open"
      PROVE  SessionInv'
  <2>1. Mounted' = Mounted BY <1>3 DEF Mounted, gate
  <2>2. ModeFits' /\ sampler' \in BOOLEAN /\ poller' \in BOOLEAN
    BY <1>3, <2>1, StatusSetKeeps
  <2>3. status' = st BY <1>3 DEF StatusSet
  <2>4. faults' \in 0..MaxFaults BY <1>1, <1>3, FaultTyped DEF Rest
  <2>5. Rest' BY <1>1, <1>3, <2>3, <2>4 DEF Rest, server, runtime, store
  <2>6. Effects' BY <1>1, <1>3, <2>2 DEF Effects, runtime, store
  <2> QED BY <1>3, <2>2, <2>3, <2>5, <2>6, HubStep DEF gate, runtime
<1>4. CASE Started
  <2>1. /\ boot \in Conns /\ boot' = None
        /\ UNCHANGED <<builtIn, server, gate, runtime, store, chan, addons, expiries>>
    BY <1>1, <1>4 DEF Started, Rest
  <2>2. CASE conn' = [conn EXCEPT ![boot] = "open"] /\ StatusSet("connected") /\ UNCHANGED faults
    BY <1>1, <1>3, <2>1, <2>2 DEF Rest
  <2>3. CASE /\ conn' = [conn EXCEPT ![boot] = "closed"] /\ StatusSet("disabled")
             /\ faults' = faults \/ Fault
    BY <1>1, <1>3, <2>1, <2>3 DEF Rest
  <2> QED BY <1>4, <2>2, <2>3 DEF Started
<1>5. ASSUME NEW c \in Conns, Drop(c) PROVE SessionInv'
  <2>1. chan' \in [Conns -> Seq({None} \cup 0..MaxTotals)]
    <3>1. <<>> \in Seq({None} \cup 0..MaxTotals) OBVIOUS
    <3> QED BY <1>1, <1>5, <3>1 DEF Rest, Drop
  <2> QED BY <1>1, <1>3, <1>5, <2>1 DEF Drop, Rest
<1>6. ASSUME NEW c \in Conns, Retried(c) PROVE SessionInv'
  <2>1. /\ UNCHANGED <<builtIn, server, gate, runtime, store, boot, chan, addons, budget>>
        /\ faults' = faults /\ expiries' = expiries
    BY <1>6 DEF Retried, budget
  <2>2. CASE conn' = [conn EXCEPT ![c] = "open"] /\ StatusSet("connected")
    BY <1>1, <1>3, <2>1, <2>2 DEF Rest
  <2>3. CASE conn' = [conn EXCEPT ![c] = "closed"] /\ StatusSet("disabled")
    BY <1>1, <1>3, <2>1, <2>3 DEF Rest
  <2> QED BY <1>6, <2>2, <2>3 DEF Retried
<1> QED BY <1>2, <1>4, <1>5, <1>6

LEMMA WorldActions ==
  ASSUME SessionInv, Finish \/ Expire \/ UNCHANGED vars PROVE SessionInv'
<1>1. Gated /\ Effects /\ Rest BY TypedParts
<1>2. CASE Finish
  <2>1. totals' \in 0..MaxTotals BY <1>1, <1>2, SessionAssumption DEF Finish, Rest
  <2>2. Rest' BY <1>1, <1>2, <2>1 DEF Finish, Rest, runtime, store, hub, budget
  <2> QED BY <1>1, <1>2, <2>2, QuietStep DEF Finish, Effects, store, hub
<1>3. CASE Expire
  <2>1. expiries' \in 0..MaxExpiries BY <1>1, <1>3, SessionAssumption DEF Expire, Rest
  <2>2. Rest' BY <1>1, <1>3, <2>1 DEF Expire, Rest, runtime, store, hub
  <2> QED BY <1>1, <1>3, <2>2, QuietStep DEF Expire, Effects, store, hub
<1>4. CASE UNCHANGED vars
  <2>1. Rest' BY <1>1, <1>4 DEF vars, Rest, server, runtime, store, hub, budget
  <2> QED BY <1>1, <1>4, <2>1, QuietStep DEF vars, Effects, store, hub
<1> QED BY <1>2, <1>3, <1>4

LEMMA StepInv == SessionInv /\ [Next]_vars => SessionInv'
<1> SUFFICES ASSUME SessionInv, [Next]_vars PROVE SessionInv' OBVIOUS
<1> QED BY GateActions, LogoutAction, StatisticsActions, HubActions, WorldActions DEF Next

-------------------------------------------------------------------------------
\* App, the loader, the stores and the feed keep their types, for any tab.
THEOREM TypeCorrect == Spec => []TypeOK
<1>1. SessionInv => TypeOK BY DEF SessionInv
<1> QED BY <1>1, InitInv, StepInv, PTL DEF Spec

\* However connections, boots that outlive their layout, logins and expiries interleave,
\* the tab polls exactly when its layout is up and the hub does not push, and says "Live"
\* only while a connection is open.
THEOREM FeedFitsHub == Spec => []FeedFits
<1>1. SessionInv => FeedFits BY DEF SessionInv
<1> QED BY <1>1, InitInv, StepInv, PTL DEF Spec

\* However often the extensions are loaded again and whichever scripts fail, a slot holds
\* one mount at most, that of the extension that registered for it before the others, and
\* holds one when no run of the loader is under way and anybody registered for it.
THEOREM ExtensionsMountOnce == Spec => []MountedOnce
<1>1. SessionInv => MountedOnce BY DEF SessionInv
<1> QED BY <1>1, InitInv, StepInv, PTL DEF Spec
=============================================================================
