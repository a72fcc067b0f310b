----------------------------- MODULE TraceGraph -----------------------------
(***************************************************************************)
(* The trace page of the dashboard: buildGraph turns the jobs of one trace *)
(* into boxes and arrows, hands a smaller graph to the layout library, and *)
(* places the boxes by its answer; the page fades what does not belong to  *)
(* the arrow under the mouse.                                              *)
(*                                                                         *)
(* A message or batch with children in the trace is drawn as a group box   *)
(* around them, and only the group takes part in the layout.  The library  *)
(* (dagre) is external: it answers for the nodes it was given, keeps those *)
(* of one column nodesep apart and columns ranksep apart, and puts the end *)
(* of an edge to the right of its start.                                   *)
(***************************************************************************)
EXTENDS Integers, FiniteSets

CONSTANTS
  Id,         \* ids of jobs
  NoId,       \* null
  NoTrace,    \* nothing loaded yet
  Trace       \* the answers of GET trace/{traceId}

Kind == {"Job", "Message", "Batch"}

ASSUME TraceAssumption ==
  /\ NoId \notin Id /\ NoTrace \notin Trace
  /\ \A t \in Trace :
       /\ t.jobs \in SUBSET Id /\ IsFiniteSet(t.jobs)
       /\ t.kind \in [t.jobs -> Kind]
       /\ t.parent \in [t.jobs -> Id \cup {NoId}]
       /\ t.spawnedBy \in [t.jobs -> Id \cup {NoId}]

VARIABLES
  trace,        \* the answer on show
  failed,       \* the request failed
  hoveredEdge   \* the id of the edge under the mouse

vars == <<trace, failed, hoveredEdge>>

\* Pixels.
NODE_WIDTH == 220
NODE_HEIGHT == 72
GROUP_PADDING == 30
CHILD_GAP == 16
nodesep == 40
ranksep == 120

----------------------------------------------------------------------------
(* Which jobs are groups.                                                  *)

IsParallelChild(t, c, p) == t.kind[p] \in {"Batch", "Message"} /\ t.kind[c] = "Job"

HasParent(t, j) == t.parent[j] \in t.jobs
ChildrenInContainer(t) == {c \in t.jobs : HasParent(t, c) /\ IsParallelChild(t, c, t.parent[c])}
Containers(t) == {t.parent[c] : c \in ChildrenInContainer(t)}
ChildrenOf(t, p) == {c \in ChildrenInContainer(t) : t.parent[c] = p}

----------------------------------------------------------------------------
(* Boxes and arrows.                                                       *)

Single(j) == [type |-> "traceNode", of |-> j]
Group(j) == [type |-> "group", of |-> j]

Nodes(t) == {Single(j) : j \in t.jobs \ Containers(t)} \cup {Group(p) : p \in Containers(t)}

\* Mutant: a container is always a group, whoever asks.
ResolveIdOfChild(t, j) == IF j \in ChildrenInContainer(t) THEN Group(t.parent[j]) ELSE Single(j)

ResolveId(t, j) ==
  IF j \in Containers(t) THEN Group(j)
  ELSE IF j \in ChildrenInContainer(t) THEN Group(t.parent[j])
  ELSE Single(j)

\* The far end of a spawned-by arrow: the child itself, even inside its group.
SpawnerBox(t, j) == IF j \in Containers(t) THEN Group(j) ELSE Single(j)

HasSpawner(t, j) ==
  /\ t.spawnedBy[j] \in t.jobs
  /\ t.spawnedBy[j] # t.parent[j]
  /\ t.parent[j] = NoId

Edge(k, j, from, to) == [id |-> <<k, j>>, source |-> from, target |-> to]

\* Arrows to a box, a group's or a job's.
ContainerEdges(t) ==
  {Edge("p", c, ResolveId(t, t.parent[c]), Group(c)) : c \in {d \in Containers(t) : HasParent(t, d)}}
  \cup {Edge("s", c, SpawnerBox(t, t.spawnedBy[c]), Group(c)) : c \in {d \in Containers(t) : HasSpawner(t, d)}}

Alone(t) == t.jobs \ (Containers(t) \cup ChildrenInContainer(t))
JobEdges(t) ==
  {Edge("p", j, ResolveId(t, t.parent[j]), Single(j)) : j \in {i \in Alone(t) : HasParent(t, i)}}
  \cup {Edge("s", j, SpawnerBox(t, t.spawnedBy[j]), Single(j)) : j \in {i \in Alone(t) : HasSpawner(t, i)}}

Edges(t) == ContainerEdges(t) \cup JobEdges(t)

----------------------------------------------------------------------------
(* The layout.                                                             *)

DagreNodes(t) == t.jobs \ ChildrenInContainer(t)

\* A column of n children, and what is reserved for a node of the layout.
Stack(n) == n * NODE_HEIGHT + (n - 1) * CHILD_GAP
\* Mutant: room for the children and not for the frame.
ReservedForChildren(t, j) ==
  LET n == Cardinality(ChildrenOf(t, j)) IN IF n > 0 THEN Stack(n) ELSE NODE_HEIGHT

Reserved(t, j) ==
  LET n == Cardinality(ChildrenOf(t, j))
  IN  IF n > 0 THEN Stack(n) + GROUP_PADDING * 2 + 30 ELSE NODE_HEIGHT

\* Mutant: the spawner is taken as it is, though it may be in a group.
SpawnerItself(t, j) == t.spawnedBy[j]

SpawnerPlaced(t, j) ==
  IF t.spawnedBy[j] \in ChildrenInContainer(t) THEN t.parent[t.spawnedBy[j]] ELSE t.spawnedBy[j]

ParentEdges(t) == {<<t.parent[j], j>> : j \in {i \in DagreNodes(t) : HasParent(t, i)}}
SpawnEdges(t) ==
  {e \in {<<SpawnerPlaced(t, j), j>> : j \in {i \in DagreNodes(t) : HasSpawner(t, i)}} :
     e[1] \in DagreNodes(t) /\ e[2] \in DagreNodes(t)}
DagreEdges(t) == ParentEdges(t) \cup SpawnEdges(t)

\* What is drawn around the centre dagre gave a node: half a height, and how far a group
\* reaches beyond the width that was reserved.
Drawn(t, j) == IF j \in Containers(t) THEN Stack(Cardinality(ChildrenOf(t, j))) + 2 * GROUP_PADDING ELSE NODE_HEIGHT
Beyond(t, j) == IF j \in Containers(t) THEN GROUP_PADDING ELSE 0

\* The node of the layout a box was placed by.
Placed(t, n) ==
  IF n.type = "traceNode" /\ n.of \in ChildrenInContainer(t) THEN t.parent[n.of] ELSE n.of

----------------------------------------------------------------------------
(* The page.                                                               *)

EdgeIds(t) == {e.id : e \in Edges(t)}
EdgeOf(t, i) == CHOOSE e \in Edges(t) : e.id = i
Box(t, n) == IF n.type = "traceNode" /\ n.of \in ChildrenInContainer(t) THEN {Group(t.parent[n.of])} ELSE {}

Connected(t, ends) ==
  ends \cup (UNION {Box(t, n) : n \in ends})
       \cup {Single(c) : c \in {d \in ChildrenInContainer(t) : Group(t.parent[d]) \in ends}}

\* The boxes drawn in full.
Bright(t, i) ==
  IF i \in EdgeIds(t) THEN Connected(t, {EdgeOf(t, i).source, EdgeOf(t, i).target}) ELSE Nodes(t)

Shown == trace # NoTrace

Init == trace = NoTrace /\ failed = FALSE /\ hoveredEdge = NoId

Load ==
  /\ ~Shown /\ ~failed
  /\ \/ trace' \in Trace /\ UNCHANGED failed
     \/ failed' = TRUE /\ UNCHANGED trace
  /\ UNCHANGED hoveredEdge

HoverEdge == Shown /\ hoveredEdge' \in EdgeIds(trace) /\ UNCHANGED <<trace, failed>>
Unhover == hoveredEdge # NoId /\ hoveredEdge' = NoId /\ UNCHANGED <<trace, failed>>

Next == Load \/ HoverEdge \/ Unhover
Spec == Init /\ [][Next]_vars

----------------------------------------------------------------------------
(* Properties.                                                             *)

\* An arrow joins two boxes that are drawn: whichever of the two passes makes it, and
\* whatever is known of its ends, it never names a job that was turned into a group.
EdgesJoinNodes == Shown => \A e \in Edges(trace) : {e.source, e.target} \subseteq Nodes(trace)

\* Arrows run from left to right: what an arrow joins, an edge of the layout joins too,
\* though the two are computed apart.  Left out are the continuations of a single child of
\* a batch, whose edge in the layout ends at a node nobody gave a size.
ArrowsRunRight ==
  Shown => \A e \in Edges(trace) :
    \/ <<Placed(trace, e.source), Placed(trace, e.target)>> \in DagreEdges(trace)
    \/ e.id[1] = "p" /\ trace.parent[e.id[2]] \in ChildrenInContainer(trace)

\* The page is drawn without an exception and without overlap: every box is placed by a
\* node the layout was given, and what is drawn around it leaves the gaps of the layout.
BoxesApart ==
  Shown =>
    /\ \A n \in Nodes(trace) : Placed(trace, n) \in DagreNodes(trace)
    /\ \A i, j \in DagreNodes(trace) : i # j =>
         /\ Drawn(trace, i) + Drawn(trace, j) =< Reserved(trace, i) + Reserved(trace, j) + 2 * nodesep
         /\ Beyond(trace, i) + Beyond(trace, j) < ranksep

\* Fading never hides the frame of a box that is drawn in full, nor an end of the arrow
\* under the mouse.
BrightInFrame ==
  Shown /\ hoveredEdge # NoId =>
    /\ \A n \in Bright(trace, hoveredEdge) : Box(trace, n) \subseteq Bright(trace, hoveredEdge)
    /\ {EdgeOf(trace, hoveredEdge).source, EdgeOf(trace, hoveredEdge).target} \subseteq Bright(trace, hoveredEdge)

\* Both: nothing that is drawn is lost, under another box or by fading.
PictureIsWhole == BoxesApart /\ BrightInFrame
=============================================================================
