-------------------------- MODULE QueryPages_proofs --------------------------
(***************************************************************************)
(* For every set of traces what the trace page draws; and for any jobs,    *)
(* types, states, rows and page sizes, and any number of versions and      *)
(* commands, what the pages behind the query cache show of the commands    *)
(* given from them.                                                        *)
(*                                                                         *)
(* An entry of the cache is Good for a version when neither the fetch      *)
(* under way nor data that counts as valid is older.  An invalidation      *)
(* makes every entry good for the version the server has by then, unless   *)
(* it leaves a fetch alone that is under way.                              *)
(***************************************************************************)
EXTENDS QueryPages, SequenceTheorems, FiniteSetTheorems, TLAPS

-------------------------------------------------------------------------------
(* The trace page: what TraceGraph draws, for every set of traces.         *)

\* The members of a group are jobs of the trace, and so is what the group stands for.
LEMMA MembersAreJobs ==
  ASSUME NEW t \in Trace, NEW c \in ChildrenInContainer(t)
  PROVE  /\ c \in t.jobs /\ t.parent[c] \in t.jobs /\ t.parent[c] \in Containers(t)
         /\ t.kind[c] = "Job" /\ t.kind[t.parent[c]] # "Job"
<1>1. c \in t.jobs /\ HasParent(t, c) /\ IsParallelChild(t, c, t.parent[c])
  BY DEF ChildrenInContainer
<1> QED BY <1>1 DEF HasParent, IsParallelChild, Containers

\* No job is a group and a member of one: a group is no job of its own.
LEMMA GroupsAreNoMembers ==
  ASSUME NEW t \in Trace, NEW p \in Containers(t)
  PROVE  p \in t.jobs /\ p \notin ChildrenInContainer(t)
<1>1. PICK c \in ChildrenInContainer(t) : p = t.parent[c]
  BY DEF Containers
<1>2. p \in t.jobs /\ t.kind[p] # "Job"
  BY <1>1, MembersAreJobs
<1> QED BY <1>2, MembersAreJobs

\* The box that stands for a job as the end of an arrow is drawn.
LEMMA BoxesAreDrawn ==
  ASSUME NEW t \in Trace, NEW j \in t.jobs
  PROVE  /\ ResolveId(t, j) \in Nodes(t) /\ SpawnerBox(t, j) \in Nodes(t)
         /\ j \in Containers(t) => Group(j) \in Nodes(t)
         /\ j \notin Containers(t) => Single(j) \in Nodes(t)
<1>1. j \in Containers(t) => Group(j) \in Nodes(t)
  BY DEF Nodes
<1>2. j \notin Containers(t) => Single(j) \in Nodes(t)
  BY DEF Nodes
<1>3. SpawnerBox(t, j) \in Nodes(t)
  BY <1>1, <1>2 DEF SpawnerBox
<1>4. ASSUME j \in ChildrenInContainer(t) PROVE Group(t.parent[j]) \in Nodes(t)
  <2>1. t.parent[j] \in Containers(t)
    BY <1>4, MembersAreJobs
  <2> QED BY <2>1 DEF Nodes
<1>5. ResolveId(t, j) \in Nodes(t)
  BY <1>1, <1>2, <1>4 DEF ResolveId
<1> QED BY <1>1, <1>2, <1>3, <1>5

\* Every arrow is one of four: a continuation or a spawn, to a group or to a job.
LEMMA ArrowShape ==
  ASSUME NEW t \in Trace, NEW e \in Edges(t)
  PROVE  \E j \in t.jobs :
           /\ j \notin ChildrenInContainer(t)
           /\ \/ j \in Containers(t) /\ e.target = Group(j)
              \/ j \notin Containers(t) /\ e.target = Single(j)
           /\ \/ HasParent(t, j) /\ e = Edge("p", j, ResolveId(t, t.parent[j]), e.target)
              \/ HasSpawner(t, j) /\ e = Edge("s", j, SpawnerBox(t, t.spawnedBy[j]), e.target)
<1>1. CASE e \in ContainerEdges(t)
  <2>1. PICK c \in Containers(t) :
          \/ HasParent(t, c) /\ e = Edge("p", c, ResolveId(t, t.parent[c]), Group(c))
          \/ HasSpawner(t, c) /\ e = Edge("s", c, SpawnerBox(t, t.spawnedBy[c]), Group(c))
    BY <1>1 DEF ContainerEdges
  <2>2. e.target = Group(c)
    BY <2>1 DEF Edge
  <2>3. c \in t.jobs /\ c \notin ChildrenInContainer(t)
    BY GroupsAreNoMembers
  <2> QED BY <2>1, <2>2, <2>3
<1>2. CASE e \in JobEdges(t)
  <2>1. PICK j \in Alone(t) :
          \/ HasParent(t, j) /\ e = Edge("p", j, ResolveId(t, t.parent[j]), Single(j))
          \/ HasSpawner(t, j) /\ e = Edge("s", j, SpawnerBox(t, t.spawnedBy[j]), Single(j))
    BY <1>2 DEF JobEdges
  <2>2. e.target = Single(j)
    BY <2>1 DEF Edge
  <2>3. j \in t.jobs /\ j \notin ChildrenInContainer(t) /\ j \notin Containers(t)
    BY DEF Alone
  <2> QED BY <2>1, <2>2, <2>3
<1> QED BY <1>1, <1>2 DEF Edges

\* The page shows an answer or nothing.
LEMMA ShowsAnAnswer == Spec => [](trace \in Trace \cup {NoTrace})
<1>1. Init => trace \in Trace \cup {NoTrace}
  BY DEF Init
<1>2. trace \in Trace \cup {NoTrace} /\ [Next]_vars => (trace \in Trace \cup {NoTrace})'
  BY DEF Next, Load, HoverEdge, Unhover, vars
<1> QED BY <1>1, <1>2, PTL DEF Spec

LEMMA ArrowsOfATrace ==
  ASSUME NEW t \in Trace, NEW e \in Edges(t)
  PROVE  {e.source, e.target} \subseteq Nodes(t)
<1>1. PICK j \in t.jobs :
        /\ \/ j \in Containers(t) /\ e.target = Group(j)
           \/ j \notin Containers(t) /\ e.target = Single(j)
        /\ \/ HasParent(t, j) /\ e = Edge("p", j, ResolveId(t, t.parent[j]), e.target)
           \/ HasSpawner(t, j) /\ e = Edge("s", j, SpawnerBox(t, t.spawnedBy[j]), e.target)
  BY ArrowShape
<1>2. e.target \in Nodes(t)
  BY <1>1, BoxesAreDrawn
<1>3. CASE HasParent(t, j) /\ e = Edge("p", j, ResolveId(t, t.parent[j]), e.target)
  <2>1. e.source = ResolveId(t, t.parent[j]) /\ t.parent[j] \in t.jobs
    BY <1>3 DEF Edge, HasParent
  <2> QED BY <1>2, <2>1, BoxesAreDrawn
<1>4. CASE HasSpawner(t, j) /\ e = Edge("s", j, SpawnerBox(t, t.spawnedBy[j]), e.target)
  <2>1. e.source = SpawnerBox(t, t.spawnedBy[j]) /\ t.spawnedBy[j] \in t.jobs
    BY <1>4 DEF Edge, HasSpawner
  <2> QED BY <1>2, <2>1, BoxesAreDrawn
<1> QED BY <1>1, <1>3, <1>4

\* Whatever trace is loaded, and however its jobs are related, an arrow joins boxes that
\* are drawn.
THEOREM ArrowsJoinBoxes == Spec => []EdgesJoinNodes
<1>1. trace \in Trace \cup {NoTrace} => EdgesJoinNodes
  BY ArrowsOfATrace DEF EdgesJoinNodes, Shown
<1> QED BY <1>1, ShowsAnAnswer, PTL

LEMMA ArrowsAreLaidOut ==
  ASSUME NEW t \in Trace, NEW e \in Edges(t)
  PROVE  \/ <<Placed(t, e.source), Placed(t, e.target)>> \in DagreEdges(t)
         \/ e.id[1] = "p" /\ t.parent[e.id[2]] \in ChildrenInContainer(t)
<1>1. PICK j \in t.jobs :
        /\ j \notin ChildrenInContainer(t)
        /\ \/ j \in Containers(t) /\ e.target = Group(j)
           \/ j \notin Containers(t) /\ e.target = Single(j)
        /\ \/ HasParent(t, j) /\ e = Edge("p", j, ResolveId(t, t.parent[j]), e.target)
           \/ HasSpawner(t, j) /\ e = Edge("s", j, SpawnerBox(t, t.spawnedBy[j]), e.target)
  BY ArrowShape
<1>2. Placed(t, e.target) = j
  BY <1>1 DEF Placed, Group, Single
<1>3. j \in DagreNodes(t)
  BY <1>1 DEF DagreNodes
<1>4. CASE HasParent(t, j) /\ e = Edge("p", j, ResolveId(t, t.parent[j]), e.target)
  <2>1. e.source = ResolveId(t, t.parent[j]) /\ e.id = <<"p", j>>
    BY <1>4 DEF Edge
  <2>2. <<t.parent[j], j>> \in DagreEdges(t)
    BY <1>3, <1>4 DEF DagreEdges, ParentEdges
  <2>3. CASE t.parent[j] \in Containers(t)
    <3>1. Placed(t, e.source) = t.parent[j]
      BY <2>1, <2>3 DEF ResolveId, Placed, Group
    <3> QED BY <1>2, <2>2, <3>1
  <2>4. CASE t.parent[j] \notin Containers(t) /\ t.parent[j] \notin ChildrenInContainer(t)
    <3>1. Placed(t, e.source) = t.parent[j]
      BY <2>1, <2>4 DEF ResolveId, Placed, Single
    <3> QED BY <1>2, <2>2, <3>1
  <2>5. CASE t.parent[j] \in ChildrenInContainer(t)
    BY <2>1, <2>5
  <2> QED BY <2>3, <2>4, <2>5
<1>5. CASE HasSpawner(t, j) /\ e = Edge("s", j, SpawnerBox(t, t.spawnedBy[j]), e.target)
  <2> DEFINE s == t.spawnedBy[j]
  <2>1. e.source = SpawnerBox(t, s) /\ s \in t.jobs
    BY <1>5 DEF Edge, HasSpawner
  <2>2. s \in Containers(t) => s \notin ChildrenInContainer(t)
    BY GroupsAreNoMembers
  <2>3. Placed(t, e.source) = SpawnerPlaced(t, j)
    BY <2>1, <2>2 DEF SpawnerBox, Placed, SpawnerPlaced, Group, Single
  <2>4. SpawnerPlaced(t, j) \in DagreNodes(t)
    <3>1. CASE s \in ChildrenInContainer(t)
      <4>1. t.parent[s] \in Containers(t)
        BY <3>1, MembersAreJobs
      <4> QED BY <3>1, <4>1, GroupsAreNoMembers DEF SpawnerPlaced, DagreNodes
    <3>2. CASE s \notin ChildrenInContainer(t)
      BY <2>1, <3>2 DEF SpawnerPlaced, DagreNodes
    <3> QED BY <3>1, <3>2
  <2>5. <<SpawnerPlaced(t, j), j>> \in DagreEdges(t)
    BY <1>3, <1>5, <2>4 DEF DagreEdges, SpawnEdges
  <2> QED BY <1>2, <2>3, <2>5
<1> QED BY <1>1, <1>4, <1>5

\* Whatever trace is loaded, an arrow runs along an edge of the layout, unless it starts
\* from a single child of a batch or message that has been continued.
THEOREM ArrowsFollowLayout == Spec => []ArrowsRunRight
<1>1. trace \in Trace \cup {NoTrace} => ArrowsRunRight
  BY ArrowsAreLaidOut DEF ArrowsRunRight, Shown
<1> QED BY <1>1, ShowsAnAnswer, PTL

\* A group has children, and a single job none: what is reserved covers what is drawn.
LEMMA GapsAreLeft ==
  ASSUME NEW t \in Trace, NEW i \in DagreNodes(t), NEW j \in DagreNodes(t)
  PROVE  /\ Drawn(t, i) + Drawn(t, j) =< Reserved(t, i) + Reserved(t, j) + 2 * nodesep
         /\ Beyond(t, i) + Beyond(t, j) < ranksep
<1>1. ASSUME NEW k \in t.jobs
      PROVE  /\ Drawn(t, k) \in Int /\ Reserved(t, k) \in Int /\ Drawn(t, k) =< Reserved(t, k)
             /\ Beyond(t, k) \in {0, GROUP_PADDING}
  <2> DEFINE n == Cardinality(ChildrenOf(t, k))
  <2>1. ChildrenOf(t, k) \in SUBSET t.jobs /\ IsFiniteSet(t.jobs)
    BY TraceAssumption DEF ChildrenOf, ChildrenInContainer
  <2>2. IsFiniteSet(ChildrenOf(t, k)) /\ n \in Nat BY <2>1, FS_Subset, FS_CardinalityType
  <2>3. k \in Containers(t) => n > 0
    <3>1. k \in Containers(t) => ChildrenOf(t, k) # {} BY DEF Containers, ChildrenOf
    <3>2. n = 0 => ChildrenOf(t, k) = {} BY <2>2, FS_EmptySet
    <3> QED BY <2>2, <3>1, <3>2
  <2>4. k \notin Containers(t) => n = 0
    <3>1. k \notin Containers(t) => ChildrenOf(t, k) = {} BY DEF Containers, ChildrenOf
    <3> QED BY <3>1, FS_EmptySet
  <2>5. /\ Drawn(t, k) = IF k \in Containers(t) THEN Stack(n) + 2 * GROUP_PADDING ELSE NODE_HEIGHT
        /\ Reserved(t, k) = IF n > 0 THEN Stack(n) + GROUP_PADDING * 2 + 30 ELSE NODE_HEIGHT
    BY DEF Drawn, Reserved
  <2> HIDE DEF n
  <2> QED BY <2>2, <2>3, <2>4, <2>5 DEF Stack, Beyond, NODE_HEIGHT, CHILD_GAP, GROUP_PADDING
<1>2. i \in t.jobs /\ j \in t.jobs BY DEF DagreNodes
<1> QED BY <1>1, <1>2 DEF nodesep, ranksep, GROUP_PADDING

\* Every box drawn is placed by a node the layout was given.
LEMMA BoxesArePlaced ==
  ASSUME NEW t \in Trace, NEW n \in Nodes(t) PROVE Placed(t, n) \in DagreNodes(t)
<1>1. CASE \E j \in t.jobs \ Containers(t) : n = Single(j)
  <2>1. PICK j \in t.jobs \ Containers(t) : n = Single(j) BY <1>1
  <2>2. n.type = "traceNode" /\ n.of = j BY <2>1 DEF Single
  <2>3. CASE j \in ChildrenInContainer(t)
    BY <2>2, <2>3, MembersAreJobs, GroupsAreNoMembers DEF Placed, DagreNodes
  <2>4. CASE j \notin ChildrenInContainer(t) BY <2>2, <2>4 DEF Placed, DagreNodes
  <2> QED BY <2>3, <2>4
<1>2. CASE \E p \in Containers(t) : n = Group(p)
  <2>1. PICK p \in Containers(t) : n = Group(p) BY <1>2
  <2>2. n.type = "group" /\ n.of = p BY <2>1 DEF Group
  <2> QED BY <2>2, GroupsAreNoMembers DEF Placed, DagreNodes
<1> QED BY <1>1, <1>2 DEF Nodes

\* The frame around a bright box is bright, whichever arrow is under the mouse.
LEMMA FramesAreBright ==
  ASSUME NEW t \in Trace, NEW i \in EdgeIds(t), NEW n \in Bright(t, i)
  PROVE  Box(t, n) \subseteq Bright(t, i)
<1> DEFINE ends == {EdgeOf(t, i).source, EdgeOf(t, i).target}
           frames == UNION {Box(t, m) : m \in ends}
           members == {Single(c) : c \in {d \in ChildrenInContainer(t) : Group(t.parent[d]) \in ends}}
<1>1. Bright(t, i) = ends \cup frames \cup members
  <2>1. Bright(t, i) = Connected(t, ends) BY DEF Bright
  <2> HIDE DEF ends
  <2>2. Connected(t, ends) = ends \cup frames \cup members BY DEF Connected
  <2> QED BY <2>1, <2>2
<1>2. \A m \in ends : Box(t, m) \subseteq frames OBVIOUS
<1>3. \A f \in frames : f.type = "group" BY DEF Box, Group
<1>4. \A m \in members : Box(t, m) \subseteq ends
  <2> SUFFICES ASSUME NEW d \in ChildrenInContainer(t), Group(t.parent[d]) \in ends
               PROVE  Box(t, Single(d)) \subseteq ends
    OBVIOUS
  <2>1. Single(d).type = "traceNode" /\ Single(d).of = d BY DEF Single
  <2> QED BY <2>1 DEF Box
<1> HIDE DEF ends, frames, members
<1>5. n \in ends \/ n \in frames \/ n \in members BY <1>1
<1>6. n \in frames => Box(t, n) = {} BY <1>3 DEF Box
<1> QED BY <1>1, <1>2, <1>4, <1>5, <1>6

\* What is under the mouse is an arrow of the trace on show.
Hovering == hoveredEdge # NoId => Shown /\ hoveredEdge \in EdgeIds(trace)

LEMMA HoversAnArrow == Spec => []Hovering
<1>1. Init => Hovering BY DEF Init, Hovering
<1>2. Hovering /\ [Next]_vars => Hovering'
  <2> SUFFICES ASSUME Hovering, [Next]_vars PROVE Hovering' OBVIOUS
  <2>1. CASE Load BY <2>1 DEF Load, Hovering
  <2>2. CASE HoverEdge
    <3>1. Shown /\ trace' = trace /\ hoveredEdge' \in EdgeIds(trace) BY <2>2 DEF HoverEdge
    <3>2. Shown' BY <3>1 DEF Shown
    <3>3. EdgeIds(trace)' = EdgeIds(trace)
      BY <3>1 DEF EdgeIds, Edges, ContainerEdges, JobEdges, Alone, Edge, Containers, ChildrenInContainer,
                  ResolveId, SpawnerBox, HasParent, HasSpawner, IsParallelChild, Group, Single
    <3> QED BY <3>1, <3>2, <3>3 DEF Hovering
  <2>3. CASE Unhover BY <2>3 DEF Unhover, Hovering
  <2>4. CASE UNCHANGED vars BY <2>4 DEF vars, Hovering, Shown
  <2> QED BY <2>1, <2>2, <2>3, <2>4 DEF Next
<1> QED BY <1>1, <1>2, PTL DEF Spec

\* For every trace: boxes do not overlap, none is left without a place, and what belongs to
\* the arrow under the mouse is drawn in full with the frames around it.
THEOREM PicturesAreWhole == Spec => []PictureIsWhole
<1>1. trace \in Trace \cup {NoTrace} => BoxesApart
  BY GapsAreLeft, BoxesArePlaced DEF BoxesApart, Shown
<1>2. trace \in Trace \cup {NoTrace} /\ Hovering => BrightInFrame
  <2> SUFFICES ASSUME trace \in Trace, Hovering, hoveredEdge # NoId
               PROVE  /\ \A n \in Bright(trace, hoveredEdge) : Box(trace, n) \subseteq Bright(trace, hoveredEdge)
                      /\ {EdgeOf(trace, hoveredEdge).source, EdgeOf(trace, hoveredEdge).target}
                           \subseteq Bright(trace, hoveredEdge)
    BY DEF BrightInFrame, Shown
  <2>1. hoveredEdge \in EdgeIds(trace) BY DEF Hovering
  <2>2. \A n \in Bright(trace, hoveredEdge) : Box(trace, n) \subseteq Bright(trace, hoveredEdge)
    BY <2>1, FramesAreBright
  <2> QED BY <2>1, <2>2 DEF Bright, Connected
<1> QED BY <1>1, <1>2, ShowsAnAnswer, HoversAnArrow, PTL DEF PictureIsWhole

-------------------------------------------------------------------------------
(* Entries of the query cache.                                             *)

Upto(n) == JobList!Entries(1..n)

Good(e, d) ==
  /\ e.fetch # 0 => e.fetch >= d
  /\ e.data # 0 /\ ~e.invalid => e.data >= d

\* What is known of an entry of Upto(n).
LEMMA EntryParts ==
  ASSUME NEW n \in Nat, NEW e \in Upto(n)
  PROVE  /\ e.data \in 0..n /\ e.fetch \in 0..n
         /\ e.invalid \in BOOLEAN /\ e.old \in BOOLEAN /\ e.failed \in BOOLEAN
BY DEF Upto, JobList!Entries

LEMMA AbsentGood ==
  ASSUME NEW n \in Nat
  PROVE  JobList!Absent \in Upto(n) /\ \A d \in Nat : Good(JobList!Absent, d)
BY DEF Upto, JobList!Entries, JobList!Absent, Good

\* With the server's version n, a fetch is good for whatever is known.
LEMMA FetchGood ==
  ASSUME NEW n \in Nat \ {0}, NEW e \in Upto(n)
  PROVE  /\ JobList!Fetch(e, n) \in Upto(n)
         /\ \A d \in 0..n : Good(e, d) => Good(JobList!Fetch(e, n), d)
         /\ \A d \in 0..n : e.invalid => Good(JobList!Fetch(e, n), d)
         /\ JobList!Fetch(e, n).data = e.data /\ JobList!Fetch(e, n).fetch = n
<1> DEFINE g == JobList!Fetch(e, n)
<1>1. g \in Upto(n)
  <2>1. ASSUME NEW x \in BOOLEAN PROVE [e EXCEPT !.fetch = n, !.failed = x] \in Upto(n)
    <3> DEFINE V == 1..n
    <3>1. n \in V /\ e \in JobList!Entries(V) BY DEF Upto
    <3> HIDE DEF V
    <3>2. [e EXCEPT !.fetch = n, !.failed = x] \in JobList!Entries(V)
      BY <3>1 DEF JobList!Entries
    <3> QED BY <3>2 DEF V, Upto
  <2>2. (e.failed /\ e.data # 0) \in BOOLEAN OBVIOUS
  <2>3. g = [e EXCEPT !.fetch = n, !.failed = (e.failed /\ e.data # 0)]
    BY DEF JobList!Fetch
  <2> HIDE DEF g
  <2> QED BY <2>1, <2>2, <2>3
<1>2. g.data = e.data /\ g.fetch = n /\ g.invalid = e.invalid
  BY DEF JobList!Fetch, Upto, JobList!Entries
<1> HIDE DEF g
<1>3. (\A d \in 0..n : Good(e, d) => Good(g, d)) /\ \A d \in 0..n : e.invalid => Good(g, d)
  BY <1>2, EntryParts DEF Good
<1> QED BY <1>1, <1>2, <1>3 DEF g

LEMMA ObserveGood ==
  ASSUME NEW n \in Nat \ {0}, NEW e \in Upto(n)
  PROVE  /\ JobList!Observe(e, n) \in Upto(n)
         /\ \A d \in 0..n : Good(e, d) => Good(JobList!Observe(e, n), d)
BY FetchGood DEF JobList!Observe

LEMMA InvalidateGood ==
  ASSUME NEW n \in Nat \ {0}, NEW e \in Upto(n), NEW u \in BOOLEAN
  PROVE  /\ JobList!Invalidate(e, u, n) \in Upto(n)
         /\ ~JobList!Outruns(e, u) => \A d \in 0..n : Good(JobList!Invalidate(e, u, n), d)
<1> DEFINE i == [e EXCEPT !.invalid = TRUE]
<1>1. i \in Upto(n) /\ i.invalid /\ i.data = e.data /\ i.fetch = e.fetch
  BY DEF Upto, JobList!Entries
<1> HIDE DEF i
<1>3. CASE e = JobList!Absent
  BY <1>3, AbsentGood DEF JobList!Invalidate
<1>4. CASE e # JobList!Absent /\ u /\ (e.fetch = 0 \/ e.data # 0)
  <2>1. JobList!Invalidate(e, u, n) = JobList!Fetch(i, n)
    BY <1>4 DEF JobList!Invalidate, i
  <2> QED BY <1>1, <2>1, FetchGood
<1>5. CASE e # JobList!Absent /\ ~(u /\ (e.fetch = 0 \/ e.data # 0))
  <2>1. JobList!Invalidate(e, u, n) = i
    BY <1>5 DEF JobList!Invalidate, i
  <2>2. ~JobList!Outruns(e, u) => e.fetch = 0
    BY <1>5, EntryParts DEF JobList!Outruns
  <2> QED BY <1>1, <2>1, <2>2 DEF Good
<1> QED BY <1>3, <1>4, <1>5

LEMMA SettleGood ==
  ASSUME NEW n \in Nat, NEW e \in Upto(n), e.fetch # 0
  PROVE  /\ JobList!Settle(e) \in Upto(n)
         /\ \A d \in 0..n : Good(e, d) => Good(JobList!Settle(e), d)
         /\ JobList!Settle(e).data = e.fetch /\ JobList!Settle(e).fetch = 0
<1> DEFINE g == JobList!Settle(e)
<1>1. g \in Upto(n) /\ g.data = e.fetch /\ g.fetch = 0
  BY DEF JobList!Settle, JobList!Absent, Upto, JobList!Entries
<1> HIDE DEF g
<1> QED BY <1>1, EntryParts DEF g, Good

LEMMA FailGood ==
  ASSUME NEW n \in Nat, NEW e \in Upto(n)
  PROVE  /\ JobList!Fail(e) \in Upto(n)
         /\ \A d \in 0..n : Good(JobList!Fail(e), d)
         /\ JobList!Fail(e).data = e.data /\ JobList!Fail(e).failed
<1> DEFINE g == JobList!Fail(e)
<1>1. g \in Upto(n) /\ g.data = e.data /\ g.fetch = 0 /\ g.failed /\ g.invalid
  BY DEF JobList!Fail, Upto, JobList!Entries
<1> HIDE DEF g
<1> QED BY <1>1, EntryParts DEF g, Good

LEMMA AgeGood ==
  ASSUME NEW n \in Nat, NEW e \in Upto(n)
  PROVE  /\ JobList!Age(e) \in Upto(n)
         /\ \A d \in 0..n : Good(e, d) => Good(JobList!Age(e), d)
<1> DEFINE g == [e EXCEPT !.old = TRUE]
<1>1. g \in Upto(n) /\ g.data = e.data /\ g.fetch = e.fetch /\ g.invalid = e.invalid
  BY DEF Upto, JobList!Entries
<1> HIDE DEF g
<1>2. \A d \in 0..n : Good(e, d) => Good(g, d) BY <1>1, EntryParts DEF Good
<1> QED BY <1>1, <1>2 DEF JobList!Age, g

\* The versions there are go up.
LEMMA UptoMore == ASSUME NEW n \in Nat PROVE Upto(n) \subseteq Upto(n + 1)
BY DEF Upto, JobList!Entries

-------------------------------------------------------------------------------
(* The lists of jobs: the invariant.                                       *)

now == Len(history)
Sent == [request : JobList!Requests, made : 0..MaxVersions, over : BOOLEAN]

\* Where the user is; a filter by type is for failed jobs.
Browsing ==
  /\ tab \in Tabs /\ page \in 0..Cardinality(Jobs) /\ size \in Sizes
  /\ type \in JobList!Types \cup {JobList!NoType}
  /\ type # JobList!NoType => tab = "failed"

\* The rows of a page of a list, of the jobs' states.
RowsIn(f, k) ==
  LET all == {j \in Jobs : IF k[1] \in Tabs THEN f[j] = k[1]
                           ELSE f[j] = "failed" /\ TypeOf[j] = k[1]}
  IN  {j \in all : JobList!Cardinality({i \in all : i < j}) \div k[3] = k[2]}

\* The state or the type whose list is on the screen.
listed == IF tab = "failed" /\ type # JobList!NoType THEN type ELSE tab

\* The row was on the screen when it was ticked.
ShownRow(j) == ticked[j].at \in 1..now /\ j \in RowsIn(history[ticked[j].at], ticked[j].list)

\* What is ticked or about to be confirmed.
Chosen ==
  /\ selected \subseteq Jobs /\ DOMAIN ticked = Jobs
  /\ \A j \in selected :
       ShownRow(j) /\ ticked[j].list[1] = listed /\ ticked[j].list[3] = size
  /\ pending \in JobList!Requests \cup {JobList!NoCommand}
  /\ pending.scope = "bulk" =>
       \A i, j \in pending.ids :
         /\ ShownRow(i) /\ ticked[i].list[1] = ticked[j].list[1]
         /\ ticked[i].list[3] = ticked[j].list[3]

Versions == history \in Seq([Jobs -> JobList!States]) /\ now \in 1..MaxVersions

Commanded == command \in Seq(Sent) /\ \A i \in DOMAIN command : command[i].made <= now

\* Nothing in the cache is newer than the server, and what may count as settled is good
\* for the commands reported done.
Cached ==
  /\ cache \in [JobList!Keys -> Upto(now)]
  /\ done \in 0..now /\ outrun \subseteq JobList!Keys
  /\ \A k \in JobList!Keys \ outrun : Good(cache[k], done)

JobsInv == Browsing /\ Chosen /\ Versions /\ Commanded /\ Cached

-------------------------------------------------------------------------------
(* The lists of jobs: the parts of a step.                                 *)

\* The page module counts as FiniteSets does.
LEMMA Counting == \A S : JobList!Cardinality(S) = Cardinality(S)
BY Zenon DEF JobList!Cardinality, Cardinality

LEMMA KeysOfView ==
  ASSUME NEW t \in Tabs, NEW p \in 0..Cardinality(Jobs), NEW s \in Sizes,
         NEW ty \in JobList!Types \cup {JobList!NoType}
  PROVE  JobList!Observed(t, p, s, ty) \subseteq JobList!Keys
<1>1. <<t, p, s>> \in JobList!Keys BY Counting DEF JobList!Keys
<1>2. ty # JobList!NoType => <<ty, p, s>> \in JobList!Keys BY Counting DEF JobList!Keys
<1> QED BY <1>1, <1>2 DEF JobList!Observed, JobList!ListKey, JobList!TypedKey

\* The list on the screen.
LEMMA ActiveList == JobList!active[1] = listed /\ JobList!active[3] = size
BY DEF JobList!active, JobList!isFailed, JobList!listQuery, JobList!typedQuery,
       JobList!ListKey, JobList!TypedKey, listed

\* The rows of a list, as the pages' proofs name them.
LEMMA RowsAre == ASSUME NEW k, NEW v PROVE JobList!Rows(k, v) = RowsIn(history[v], k)
BY DEF JobList!Rows, JobList!InList, RowsIn

LEMMA ChosenShown == ASSUME Chosen PROVE JobList!SelectionWasShown
<1>1. ASSUME NEW j, ShownRow(j) PROVE JobList!WasShown(j)
  BY <1>1, RowsAre DEF ShownRow, JobList!WasShown, JobList!now, now
<1>2. \A j \in selected : JobList!WasShown(j) /\ JobList!SameList(ticked[j].list, JobList!active)
  BY <1>1, ActiveList DEF Chosen, JobList!SameList
<1>3. pending.scope = "bulk" =>
        \A i, j \in pending.ids :
          JobList!WasShown(i) /\ JobList!SameList(ticked[i].list, ticked[j].list)
  BY <1>1 DEF Chosen, JobList!SameList
<1> QED BY <1>2, <1>3 DEF JobList!SelectionWasShown

\* Versions are only added.
LEMMA VersionAdded ==
  ASSUME Versions, NEW h \in [Jobs -> JobList!States], now < MaxVersions,
         history' = Append(history, h)
  PROVE  /\ Versions' /\ now' = now + 1 /\ now \in 1..MaxVersions
         /\ \A v \in 1..now : history'[v] = history[v]
<1>1. /\ history' \in Seq([Jobs -> JobList!States]) /\ Len(history') = Len(history) + 1
      /\ \A v \in 1..Len(history) : history'[v] = history[v]
  BY AppendProperties DEF Versions
<1> QED BY <1>1, PagesAssumption DEF Versions, now

\* What was ticked stays so through whatever empties the selection or leaves the list alone.
LEMMA StillShown ==
  ASSUME JobsInv, Versions', now' \in {now, now + 1},
         \A v \in 1..now : history'[v] = history[v],
         selected' = {} \/ (selected' \subseteq selected /\ listed' = listed /\ size' = size),
         ticked' = ticked,
         pending' \in JobList!Requests \cup {JobList!NoCommand},
         \/ pending' = pending
         \/ pending'.scope = "bulk" => pending'.ids \subseteq selected
  PROVE  Chosen'
<1>1. Chosen /\ now \in Nat BY DEF JobsInv, Versions
<1>2. ASSUME NEW j, ShownRow(j) PROVE ShownRow(j)'
  <2>1. ticked[j].at \in 1..now' /\ history'[ticked[j].at] = history[ticked[j].at]
    BY <1>1, <1>2 DEF ShownRow
  <2> QED BY <1>2, <2>1 DEF ShownRow
<1>3. \A j \in selected' :
        ShownRow(j)' /\ ticked'[j].list[1] = listed' /\ ticked'[j].list[3] = size'
  BY <1>1, <1>2 DEF Chosen
<1>4. pending'.scope = "bulk" =>
        \A i, j \in pending'.ids :
          /\ ShownRow(i)' /\ ticked'[i].list[1] = ticked'[j].list[1]
          /\ ticked'[i].list[3] = ticked'[j].list[3]
  BY <1>1, <1>2 DEF Chosen
<1> QED BY <1>1, <1>3, <1>4 DEF Chosen

\* An emptied selection leaves the ids of an open dialog as they were ticked.
LEMMA DialogStillShown ==
  ASSUME JobsInv, history' = history, selected' = {}, pending' = pending, JobList!Forget
  PROVE  Chosen'
<1>1. Chosen BY DEF JobsInv
<1>2. ASSUME pending.scope = "bulk", NEW j \in pending.ids
      PROVE  ticked'[j] = ticked[j] /\ ShownRow(j)
  <2>1. pending.ids \subseteq Jobs
    BY <1>1, <1>2 DEF Chosen, JobList!Requests, JobList!NoCommand
  <2> QED BY <1>1, <1>2, <2>1 DEF Chosen, JobList!Forget
<1>3. ASSUME pending.scope = "bulk", NEW j \in pending.ids PROVE ShownRow(j)'
  BY <1>2, <1>3 DEF ShownRow, now
<1>4. DOMAIN ticked' = Jobs BY DEF JobList!Forget
<1> QED BY <1>1, <1>2, <1>3, <1>4 DEF Chosen

\* The cache, when versions are added and nothing else happens to it.
LEMMA CacheKept ==
  ASSUME JobsInv, now' \in {now, now + 1}, cache' = cache, done' = done, outrun' = outrun
  PROVE  Cached'
<1>1. now \in Nat BY DEF JobsInv, Versions
<1>2. Upto(now) \subseteq Upto(now') BY <1>1, UptoMore
<1> QED BY <1>1, <1>2 DEF JobsInv, Cached

\* The cache, when entries are replaced by others that are good if they were.
LEMMA CacheReplaced ==
  ASSUME JobsInv, now' = now, done' = done, outrun' = outrun,
         cache' \in [JobList!Keys -> Upto(now)],
         \A k \in JobList!Keys : Good(cache[k], done) => Good(cache'[k], done)
  PROVE  Cached'
BY DEF JobsInv, Cached

\* The cache, when the screen comes to use more of it.
LEMMA CacheWatched ==
  ASSUME JobsInv, now' = now, done' = done, outrun' = outrun,
         NEW S, NEW R,
         \/ cache' = JobList!Watch(cache, S)
         \/ cache' = JobList!Watch(JobList!Watch(cache, R), S)
  PROVE  Cached'
<1>1. /\ now \in Nat \ {0} /\ done \in 0..now /\ cache \in [JobList!Keys -> Upto(now)]
      /\ now = JobList!now
  BY DEF JobsInv, Versions, Cached, now, JobList!now
<1>2. ASSUME NEW c \in [JobList!Keys -> Upto(now)], NEW ks
      PROVE  /\ JobList!Watch(c, ks) \in [JobList!Keys -> Upto(now)]
             /\ \A k \in JobList!Keys : Good(c[k], done) => Good(JobList!Watch(c, ks)[k], done)
  <2>1. ASSUME NEW k \in JobList!Keys
        PROVE  /\ (IF k \in ks THEN JobList!Observe(c[k], now) ELSE c[k]) \in Upto(now)
               /\ Good(c[k], done) =>
                    Good(IF k \in ks THEN JobList!Observe(c[k], now) ELSE c[k], done)
    <3>1. c[k] \in Upto(now) BY <1>2
    <3> QED BY <1>1, <3>1, ObserveGood
  <2> QED BY <1>1, <2>1 DEF JobList!Watch
<1>3. CASE cache' = JobList!Watch(cache, S)
  BY <1>1, <1>2, <1>3, CacheReplaced
<1>4. CASE cache' = JobList!Watch(JobList!Watch(cache, R), S)
  <2> DEFINE c == JobList!Watch(cache, R)
  <2>1. /\ c \in [JobList!Keys -> Upto(now)]
        /\ \A k \in JobList!Keys : Good(cache[k], done) => Good(c[k], done)
    BY <1>1, <1>2
  <2>2. cache' = JobList!Watch(c, S) BY <1>4
  <2> HIDE DEF c
  <2>3. /\ cache' \in [JobList!Keys -> Upto(now)]
        /\ \A k \in JobList!Keys : Good(c[k], done) => Good(cache'[k], done)
    BY <1>2, <2>1, <2>2
  <2> QED BY <2>1, <2>3, CacheReplaced
<1> QED BY <1>3, <1>4

\* The cache, when everything under 'jobs' is invalidated; a command may be known to be
\* done by then that made a version the server has.
LEMMA CacheInvalidated ==
  ASSUME JobsInv, now' = now, JobList!invalidateJobs, done' \in 0..now
  PROVE  Cached'
<1>1. /\ now \in Nat \ {0} /\ cache \in [JobList!Keys -> Upto(now)]
      /\ now = JobList!now /\ outrun \subseteq JobList!Keys
  BY DEF JobsInv, Versions, Cached, now, JobList!now
<1>2. /\ cache' = [k \in JobList!Keys |-> JobList!Invalidate(cache[k], k \in JobList!inUse, now)]
      /\ outrun' = outrun \cup {k \in JobList!Keys : JobList!Outruns(cache[k], k \in JobList!inUse)}
  BY <1>1 DEF JobList!invalidateJobs
<1>3. ASSUME NEW k \in JobList!Keys
      PROVE  /\ cache'[k] \in Upto(now)
             /\ k \notin outrun' => Good(cache'[k], done')
  <2> DEFINE u == k \in JobList!inUse
  <2>1. cache[k] \in Upto(now) /\ u \in BOOLEAN BY <1>1
  <2>2. cache'[k] = JobList!Invalidate(cache[k], u, now) BY <1>2
  <2>3. k \notin outrun' => ~JobList!Outruns(cache[k], u) BY <1>2
  <2> HIDE DEF u
  <2> QED BY <1>1, <2>1, <2>2, <2>3, InvalidateGood
<1>4. cache' \in [JobList!Keys -> Upto(now)] BY <1>2, <1>3
<1> QED BY <1>1, <1>2, <1>3, <1>4 DEF Cached

-------------------------------------------------------------------------------
(* The lists of jobs: every step.                                          *)

\* A step that changes neither the versions nor the commands.
LEMMA HereStays ==
  ASSUME JobsInv, history' = history, command' = command
  PROVE  Versions' /\ Commanded' /\ now' = now
BY DEF JobsInv, Versions, Commanded, now

LEMMA UserMoves ==
  ASSUME JobsInv,
         \/ \E t \in Tabs : JobList!Go(t)
         \/ \E p \in 0..Cardinality(Jobs) : JobList!Turn(p)
         \/ \E s \in Sizes : JobList!handlePageSizeChange(s)
         \/ \E ty \in JobList!Types \cup {JobList!NoType} : JobList!Filter(ty)
  PROVE  JobsInv'
<1>1. Browsing /\ Chosen BY DEF JobsInv
<1>2. Cardinality(Jobs) \in Nat BY PagesAssumption, FS_CardinalityType
<1>3. ASSUME NEW t \in Tabs, JobList!Go(t) PROVE JobsInv'
  <2>1. /\ tab' = t /\ page' = 0 /\ type' = JobList!NoType /\ selected' = {}
        /\ size' = size /\ pending' = pending /\ history' = history /\ command' = command
        /\ done' = done /\ outrun' = outrun /\ JobList!Forget
        /\ cache' = JobList!Watch(JobList!Watch(cache, JobList!Observed(t, page, size, type)),
                                  JobList!Observed(t, 0, size, JobList!NoType))
    BY <1>3 DEF JobList!Go
  <2>2. Browsing' BY <1>1, <1>2, <2>1 DEF Browsing
  <2>3. Versions' /\ now' = now BY <2>1, HereStays
  <2>4. Chosen' BY <2>1, DialogStillShown
  <2> QED BY <2>1, <2>2, <2>4, HereStays, CacheWatched DEF JobsInv
<1>4. ASSUME NEW p \in 0..Cardinality(Jobs), JobList!Turn(p) PROVE JobsInv'
  <2>1. /\ page' = p /\ cache' = JobList!Watch(cache, JobList!Observed(tab, p, size, type))
        /\ tab' = tab /\ size' = size /\ type' = type /\ selected' = selected
        /\ pending' = pending /\ history' = history /\ command' = command
        /\ done' = done /\ outrun' = outrun /\ ticked' = ticked
    BY <1>4 DEF JobList!Turn, JobList!choice, JobList!ghosts
  <2>2. Browsing' BY <1>1, <2>1 DEF Browsing
  <2>3. Versions' /\ now' = now BY <2>1, HereStays
  <2>4. Chosen' BY <1>1, <2>1, <2>3, StillShown DEF Chosen, listed
  <2> QED BY <2>1, <2>2, <2>4, HereStays, CacheWatched DEF JobsInv
<1>5. ASSUME NEW s \in Sizes, JobList!handlePageSizeChange(s) PROVE JobsInv'
  <2>1. /\ size' = s /\ page' = 0 /\ selected' = {}
        /\ cache' = JobList!Watch(cache, JobList!Observed(tab, 0, s, type))
        /\ tab' = tab /\ type' = type /\ pending' = pending
        /\ history' = history /\ command' = command /\ done' = done /\ outrun' = outrun
        /\ JobList!Forget
    BY <1>5 DEF JobList!handlePageSizeChange
  <2>2. Browsing' BY <1>1, <1>2, <2>1 DEF Browsing
  <2>3. Versions' /\ now' = now BY <2>1, HereStays
  <2>4. Chosen' BY <2>1, DialogStillShown
  <2> QED BY <2>1, <2>2, <2>4, HereStays, CacheWatched DEF JobsInv
<1>6. ASSUME NEW ty \in JobList!Types \cup {JobList!NoType}, JobList!Filter(ty) PROVE JobsInv'
  <2>1. /\ tab = "failed" /\ type' = ty /\ page' = 0 /\ selected' = {}
        /\ cache' = JobList!Watch(cache, JobList!Observed(tab, 0, size, ty))
        /\ tab' = tab /\ size' = size /\ pending' = pending
        /\ history' = history /\ command' = command /\ done' = done /\ outrun' = outrun
        /\ JobList!Forget
    BY <1>6 DEF JobList!Filter, JobList!isFailed
  <2>2. Browsing' BY <1>1, <1>2, <2>1 DEF Browsing
  <2>3. Versions' /\ now' = now BY <2>1, HereStays
  <2>4. Chosen' BY <2>1, DialogStillShown
  <2> QED BY <2>1, <2>2, <2>4, HereStays, CacheWatched DEF JobsInv
<1> QED BY <1>3, <1>4, <1>5, <1>6

\* A row on the screen is one of a list's, of a version the server had.
LEMMA ShownRowsFit ==
  ASSUME JobsInv, JobList!Shown, NEW j \in JobList!shownRows
  PROVE  /\ j \in Jobs /\ cache[JobList!active].data \in 1..now
         /\ j \in RowsIn(history[cache[JobList!active].data], JobList!active)
<1>1. JobList!active \in JobList!Keys
  BY Counting DEF JobsInv, Browsing, JobList!active, JobList!isFailed, JobList!listQuery,
     JobList!typedQuery, JobList!ListKey, JobList!TypedKey, JobList!Keys
<1>2. cache[JobList!active] \in Upto(now) /\ now \in Nat
  BY <1>1 DEF JobsInv, Cached, Versions
<1>3. cache[JobList!active].data \in 1..now
  BY <1>2, EntryParts DEF JobList!Shown, JobList!Visible
<1>4. j \in RowsIn(history[cache[JobList!active].data], JobList!active)
  BY RowsAre DEF JobList!shownRows
<1>5. j \in Jobs BY <1>4 DEF RowsIn
<1> QED BY <1>3, <1>4, <1>5

\* Ticking keeps what is ticked or takes what is on the screen.
LEMMA Ticks ==
  ASSUME JobsInv, JobList!Shown, pending = JobList!NoCommand,
         DOMAIN ticked' = Jobs,
         \A j \in selected' : \/ j \in selected /\ ticked'[j] = ticked[j]
                              \/ j \in JobList!shownRows /\ ticked'[j] = JobList!onScreen,
         UNCHANGED <<history, cache, tab, page, size, type, pending, command, done, outrun>>
  PROVE  JobsInv'
<1>1. Browsing /\ Chosen /\ Versions BY DEF JobsInv
<1>2. now' = now /\ listed' = listed /\ size' = size BY DEF now, listed
<1>3. ASSUME NEW j \in selected'
      PROVE  /\ j \in Jobs /\ ShownRow(j)'
             /\ ticked'[j].list[1] = listed /\ ticked'[j].list[3] = size
  <2>1. CASE j \in selected /\ ticked'[j] = ticked[j]
    <3>1. ShownRow(j) /\ ticked[j].list[1] = listed /\ ticked[j].list[3] = size /\ j \in Jobs
      BY <1>1, <2>1 DEF Chosen
    <3> QED BY <1>2, <2>1, <3>1 DEF ShownRow
  <2>2. CASE j \in JobList!shownRows /\ ticked'[j] = JobList!onScreen
    <3>1. /\ ticked'[j].list = JobList!active
          /\ ticked'[j].at = cache[JobList!active].data
      BY <2>2 DEF JobList!onScreen
    <3>2. /\ j \in Jobs /\ cache[JobList!active].data \in 1..now
          /\ j \in RowsIn(history[cache[JobList!active].data], JobList!active)
      BY <2>2, ShownRowsFit
    <3> QED BY <1>2, <3>1, <3>2, ActiveList DEF ShownRow
  <2> QED BY <1>3, <2>1, <2>2
<1>4. Chosen'
  BY <1>2, <1>3 DEF Chosen, JobList!NoCommand
<1>5. Browsing' BY <1>1 DEF Browsing
<1> QED BY <1>2, <1>4, <1>5, HereStays, CacheKept DEF JobsInv

LEMMA UserChooses ==
  ASSUME JobsInv,
         \/ (\E j \in Jobs : JobList!Tick(j)) \/ JobList!TickAll \/ JobList!Cancel
         \/ \E r \in JobList!Requests : JobList!Ask(r)
  PROVE  JobsInv'
<1>1. Browsing /\ Chosen /\ Versions BY DEF JobsInv
<1>2. ASSUME NEW j \in Jobs, JobList!Tick(j) PROVE JobsInv'
  <2>1. /\ JobList!Shown /\ pending = JobList!NoCommand /\ j \in JobList!shownRows
        /\ selected' = IF j \in selected THEN selected \ {j} ELSE selected \cup {j}
        /\ ticked' = [ticked EXCEPT ![j] = IF j \in selected THEN JobList!NotTicked
                                                            ELSE JobList!onScreen]
        /\ UNCHANGED <<history, cache, tab, page, size, type, pending, command, done, outrun>>
    BY <1>2 DEF JobList!Tick, JobList!Reachable, JobList!view
  <2>2. DOMAIN ticked' = Jobs BY <1>1, <2>1 DEF Chosen
  <2>3. ASSUME NEW i \in selected'
        PROVE  \/ i \in selected /\ ticked'[i] = ticked[i]
               \/ i \in JobList!shownRows /\ ticked'[i] = JobList!onScreen
    <3>1. selected \subseteq Jobs /\ DOMAIN ticked = Jobs BY <1>1 DEF Chosen
    <3>2. CASE i = j BY <1>2, <2>1, <2>3, <3>1, <3>2
    <3>3. CASE i # j BY <2>1, <2>3, <3>1, <3>3
    <3> QED BY <3>2, <3>3
  <2> QED BY <2>1, <2>2, <2>3, Ticks
<1>3. CASE JobList!TickAll
  <2>1. /\ JobList!Shown /\ pending = JobList!NoCommand
        /\ selected' \subseteq JobList!shownRows
        /\ ticked' = [i \in Jobs |-> IF i \in selected' THEN JobList!onScreen
                                                     ELSE JobList!NotTicked]
        /\ UNCHANGED <<history, cache, tab, page, size, type, pending, command, done, outrun>>
    BY <1>3 DEF JobList!TickAll, JobList!Reachable, JobList!view
  <2>2. DOMAIN ticked' = Jobs BY <2>1
  <2>3. ASSUME NEW i \in selected'
        PROVE  i \in JobList!shownRows /\ ticked'[i] = JobList!onScreen
    <3>1. i \in Jobs BY <2>1, <2>3, ShownRowsFit
    <3> QED BY <2>1, <2>3, <3>1
  <2> QED BY <2>1, <2>2, <2>3, Ticks
<1>4. ASSUME UNCHANGED <<history, cache, tab, page, size, type, selected, command, done, outrun,
                         ticked>>,
             pending' \in JobList!Requests \cup {JobList!NoCommand},
             pending'.scope = "bulk" => pending'.ids \subseteq selected
      PROVE  JobsInv'
  <2>1. Versions' /\ now' = now BY <1>4, HereStays
  <2>2. Chosen' BY <1>1, <1>4, <2>1, StillShown DEF Chosen, listed
  <2>3. Browsing' BY <1>1, <1>4 DEF Browsing
  <2> QED BY <1>4, <2>1, <2>2, <2>3, HereStays, CacheKept DEF JobsInv
<1>5. CASE JobList!Cancel
  <2>1. pending'.scope # "bulk" BY <1>5 DEF JobList!Cancel, JobList!NoCommand
  <2> QED BY <1>4, <1>5, <2>1 DEF JobList!Cancel, JobList!view, JobList!ghosts
<1>6. ASSUME NEW r \in JobList!Requests, JobList!Ask(r) PROVE JobsInv'
  <2>1. /\ pending' = r
        /\ UNCHANGED <<history, cache, tab, page, size, type, selected, command, done, outrun,
                       ticked>>
    BY <1>6 DEF JobList!Ask, JobList!view, JobList!ghosts
  <2>2. r.scope = "bulk" => r.ids = selected
    BY <1>6 DEF JobList!Ask, JobList!RowOffers, JobList!SelectionOffers, JobList!TypeOffers
  <2> QED BY <1>4, <2>1, <2>2
<1> QED BY <1>2, <1>3, <1>5, <1>6

\* The view and the choice, when versions are added and the user does nothing but to confirm
\* or to see a selection cleared.
LEMMA ViewStays ==
  ASSUME JobsInv, UNCHANGED <<tab, page, size, type, ticked>>,
         Versions', now' \in {now, now + 1},
         \A v \in 1..now : history'[v] = history[v],
         selected' = selected \/ selected' = {},
         pending' = pending \/ pending' = JobList!NoCommand
  PROVE  Browsing' /\ Chosen'
<1>1. listed' = listed BY DEF listed
<1>2. pending \in JobList!Requests \cup {JobList!NoCommand} BY DEF JobsInv, Chosen
<1>3. JobList!NoCommand.scope # "bulk" BY DEF JobList!NoCommand
<1>4. Browsing' BY DEF JobsInv, Browsing
<1> QED BY <1>1, <1>2, <1>3, <1>4, StillShown

\* A command's record, whatever is noted of it.
LEMMA SentNoted ==
  ASSUME NEW c \in Sent
  PROVE  /\ [c EXCEPT !.over = TRUE, !.request.ids = {}] \in Sent
         /\ [c EXCEPT !.over = TRUE, !.request.ids = {}].made = c.made
         /\ \A m \in 0..MaxVersions :
              /\ [c EXCEPT !.made = m, !.request.ids = {}] \in Sent
              /\ [c EXCEPT !.made = m, !.request.ids = {}].made = m
<1>1. c.request \in JobList!Requests BY DEF Sent
<1>2. [c.request EXCEPT !.ids = {}] \in JobList!Requests BY <1>1 DEF JobList!Requests
<1>3. ASSUME NEW q \in JobList!Requests, NEW m \in 0..MaxVersions, NEW o \in BOOLEAN
      PROVE  [c EXCEPT !.made = m, !.request = q] \in Sent
             /\ [c EXCEPT !.over = o, !.request = q] \in Sent
  BY DEF Sent
<1> QED BY <1>1, <1>2, <1>3 DEF Sent

\* What is known of a command that has been sent.
LEMMA SentParts ==
  ASSUME JobsInv, NEW i \in DOMAIN command
  PROVE  /\ command[i] \in Sent /\ command[i].request \in JobList!Requests
         /\ command[i].made \in 0..now /\ now \in 1..MaxVersions /\ MaxVersions \in Nat
<1>1. command \in Seq(Sent) /\ command[i].made <= now /\ now \in 1..MaxVersions
  BY DEF JobsInv, Commanded, Versions
<1>2. i \in 1..Len(command) BY <1>1, LenProperties
<1>3. command[i] \in Sent BY <1>1, <1>2, ElementOfSeq
<1>4. MaxVersions \in Nat BY PagesAssumption
<1>5. command[i].request \in JobList!Requests /\ command[i].made \in 0..MaxVersions
  BY <1>3 DEF Sent
<1> QED BY <1>1, <1>3, <1>4, <1>5

LEMMA CommandNoted ==
  ASSUME JobsInv, NEW i \in DOMAIN command, NEW c \in Sent, c.made <= now',
         now' \in {now, now + 1}, command' = [command EXCEPT ![i] = c]
  PROVE  Commanded'
<1>1. command \in Seq(Sent) /\ now \in Nat /\ \A k \in DOMAIN command : command[k].made <= now
  BY DEF JobsInv, Commanded, Versions
<1>2. command' \in Seq(Sent) /\ DOMAIN command' = DOMAIN command
  BY <1>1, ExceptSeq
<1>3. ASSUME NEW k \in DOMAIN command PROVE command'[k].made <= now'
  <2>1. command[k].made \in 0..now BY SentParts
  <2>2. command'[k] = IF k = i THEN c ELSE command[k] BY <1>1
  <2> QED BY <1>1, <2>1, <2>2
<1> QED BY <1>2, <1>3 DEF Commanded

LEMMA CommandOver ==
  ASSUME JobsInv, NEW i \in DOMAIN command, now' = now,
         command' = [command EXCEPT ![i] = [command[i] EXCEPT !.over = TRUE, !.request.ids = {}]]
  PROVE  Commanded'
<1> DEFINE c == [command[i] EXCEPT !.over = TRUE, !.request.ids = {}]
<1>1. c \in Sent /\ c.made = command[i].made BY SentParts, SentNoted
<1>2. c.made <= now' BY <1>1, SentParts
<1>3. command' = [command EXCEPT ![i] = c] OBVIOUS
<1> HIDE DEF c
<1> QED BY <1>1, <1>2, <1>3, CommandNoted

LEMMA Commands ==
  ASSUME JobsInv,
         \/ JobList!runPending
         \/ \E i \in DOMAIN command :
              JobList!Serve(i) \/ JobList!Succeeds(i) \/ JobList!Errors(i)
  PROVE  JobsInv'
<1>1. Browsing /\ Chosen /\ Versions /\ Commanded /\ Cached BY DEF JobsInv
<1>2. /\ now \in 1..MaxVersions /\ now = JobList!now /\ MaxVersions \in Nat
      /\ \A i \in DOMAIN command : command[i] \in Sent /\ command[i].made \in 0..now
  <2>1. now \in 1..MaxVersions /\ now = JobList!now BY <1>1 DEF Versions, now, JobList!now
  <2>2. MaxVersions \in Nat BY PagesAssumption
  <2> QED BY <2>1, <2>2, SentParts
<1>3. CASE JobList!runPending
  <2> DEFINE c == [request |-> pending, made |-> 0, over |-> FALSE]
  <2>1. /\ pending \in JobList!Requests /\ pending' = JobList!NoCommand
        /\ command' = Append(command, c)
        /\ UNCHANGED <<history, cache, tab, page, size, type, selected, done, outrun, ticked>>
    BY <1>1, <1>3 DEF JobList!runPending, JobList!view, JobList!ghosts, Chosen
  <2>2. c \in Sent /\ c.made = 0 BY <1>2, <2>1 DEF Sent
  <2> HIDE DEF c
  <2>3. command' \in Seq(Sent) /\ \A k \in DOMAIN command' : command'[k].made <= now
    <3>1. /\ command' \in Seq(Sent) /\ Len(command') = Len(command) + 1
          /\ \A k \in 1..Len(command) : command'[k] = command[k]
          /\ command'[Len(command) + 1] = c
          /\ Len(command) \in Nat /\ DOMAIN command = 1..Len(command)
      BY <1>1, <2>1, <2>2, AppendProperties, LenProperties DEF Commanded
    <3>2. DOMAIN command' = 1..Len(command) + 1 BY <3>1, LenProperties
    <3> QED BY <1>1, <1>2, <2>2, <3>1, <3>2 DEF Commanded
  <2>4. Versions' /\ now' = now BY <1>1, <2>1 DEF Versions, now
  <2>5. Browsing' /\ Chosen' BY <2>1, <2>4, ViewStays
  <2> QED BY <2>1, <2>3, <2>4, <2>5, CacheKept DEF JobsInv, Commanded
<1>4. ASSUME NEW i \in DOMAIN command, JobList!Serve(i) PROVE JobsInv'
  <2> DEFINE h == [j \in Jobs |-> JobList!After(command[i].request, j, history[now][j])]
  <2>1. /\ now < MaxVersions /\ history' = Append(history, h)
        /\ command' = [command EXCEPT ![i] = [command[i] EXCEPT !.made = now + 1, !.request.ids = {}]]
        /\ UNCHANGED <<cache, tab, page, size, type, selected, pending, done, outrun, ticked>>
    BY <1>2, <1>4 DEF JobList!Serve, JobList!view, JobList!choice, JobList!ghosts
  <2>2. h \in [Jobs -> JobList!States]
    <3>1. history[now] \in [Jobs -> JobList!States]
      BY <1>1, <1>2, ElementOfSeq DEF Versions, now
    <3> QED BY <3>1 DEF JobList!After, JobList!States
  <2> HIDE DEF h
  <2>3. /\ Versions' /\ now' = now + 1
        /\ \A v \in 1..now : history'[v] = history[v]
    BY <1>1, <2>1, <2>2, VersionAdded
  <2>4. now + 1 \in 0..MaxVersions BY <1>2, <2>1
  <2>5. Commanded'
    <3> DEFINE c == [command[i] EXCEPT !.made = now + 1, !.request.ids = {}]
    <3>1. c \in Sent /\ c.made = now + 1 BY <1>2, <2>4, SentNoted
    <3>2. command' = [command EXCEPT ![i] = c] BY <2>1
    <3>3. now' \in {now, now + 1} /\ c.made <= now' BY <1>2, <2>3, <3>1
    <3> HIDE DEF c
    <3> QED BY <3>1, <3>2, <3>3, CommandNoted
  <2>6. Browsing' /\ Chosen' BY <1>1, <2>1, <2>3, ViewStays DEF Chosen
  <2> QED BY <2>1, <2>3, <2>5, <2>6, CacheKept DEF JobsInv
<1>5. ASSUME NEW i \in DOMAIN command, JobList!Succeeds(i) PROVE JobsInv'
  <2>1. /\ command' = [command EXCEPT ![i] = [command[i] EXCEPT !.over = TRUE, !.request.ids = {}]]
        /\ done' = IF command[i].made > done THEN command[i].made ELSE done
        /\ JobList!invalidateJobs
        /\ selected' = selected \/ selected' = {}
        /\ UNCHANGED <<history, tab, page, size, type, pending, ticked>>
    BY <1>5 DEF JobList!Succeeds, JobList!view
  <2>2. Versions' /\ now' = now BY <1>1, <2>1 DEF Versions, now
  <2>3. Commanded' BY <2>1, <2>2, CommandOver
  <2>4. Browsing' /\ Chosen' BY <1>1, <2>1, <2>2, ViewStays DEF Chosen
  <2>5. done' \in 0..now BY <1>1, <1>2, <2>1 DEF Cached
  <2> QED BY <2>1, <2>2, <2>3, <2>4, <2>5, CacheInvalidated DEF JobsInv
<1>6. ASSUME NEW i \in DOMAIN command, JobList!Errors(i) PROVE JobsInv'
  <2>1. /\ command' = [command EXCEPT ![i] = [command[i] EXCEPT !.over = TRUE, !.request.ids = {}]]
        /\ UNCHANGED <<history, cache, tab, page, size, type, selected, pending, done, outrun, ticked>>
    <3>1. command' = [command EXCEPT ![i] = [command[i] EXCEPT !.over = TRUE, !.request.ids = {}]]
      <4>1. command' = [command EXCEPT ![i].over = TRUE, ![i].request.ids = {}]
        BY <1>6 DEF JobList!Errors
      <4> QED BY <4>1
    <3>2. UNCHANGED <<history, cache, tab, page, size, type, selected, pending, done, outrun, ticked>>
      BY <1>6 DEF JobList!Errors, JobList!view, JobList!choice, JobList!ghosts
    <3> QED BY <3>1, <3>2
  <2>2. Versions' /\ now' = now BY <1>1, <2>1 DEF Versions, now
  <2>3. Commanded' BY <2>1, <2>2, CommandOver
  <2>4. Browsing' /\ Chosen' BY <1>1, <2>1, <2>2, ViewStays DEF Chosen
  <2> QED BY <2>1, <2>2, <2>3, <2>4, CacheKept DEF JobsInv
<1> QED BY <1>3, <1>4, <1>5, <1>6

LEMMA ServerAndCache ==
  ASSUME JobsInv,
         \/ JobList!Wait \/ JobList!Pushed \/ \E j \in Jobs : JobList!Work(j)
         \/ \E k \in JobList!Keys : JobList!Fetched(k) \/ JobList!FetchFails(k)
  PROVE  JobsInv'
<1>1. Browsing /\ Chosen /\ Versions /\ Commanded /\ Cached BY DEF JobsInv
<1>2. /\ now \in Nat \ {0} /\ now = JobList!now /\ done \in 0..now
      /\ cache \in [JobList!Keys -> Upto(now)]
  BY <1>1 DEF Versions, Cached, now, JobList!now
<1>3. ASSUME UNCHANGED <<history, command, tab, page, size, type, selected, pending, ticked>>
      PROVE  Browsing' /\ Chosen' /\ Versions' /\ Commanded' /\ now' = now
  <2>1. Versions' /\ Commanded' /\ now' = now BY <1>3, HereStays
  <2> QED BY <1>1, <1>3, <2>1, ViewStays DEF Chosen
<1>4. CASE JobList!Wait
  <2>1. /\ cache' = [k \in JobList!Keys |-> IF k \in JobList!inUse THEN cache[k]
                                             ELSE JobList!Age(cache[k])]
        /\ UNCHANGED <<history, command, tab, page, size, type, selected, pending, done, outrun, ticked>>
    BY <1>4 DEF JobList!Wait, JobList!view, JobList!choice, JobList!ghosts
  <2>2. ASSUME NEW k \in JobList!Keys
        PROVE  cache'[k] \in Upto(now) /\ (Good(cache[k], done) => Good(cache'[k], done))
    <3>1. cache[k] \in Upto(now) BY <1>2
    <3> QED BY <1>2, <2>1, <3>1, AgeGood
  <2>3. cache' \in [JobList!Keys -> Upto(now)] BY <2>1, <2>2
  <2> QED BY <1>3, <2>1, <2>2, <2>3, CacheReplaced DEF JobsInv
<1>5. CASE JobList!Pushed
  <2>1. JobList!invalidateJobs
        /\ UNCHANGED <<history, command, tab, page, size, type, selected, pending, done, ticked>>
    BY <1>5 DEF JobList!Pushed, JobList!view, JobList!choice
  <2> QED BY <1>2, <1>3, <2>1, CacheInvalidated DEF JobsInv
<1>6. ASSUME NEW j \in Jobs, JobList!Work(j) PROVE JobsInv'
  <2> DEFINE h == [history[now] EXCEPT ![j] = "failed"]
  <2>1. /\ now < MaxVersions /\ history[now][j] = "enqueued" /\ history' = Append(history, h)
        /\ UNCHANGED <<cache, tab, page, size, type, selected, pending, command, done, outrun, ticked>>
    BY <1>2, <1>6 DEF JobList!Work, JobList!view, JobList!choice, JobList!ghosts
  <2>2. h \in [Jobs -> JobList!States]
    <3>1. history[now] \in [Jobs -> JobList!States]
      BY <1>1, <1>2, ElementOfSeq DEF Versions, now
    <3> QED BY <3>1, PagesAssumption DEF JobList!States
  <2> HIDE DEF h
  <2>3. /\ Versions' /\ now' = now + 1
        /\ \A v \in 1..now : history'[v] = history[v]
    BY <1>1, <2>1, <2>2, VersionAdded
  <2>4. Browsing' /\ Chosen' BY <1>1, <2>1, <2>3, ViewStays DEF Chosen
  <2>5. Commanded'
    <3>1. \A i \in DOMAIN command : command[i].made \in 0..now BY SentParts
    <3>2. \A i \in DOMAIN command' : command'[i].made <= now' BY <1>2, <2>1, <2>3, <3>1
    <3> QED BY <1>1, <2>1, <3>2 DEF Commanded
  <2> QED BY <2>1, <2>3, <2>4, <2>5, CacheKept DEF JobsInv
<1>7. ASSUME NEW k \in JobList!Keys, NEW e, e = JobList!Settle(cache[k]) \/ e = JobList!Fail(cache[k]),
             cache[k].fetch # 0, cache' = [cache EXCEPT ![k] = e],
             UNCHANGED <<history, command, tab, page, size, type, selected, pending, done, outrun, ticked>>
      PROVE  JobsInv'
  <2>1. cache[k] \in Upto(now) BY <1>2
  <2>2. e \in Upto(now) /\ (Good(cache[k], done) => Good(e, done))
    BY <1>2, <1>7, <2>1, SettleGood, FailGood
  <2>3. cache' \in [JobList!Keys -> Upto(now)] BY <1>2, <1>7, <2>2
  <2>4. \A l \in JobList!Keys : Good(cache[l], done) => Good(cache'[l], done)
    BY <1>2, <1>7, <2>2
  <2> QED BY <1>3, <1>7, <2>3, <2>4, CacheReplaced DEF JobsInv
<1>8. ASSUME NEW k \in JobList!Keys, JobList!Fetched(k) PROVE JobsInv'
  <2>1. cache[k].fetch # 0 /\ cache' = [cache EXCEPT ![k] = JobList!Settle(cache[k])]
    BY <1>8 DEF JobList!Fetched
  <2> QED BY <1>7, <1>8, <2>1 DEF JobList!Fetched, JobList!view, JobList!choice, JobList!ghosts
<1>9. ASSUME NEW k \in JobList!Keys, JobList!FetchFails(k) PROVE JobsInv'
  <2>1. cache[k].fetch # 0 /\ cache' = [cache EXCEPT ![k] = JobList!Fail(cache[k])]
    BY <1>9 DEF JobList!FetchFails
  <2> QED BY <1>7, <1>9, <2>1 DEF JobList!FetchFails, JobList!view, JobList!choice, JobList!ghosts
<1> QED BY <1>4, <1>5, <1>6, <1>8, <1>9

LEMMA JobsStep == ASSUME JobsInv, JobList!Next PROVE JobsInv'
<1>1. JobList!Cardinality(Jobs) = Cardinality(Jobs) BY Counting
<1> QED BY <1>1, UserMoves, UserChooses, Commands, ServerAndCache DEF JobList!Next

LEMMA JobsStutter ==
  ASSUME JobsInv,
         UNCHANGED <<history, cache, tab, page, size, selected, type, pending, command, done, outrun,
                     ticked>>
  PROVE  JobsInv'
<1>1. Browsing' BY DEF JobsInv, Browsing
<1>2. Versions' /\ Commanded' /\ now' = now BY HereStays
<1>3. Chosen'
  <2>1. \A j : ShownRow(j) => ShownRow(j)' BY DEF ShownRow, now
  <2>2. listed' = listed BY DEF listed
  <2> QED BY <2>1, <2>2 DEF JobsInv, Chosen
<1>4. Cached' BY <1>2, CacheKept
<1> QED BY <1>1, <1>2, <1>3, <1>4 DEF JobsInv

LEMMA JobsBegin == ASSUME JobList!Init PROVE JobsInv
<1>1. PICK first \in [Jobs -> JobList!States] : history = <<first>>
  BY PagesAssumption DEF JobList!Init
<1>2. now = 1 /\ Versions
  <2>1. history \in Seq([Jobs -> JobList!States]) /\ Len(history) = 1 BY <1>1
  <2> QED BY <2>1, PagesAssumption DEF Versions, now
<1>3. Browsing
  <2>1. size \in Sizes BY PagesAssumption DEF JobList!Init
  <2>2. 0 \in 0..Cardinality(Jobs) BY PagesAssumption, FS_CardinalityType
  <2> QED BY <2>1, <2>2 DEF JobList!Init, Browsing
<1>4. Chosen BY DEF JobList!Init, Chosen, JobList!NoCommand
<1>5. Commanded
  <2>1. command = << >> BY DEF JobList!Init
  <2> QED BY <2>1, EmptySeq DEF Commanded
<1>6. Cached
  <2>1. /\ done = 0 /\ outrun = {}
        /\ cache = [k \in JobList!Keys |-> IF k \in JobList!inUse
                                           THEN JobList!Fetch(JobList!Absent, 1) ELSE JobList!Absent]
    BY DEF JobList!Init
  <2>2. /\ JobList!Absent \in Upto(1) /\ JobList!Fetch(JobList!Absent, 1) \in Upto(1)
        /\ Good(JobList!Absent, 0) /\ Good(JobList!Fetch(JobList!Absent, 1), 0)
    <3>1. JobList!Absent \in Upto(1) /\ Good(JobList!Absent, 0) BY AbsentGood
    <3> QED BY <3>1, FetchGood
  <2>3. \A k \in JobList!Keys : cache[k] \in Upto(1) /\ Good(cache[k], 0)
    BY <2>1, <2>2
  <2>4. cache \in [JobList!Keys -> Upto(1)] BY <2>1, <2>3
  <2> QED BY <1>2, <2>1, <2>3, <2>4 DEF Cached
<1> QED BY <1>2, <1>3, <1>4, <1>5, <1>6 DEF JobsInv

\* An entry at rest that does not count as stale has data that counts as valid.
LEMMA JobsFresh == ASSUME JobsInv PROVE JobList!SettledIsFresh
<1>1. ASSUME NEW k \in JobList!Keys \ outrun,
             cache[k].data # 0, cache[k].fetch = 0, ~JobList!Stale(cache[k])
      PROVE  cache[k].data >= done
  BY <1>1 DEF JobsInv, Cached, Good, JobList!Stale
<1> QED BY <1>1 DEF JobList!SettledIsFresh

-------------------------------------------------------------------------------
(* The pages an operator changes rows on.                                  *)

LEMMA SameCache ==
  ASSUME NEW e, NEW n, NEW u
  PROVE  /\ Admin!Absent = JobList!Absent
         /\ Admin!Fetch(e, n) = JobList!Fetch(e, n)
         /\ Admin!Invalidate(e, u, n) = JobList!Invalidate(e, u, n)
         /\ Admin!Settle(e) = JobList!Settle(e)
         /\ Admin!Fail(e) = JobList!Fail(e)
BY DEF Admin!Absent, Admin!Fetch, Admin!Invalidate, Admin!Settle, Admin!Fail,
       JobList!Absent, JobList!Fetch, JobList!Invalidate, JobList!Settle, JobList!Fail

IsSequence(s) == s \in Seq({s[i] : i \in DOMAIN s})

LEMMA LongerSequence ==
  ASSUME NEW s, IsSequence(s), NEW e
  PROVE  /\ IsSequence(Append(s, e)) /\ Len(s) \in Nat /\ DOMAIN s = 1..Len(s)
         /\ Len(Append(s, e)) = Len(s) + 1
         /\ DOMAIN Append(s, e) = 1..Len(s) + 1
         /\ \A i \in 1..Len(s) : Append(s, e)[i] = s[i]
         /\ Append(s, e)[Len(s) + 1] = e
<1> DEFINE S == {s[i] : i \in DOMAIN s} \cup {e}
           a == Append(s, e)
<1>1. s \in Seq(S) BY SeqMonotonic DEF IsSequence
<1> HIDE DEF S
<1>2. e \in S BY DEF S
<1>3. /\ a \in Seq(S) /\ Len(s) \in Nat /\ DOMAIN s = 1..Len(s) /\ Len(a) = Len(s) + 1
      /\ \A i \in 1..Len(s) : a[i] = s[i]
      /\ a[Len(s) + 1] = e
  BY <1>1, <1>2, AppendProperties, LenProperties
<1>4. DOMAIN a = 1..Len(s) + 1 BY <1>3, LenProperties
<1> HIDE DEF a
<1>5. a \in Seq({a[i] : i \in DOMAIN a})
  <2> DEFINE n == Len(s) + 1
  <2>1. n \in Nat BY <1>3
  <2>2. DOMAIN a = 1..n BY <1>4
  <2>3. a \in [1..n -> S] BY <1>3, <2>2, LenProperties
  <2> HIDE DEF n
  <2>4. a \in [1..n -> {a[i] : i \in DOMAIN a}] BY <2>2, <2>3
  <2> QED BY <2>1, <2>4, SeqDef
<1> QED BY <1>3, <1>4, <1>5 DEF IsSequence, a

\* A table that is polled has one entry, as only the recurring jobs are listed by pages.
\* Commands are given from a table that is there, so no first fetch is under way when one
\* of them succeeds, and only the first is left alone by an invalidation.
Polling ==
  /\ IsSequence(history) /\ now \in Nat \ {0}
  /\ cache \in [{<<page, size>>} -> Upto(now)]
  /\ IsSequence(command)
  /\ \A i \in DOMAIN command : "made" \in DOMAIN command[i] /\ command[i].made \in 0..now
  /\ command # << >> => Admin!entry.data # 0
  /\ done \in 0..now
  /\ Good(Admin!entry, done)
  /\ Admin!entry.fetch = 0 /\ Admin!entry.data # 0 /\ Admin!entry.invalid => Admin!entry.failed

PolledScreens == AdminScreens \ {"recurring"}

LEMMA PolledKeys ==
  ASSUME screen \in PolledScreens
  PROVE  Admin!Keys = {<<page, size>>} /\ Admin!Polled /\ Admin!inUse = {<<page, size>>}
BY DEF PolledScreens, Admin!Keys, Admin!inUse, Admin!Polled

LEMMA PollingBegins == ASSUME screen \in PolledScreens, Admin!Init PROVE Polling
<1>1. PICK x : history = <<x>> BY DEF Admin!Init
<1>2. IsSequence(history) /\ Len(history) = 1
  <2>1. DOMAIN history = {1} /\ history[1] = x BY <1>1
  <2>2. {history[i] : i \in DOMAIN history} = {x} BY <2>1
  <2> QED BY <1>1, <2>2 DEF IsSequence
<1>3. command = << >> /\ IsSequence(command)
  BY EmptySeq DEF Admin!Init, IsSequence
<1>4. /\ JobList!Absent \in Upto(1) /\ JobList!Fetch(JobList!Absent, 1) \in Upto(1)
      /\ JobList!Fetch(JobList!Absent, 1).data = 0 /\ JobList!Fetch(JobList!Absent, 1).fetch = 1
      /\ Good(JobList!Fetch(JobList!Absent, 1), 0)
  <2>1. JobList!Absent \in Upto(1) /\ Good(JobList!Absent, 0) BY AbsentGood
  <2>2. JobList!Absent.data = 0 BY DEF JobList!Absent
  <2> QED BY <2>1, <2>2, FetchGood
<1>5. cache = [k \in {<<page, size>>} |-> JobList!Fetch(JobList!Absent, 1)]
  BY PolledKeys, SameCache DEF Admin!Init
<1>6. Admin!entry = JobList!Fetch(JobList!Absent, 1) BY <1>5 DEF Admin!entry
<1>7. cache \in [{<<page, size>>} -> Upto(1)] BY <1>4, <1>5
<1>8. done = 0 BY DEF Admin!Init
<1> QED BY <1>2, <1>3, <1>4, <1>6, <1>7, <1>8 DEF Polling, now

\* A step that leaves the table, the server and the commands alone.
LEMMA PollingStutter ==
  ASSUME Polling, UNCHANGED <<history, cache, page, size, command, done>>
  PROVE  Polling'
BY DEF Polling, now, Admin!entry

\* A command is sent from a table on the screen.
LEMMA PollingSends ==
  ASSUME Polling, Admin!Shown, NEW verb, NEW id, NEW row,
         command' = Append(command, [verb |-> verb, id |-> id, row |-> row,
                                     made |-> 0, over |-> FALSE]),
         UNCHANGED <<history, cache, page, size, done>>
  PROVE  Polling'
<1> DEFINE c == [verb |-> verb, id |-> id, row |-> row, made |-> 0, over |-> FALSE]
<1>1. "made" \in DOMAIN c /\ c.made = 0 OBVIOUS
<1>2. command' = Append(command, c) OBVIOUS
<1> HIDE DEF c
<1>3. /\ IsSequence(command') /\ Len(command) \in Nat
      /\ DOMAIN command = 1..Len(command) /\ DOMAIN command' = 1..Len(command) + 1
      /\ \A i \in 1..Len(command) : command'[i] = command[i]
      /\ command'[Len(command) + 1] = c
  BY <1>2, LongerSequence DEF Polling
<1>4. now' = now /\ now \in Nat BY DEF now, Polling
<1>5. \A i \in DOMAIN command' : "made" \in DOMAIN command'[i] /\ command'[i].made \in 0..now'
  <2> TAKE i \in DOMAIN command'
  <2>1. CASE i \in 1..Len(command) BY <1>3, <1>4, <2>1 DEF Polling
  <2>2. CASE i = Len(command) + 1 BY <1>1, <1>3, <1>4, <2>2
  <2> QED BY <1>3, <2>1, <2>2
<1>6. Admin!entry' = Admin!entry BY DEF Admin!entry
<1>7. Admin!entry.data # 0 BY DEF Admin!Shown, Admin!Visible
<1> QED BY <1>3, <1>4, <1>5, <1>6, <1>7 DEF Polling

\* What is noted of a command is the version it made, or that it is over.
LEMMA CommandsKept ==
  ASSUME Polling, NEW i \in DOMAIN command, NEW c,
         "made" \in DOMAIN c, c.made \in 0..now',
         command' = [command EXCEPT ![i] = c], now' \in {now, now + 1}
  PROVE  /\ IsSequence(command') /\ command # << >>
         /\ \A k \in DOMAIN command' : "made" \in DOMAIN command'[k] /\ command'[k].made \in 0..now'
<1>1. DOMAIN command' = DOMAIN command /\ \A k \in DOMAIN command : command'[k] = IF k = i THEN c ELSE command[k]
  OBVIOUS
<1>2. \E n \in Nat : DOMAIN command = 1..n
  BY LenProperties DEF Polling, IsSequence
<1>3. IsSequence(command')
  <2>1. PICK n \in Nat : DOMAIN command = 1..n BY <1>2
  <2>2. command' = [k \in DOMAIN command |-> IF k = i THEN c ELSE command[k]]
    OBVIOUS
  <2> DEFINE R == {command'[k] : k \in DOMAIN command'}
  <2>3. command' \in [1..n -> R] BY <1>1, <2>1, <2>2
  <2>4. IsSequence(command') <=> command' \in Seq(R) BY DEF IsSequence
  <2> HIDE DEF R
  <2>5. Seq(R) = UNION {[1..m -> R] : m \in Nat} BY SeqDef
  <2>6. command' \in Seq(R) BY <2>1, <2>3, <2>5
  <2> QED BY <2>4, <2>6
<1>4. command # << >> BY <1>2
<1>5. \A k \in DOMAIN command' : "made" \in DOMAIN command'[k] /\ command'[k].made \in 0..now'
  BY <1>1 DEF Polling
<1> QED BY <1>3, <1>4, <1>5

\* The server's version goes up, whatever the table has.
LEMMA PollingServed ==
  ASSUME Polling, NEW rows, history' = Append(history, rows),
         UNCHANGED <<cache, page, size, done>>,
         IsSequence(command'), command' # << >> => command # << >>,
         \A k \in DOMAIN command' : "made" \in DOMAIN command'[k] /\ command'[k].made \in 0..now'
  PROVE  Polling'
<1>1. IsSequence(history') /\ now' = now + 1 /\ now \in Nat \ {0}
  BY LongerSequence DEF Polling, now
<1>2. Upto(now) \subseteq Upto(now') BY <1>1, UptoMore
<1>3. cache' \in [{<<page', size'>>} -> Upto(now')] BY <1>2 DEF Polling
<1>4. Admin!entry' = Admin!entry BY DEF Admin!entry
<1> QED BY <1>1, <1>3, <1>4 DEF Polling

\* The table's entry is replaced.
LEMMA PollingReplaced ==
  ASSUME Polling, NEW e \in Upto(now), cache' = [k \in {<<page, size>>} |-> e],
         UNCHANGED <<history, page, size>>,
         IsSequence(command'), command' # << >> => e.data # 0,
         \A k \in DOMAIN command' : "made" \in DOMAIN command'[k] /\ command'[k].made \in 0..now,
         done' \in 0..now, Good(e, done'),
         e.fetch = 0 /\ e.data # 0 /\ e.invalid => e.failed
  PROVE  Polling'
<1>1. now' = now BY DEF now
<1>2. Admin!entry' = e BY DEF Admin!entry
<1>3. cache' \in [{<<page', size'>>} -> Upto(now')] BY <1>1
<1> QED BY <1>1, <1>2, <1>3 DEF Polling

\* A step of the server or the cache.
LEMMA PollingAnswers ==
  ASSUME Polling, screen \in PolledScreens,
         \/ Admin!Poll \/ Admin!Wait
         \/ \E c \in Admin!Commands(screen) : Admin!Meddle(c)
         \/ \E i \in DOMAIN command : Admin!Serve(i) \/ Admin!Succeeds(i) \/ Admin!Errors(i)
         \/ \E k \in Admin!Keys : Admin!Fetched(k) \/ Admin!FetchFails(k)
  PROVE  Polling'
<1> DEFINE here == <<page, size>>
           e == Admin!entry
<1>1. /\ Admin!Keys = {here} /\ Admin!inUse = {here} /\ Admin!now = now
      /\ now \in Nat \ {0} /\ cache \in [{here} -> Upto(now)]
      /\ e = cache[here] /\ e \in Upto(now) /\ done \in 0..now
  BY PolledKeys DEF Polling, Admin!now, now, Admin!entry
<1>2. /\ e.data \in 0..now /\ e.fetch \in 0..now
      /\ e.invalid \in BOOLEAN /\ e.failed \in BOOLEAN
  BY <1>1, EntryParts
<1>3. \A x : [cache EXCEPT ![here] = x] = [k \in {here} |-> x] BY <1>1
<1>4. Polling BY DEF Polling
<1> HIDE DEF e, here
<1>5. CASE Admin!Poll
  <2> DEFINE g == JobList!Fetch(e, now)
  <2>1. cache' = [k \in {here} |-> g] /\ UNCHANGED <<history, page, size, command, done>>
    BY <1>1, <1>3, <1>5, SameCache DEF Admin!Poll, Admin!view, here
  <2>2. g \in Upto(now) /\ Good(g, done) /\ g.data = e.data /\ g.fetch = now
    BY <1>1, FetchGood DEF Polling, e
  <2> HIDE DEF g
  <2>3. now' = now BY <2>1 DEF now
  <2> QED BY <1>1, <2>1, <2>2, <2>3, PollingReplaced DEF Polling, e, here
<1>6. CASE Admin!Wait
  <2>1. cache' = cache BY <1>1, <1>6 DEF Admin!Wait
  <2> QED BY <1>6, <2>1 DEF Admin!Wait
<1>7. ASSUME NEW c, Admin!Meddle(c) PROVE Polling'
  <2>1. /\ history' = Append(history, Admin!Served(history[now], c))
        /\ UNCHANGED <<cache, page, size, command, done>>
    BY <1>1, <1>7 DEF Admin!Meddle, Admin!view
  <2>2. now' = now + 1 BY <2>1, LongerSequence DEF Polling, now
  <2>3. \A k \in DOMAIN command' : "made" \in DOMAIN command'[k] /\ command'[k].made \in 0..now'
    BY <1>1, <2>1, <2>2 DEF Polling
  <2> QED BY <2>1, <2>3, PollingServed DEF Polling
<1>8. ASSUME NEW i \in DOMAIN command, Admin!Serve(i) PROVE Polling'
  <2> DEFINE c == [command[i] EXCEPT !.made = now + 1]
  <2>1. /\ history' = Append(history, Admin!Served(history[now], command[i]))
        /\ command' = [command EXCEPT ![i] = c]
        /\ UNCHANGED <<cache, page, size, done>>
    BY <1>1, <1>8 DEF Admin!Serve, Admin!view
  <2>2. now' = now + 1 BY <2>1, LongerSequence DEF Polling, now
  <2>3. "made" \in DOMAIN c /\ c.made = now + 1 BY DEF Polling
  <2> HIDE DEF c
  <2>4. c.made \in 0..now' /\ now' \in {now, now + 1} BY <1>1, <2>2, <2>3
  <2> QED BY <2>1, <2>3, <2>4, CommandsKept, PollingServed
<1>9. ASSUME NEW i \in DOMAIN command, Admin!Succeeds(i) PROVE Polling'
  <2> DEFINE c == [command[i] EXCEPT !.over = TRUE]
             g == JobList!Invalidate(e, TRUE, now)
  <2>1. /\ command' = [command EXCEPT ![i] = c]
        /\ done' = IF command[i].made > done THEN command[i].made ELSE done
        /\ cache' = [k \in {here} |-> g]
        /\ UNCHANGED <<history, page, size>>
    <3>1. cache' = [k \in {here} |-> Admin!Invalidate(cache[k], TRUE, now)]
      BY <1>1, <1>9 DEF Admin!Succeeds
    <3>2. Admin!Invalidate(cache[here], TRUE, now) = g BY <1>1, SameCache
    <3> QED BY <1>9, <3>1, <3>2 DEF Admin!Succeeds, Admin!view
  <2>2. /\ "made" \in DOMAIN c /\ c.made = command[i].made /\ command[i].made \in 0..now
    BY DEF Polling
  <2> HIDE DEF c
  <2>3. now' = now BY <2>1 DEF now
  <2>4. /\ IsSequence(command') /\ command # << >>
        /\ \A k \in DOMAIN command' : "made" \in DOMAIN command'[k] /\ command'[k].made \in 0..now
    BY <2>1, <2>2, <2>3, CommandsKept
  <2>5. done' \in 0..now BY <1>1, <2>1, <2>2
  <2>6. e.data # 0 BY <2>4 DEF Polling, e
  <2>7. ~JobList!Outruns(e, TRUE) BY <2>6 DEF JobList!Outruns
  <2>8. g \in Upto(now) /\ Good(g, done')
    BY <1>1, <2>5, <2>7, InvalidateGood
  <2>9. g.data = e.data /\ g.fetch = now
    <3> DEFINE x == [e EXCEPT !.invalid = TRUE]
    <3>1. e # JobList!Absent BY <2>6 DEF JobList!Absent
    <3>2. g = JobList!Fetch(x, now) BY <2>6, <3>1 DEF JobList!Invalidate
    <3>3. x \in Upto(now) /\ x.data = e.data BY <1>1 DEF Upto, JobList!Entries
    <3> HIDE DEF x
    <3> QED BY <1>1, <3>2, <3>3, FetchGood
  <2> HIDE DEF g
  <2> QED BY <1>1, <2>1, <2>4, <2>5, <2>6, <2>8, <2>9, PollingReplaced DEF here
<1>10. ASSUME NEW i \in DOMAIN command, Admin!Errors(i) PROVE Polling'
  <2> DEFINE c == [command[i] EXCEPT !.over = TRUE]
  <2>1. command' = [command EXCEPT ![i] = c]
        /\ UNCHANGED <<history, cache, page, size, done>>
    BY <1>10 DEF Admin!Errors, Admin!view
  <2>2. /\ "made" \in DOMAIN c /\ c.made = command[i].made /\ command[i].made \in 0..now
    BY DEF Polling
  <2> HIDE DEF c
  <2>3. now' = now BY <2>1 DEF now
  <2>4. /\ IsSequence(command') /\ command # << >>
        /\ \A k \in DOMAIN command' : "made" \in DOMAIN command'[k] /\ command'[k].made \in 0..now'
    BY <2>1, <2>2, <2>3, CommandsKept
  <2>5. Admin!entry' = Admin!entry BY <2>1 DEF Admin!entry
  <2> QED BY <2>1, <2>3, <2>4, <2>5 DEF Polling
<1>11. ASSUME NEW k \in Admin!Keys, Admin!Fetched(k) PROVE Polling'
  <2> DEFINE g == JobList!Settle(e)
  <2>1. k = here /\ e.fetch # 0 BY <1>1, <1>11 DEF Admin!Fetched
  <2>2. cache' = [l \in {here} |-> g] /\ UNCHANGED <<history, page, size, command, done>>
    BY <1>1, <1>3, <1>11, <2>1, SameCache DEF Admin!Fetched, Admin!view
  <2>3. g \in Upto(now) /\ Good(g, done) /\ g.data = e.fetch /\ ~g.invalid
    <3>1. ~g.invalid BY DEF JobList!Settle, JobList!Absent
    <3> HIDE DEF g
    <3> QED BY <1>1, <2>1, <3>1, SettleGood DEF Polling, e, g
  <2> HIDE DEF g
  <2>4. now' = now BY <2>2 DEF now
  <2> QED BY <1>1, <2>1, <2>2, <2>3, <2>4, PollingReplaced DEF Polling, here
<1>12. ASSUME NEW k \in Admin!Keys, Admin!FetchFails(k) PROVE Polling'
  <2> DEFINE g == JobList!Fail(e)
  <2>1. k = here BY <1>1
  <2>2. cache' = [l \in {here} |-> g] /\ UNCHANGED <<history, page, size, command, done>>
    BY <1>1, <1>3, <1>12, <2>1, SameCache DEF Admin!FetchFails, Admin!view
  <2>3. g \in Upto(now) /\ Good(g, done) /\ g.data = e.data /\ g.failed
    BY <1>1, FailGood
  <2> HIDE DEF g
  <2>4. now' = now BY <2>2 DEF now
  <2> QED BY <1>1, <2>2, <2>3, <2>4, PollingReplaced DEF Polling, e, here
<1> QED BY <1>5, <1>6, <1>7, <1>8, <1>9, <1>10, <1>11, <1>12

LEMMA PollingStep == ASSUME Polling, screen \in PolledScreens, Admin!Next PROVE Polling'
<1>1. screen # "recurring" BY DEF PolledScreens
<1>2. CASE \/ Admin!Poll \/ Admin!Wait
           \/ \E c \in Admin!Commands(screen) : Admin!Meddle(c)
           \/ \E i \in DOMAIN command : Admin!Serve(i) \/ Admin!Succeeds(i) \/ Admin!Errors(i)
           \/ \E k \in Admin!Keys : Admin!Fetched(k) \/ Admin!FetchFails(k)
  BY <1>2, PollingAnswers
<1>3. ASSUME NEW n, \/ Admin!startEdit(n) \/ Admin!cancelEdit(n)
                    \/ \E verb : Admin!Ask(n, verb)
                    \/ \E d : Admin!Type(n, d)
                    \/ Admin!OpenAdd \/ Admin!CloseAdd \/ Admin!Cancel
      PROVE  Polling'
  <2>1. UNCHANGED <<history, cache, page, size, command, done>>
    BY <1>3 DEF Admin!startEdit, Admin!cancelEdit, Admin!Ask, Admin!Type, Admin!OpenAdd,
       Admin!CloseAdd, Admin!Cancel, Admin!view
  <2> QED BY <2>1, PollingStutter
<1>4. ASSUME NEW n, Admin!saveEdit(n) PROVE Polling'
  <2>1. Admin!Shown /\ UNCHANGED <<history, cache, page, size, done>>
    BY <1>4 DEF Admin!saveEdit, Admin!On, Admin!Reachable, Admin!view
  <2>2. UNCHANGED command \/ Admin!Send("save", n, edit.draft)
    BY <1>4 DEF Admin!saveEdit
  <2> QED BY <2>1, <2>2, PollingStutter, PollingSends DEF Admin!Send
<1>5. ASSUME NEW n, NEW d, Admin!submit(n, d) PROVE Polling'
  <2>1. Admin!Shown /\ UNCHANGED <<history, cache, page, size, done>>
    BY <1>5 DEF Admin!submit, Admin!view
  <2>2. UNCHANGED command \/ Admin!Send("add", n, d)
    BY <1>5 DEF Admin!submit
  <2> QED BY <2>1, <2>2, PollingStutter, PollingSends DEF Admin!Send
<1>6. CASE Admin!handleDelete
  BY <1>6, PollingSends DEF Admin!handleDelete, Admin!Send, Admin!view
<1>7. ASSUME NEW n, NEW verb, Admin!handleToggle(n, verb) PROVE Polling'
  BY <1>7, PollingSends
     DEF Admin!handleToggle, Admin!On, Admin!Reachable, Admin!Send, Admin!view
<1>8. ~Admin!runPending /\ \A p, s : ~Admin!Turn(p, s)
  BY <1>1 DEF Admin!runPending, Admin!Turn
<1> QED BY <1>2, <1>3, <1>4, <1>5, <1>6, <1>7, <1>8 DEF Admin!Next

\* Data on the screen and at rest is no answer that failed or was invalidated.
LEMMA PollingShows == ASSUME Polling PROVE Admin!AcknowledgedIsShown
<1>1. Admin!entry \in Upto(now) /\ now \in Nat BY DEF Polling, Admin!entry
<1>2. Admin!entry.invalid \in BOOLEAN /\ Admin!entry.failed \in BOOLEAN BY <1>1, EntryParts
<1> QED BY <1>2 DEF Polling, Good, Admin!AcknowledgedIsShown, Admin!Shown, Admin!Visible

-------------------------------------------------------------------------------
(* The pages together.                                                     *)

PagesInv ==
  /\ screen = "jobs" => JobsInv
  /\ screen \in PolledScreens => Polling

LEMMA PagesBegin == PagesInit => PagesInv
<1> SUFFICES ASSUME PagesInit PROVE PagesInv OBVIOUS
<1>1. CASE JobList!Init /\ screen = "jobs"
  BY <1>1, JobsBegin DEF PagesInv, PolledScreens, AdminScreens
<1>2. CASE Admin!Init
  <2>1. screen \in AdminScreens BY <1>2 DEF Admin!Init
  <2> QED BY <1>2, <2>1, PollingBegins DEF PagesInv, AdminScreens
<1>3. CASE screen = "trace"
  BY <1>3 DEF PagesInv, PolledScreens, AdminScreens
<1> QED BY <1>1, <1>2, <1>3 DEF PagesInit

LEMMA PagesStep == PagesInv /\ [PagesNext]_pages => PagesInv'
<1> SUFFICES ASSUME PagesInv, [PagesNext]_pages PROVE PagesInv' OBVIOUS
<1>1. CASE screen = "jobs" /\ JobList!Next /\ KeepJobList
  <2>1. screen' = "jobs" /\ JobsInv' BY <1>1, JobsStep DEF PagesInv, KeepJobList
  <2> QED BY <2>1 DEF PagesInv, PolledScreens, AdminScreens
<1>2. CASE screen \in AdminScreens /\ Admin!Next /\ KeepAdmin
  <2>1. screen' = screen
    BY <1>2 DEF Admin!Next, Admin!startEdit, Admin!cancelEdit, Admin!saveEdit, Admin!Type,
       Admin!submit, Admin!OpenAdd, Admin!CloseAdd, Admin!handleDelete, Admin!Cancel,
       Admin!runPending, Admin!Poll, Admin!Wait, Admin!Ask, Admin!handleToggle, Admin!Turn,
       Admin!Meddle, Admin!Serve, Admin!Succeeds, Admin!Errors, Admin!Fetched,
       Admin!FetchFails, Admin!place
  <2>2. screen # "jobs" BY <1>2 DEF AdminScreens
  <2>3. screen \in PolledScreens => Polling' BY <1>2, PollingStep DEF PagesInv
  <2> QED BY <2>1, <2>2, <2>3 DEF PagesInv
<1>3. CASE UNCHANGED <<screen, history, cache, tab, page, size, selected, type, pending,
                       command, done, outrun, ticked>>
  <2>1. JobsInv => JobsInv' BY <1>3, JobsStutter
  <2>2. Polling => Polling' BY <1>3, PollingStutter
  <2> QED BY <1>3, <2>1, <2>2 DEF PagesInv
<1>4. CASE screen = "trace" /\ KeepPages BY <1>3, <1>4 DEF KeepPages
<1>5. CASE UNCHANGED pages BY <1>3, <1>5 DEF pages
<1> QED BY <1>1, <1>2, <1>4, <1>5 DEF PagesNext

LEMMA PagesInvariant == PagesSpec => []PagesInv
BY PagesBegin, PagesStep, PTL DEF PagesSpec

\* useJobs.ts:58-62: onSuccess invalidates everything under 'jobs'.  After that no
\* list of jobs settles on what was there before the command, whichever state, page, page
\* size or filter it was left for, unless its fetch was not restarted (outrun).
THEOREM ListsSettleFresh == PagesSpec => []SettledIsFresh
<1>1. PagesInv => SettledIsFresh BY JobsFresh DEF PagesInv, SettledIsFresh
<1> QED BY <1>1, PagesInvariant, PTL

\* JobListPage.tsx:43-46, 218, 235-250: the selection is emptied whenever the state, the page
\* size or the filter changes, so every ticked row was on a page of the list on the screen.  The
\* ids of an open dialog, which a change of state leaves open, were ticked on one list.
THEOREM SelectionsWereShown == PagesSpec => []SelectionWasShown
<1>1. PagesInv => SelectionWasShown BY ChosenShown DEF PagesInv, SelectionWasShown, JobsInv
<1> QED BY <1>1, PagesInvariant, PTL

\* The limit and server pages: onSuccess invalidates the table's query in use, and the table
\* at rest is as new as every command reported done, polls and all.
THEOREM TablesAcknowledge == PagesSpec => []AcknowledgedIsShown
<1>1. PagesInv => AcknowledgedIsShown
  <2> SUFFICES ASSUME PagesInv, screen \in AdminScreens PROVE Admin!AcknowledgedIsShown
    BY DEF AcknowledgedIsShown
  <2>1. CASE screen \in PolledScreens BY <2>1, PollingShows DEF PagesInv
  <2>2. CASE screen = "recurring" BY <2>2 DEF Admin!AcknowledgedIsShown, Admin!Polled
  <2> QED BY <2>1, <2>2 DEF PolledScreens
<1> QED BY <1>1, PagesInvariant, PTL

\* No other page touches what the trace page shows, so what is proved of it alone holds with
\* the router around it.
THEOREM TracePageIsItself == PagesSpec => Spec
<1>1. PagesInit => Init BY DEF PagesInit
<1>2. [PagesNext]_pages => [Next]_vars
  BY DEF PagesNext, KeepJobList, KeepAdmin, pages
<1> QED BY <1>1, <1>2, PTL DEF PagesSpec, Spec

=============================================================================
