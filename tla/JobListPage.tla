---------------------------- MODULE JobListPage ----------------------------
(***************************************************************************)
(* The jobs section of the dashboard: pages/jobs/JobListPage.tsx with the  *)
(* queries and mutations of api/hooks/useJobs.ts.  The user pages through  *)
(* a state's jobs, filters the failed ones by type, ticks rows and acts on *)
(* one job, on the ticked ones or on a type, while the jobs change and     *)
(* other tabs, pages and filters sit in the query cache.                   *)
(***************************************************************************)
EXTENDS Integers, Sequences, FiniteSets, QueryCache

CONSTANTS Jobs,         \* 1..n, in the order the lists show them
          TypeOf,       \* the type of each job
          First,        \* the states of the jobs to begin with
          Tabs,         \* the states with a list
          Sizes,        \* the page sizes
          MaxVersions, MaxCommands, MaxMoves, MaxFaults

VARIABLES history,      \* the jobs' states, version by version
          cache,        \* the query cache
          tab, page, size, selected, type, pending,   \* the page's state
          command,      \* the mutations, in the order they were confirmed
          done,         \* the newest version an own command is known to have made
          outrun,       \* entries whose fetch outran an invalidation
          ticked,       \* the list each row was last ticked on, and its version
          moves, faults

server == <<history>>
view == <<tab, page, size, type>>
choice == <<selected, pending>>
ghosts == <<done, outrun, ticked>>
vars == <<history, cache, view, choice, command, ghosts, moves, faults>>

Types == {TypeOf[j] : j \in Jobs}
States == Tabs \cup {"enqueued", "deleted"}
NoType == "all"
now == Len(history)

ListKey(t, p, s) == <<t, p, s>>
TypedKey(ty, p, s) == <<ty, p, s>>
Keys == (Tabs \cup Types) \X (0..Cardinality(Jobs)) \X Sizes

NotTicked == [list |-> <<NoType, 0, 0>>, at |-> 0]
NoCommand == [verb |-> "none", scope |-> "one", ids |-> {}]
Requests == [verb : {"requeue", "delete"}, scope : {"one", "bulk", "type"}, ids : SUBSET Jobs]

-----------------------------------------------------------------------------
(* What the server answers and what the page shows.                        *)

\* The jobs of a state, or the failed ones of a type, as the server has them.
InList(k, v) ==
  {j \in Jobs : IF k[1] \in Tabs THEN history[v][j] = k[1]
                ELSE history[v][j] = "failed" /\ TypeOf[j] = k[1]}

Rows(k, v) ==
  LET all == InList(k, v)
  IN  {j \in all : Cardinality({i \in all : i < j}) \div k[3] = k[2]}

pageCount(k, v) == (Cardinality(InList(k, v)) + k[3] - 1) \div k[3]

isFailed == tab = "failed"
listQuery == ListKey(tab, page, size)
typedQuery == TypedKey(type, page, size)
active == IF isFailed /\ type # NoType THEN typedQuery ELSE listQuery

\* The queries a view observes: the list whatever is shown, and the filtered
\* list while it is enabled.
Observed(t, p, s, ty) ==
  {ListKey(t, p, s)}
    \cup (IF t = "failed" /\ ty # NoType THEN {TypedKey(ty, p, s)} ELSE {})
inUse == Observed(tab, page, size, type)

\* Neither ErrorState nor LoadingState.
Shown == Visible(cache[active])
shownRows == Rows(active, cache[active].data)

Watch(c, ks) == [k \in Keys |-> IF k \in ks THEN Observe(c[k], now) ELSE c[k]]

TypeOK ==
  /\ history \in Seq([Jobs -> States])
  /\ cache \in [Keys -> Entries(1..MaxVersions)]
  /\ tab \in Tabs /\ page \in Nat /\ size \in Sizes /\ type \in Types \cup {NoType}
  /\ selected \subseteq Jobs
  /\ pending \in Requests \cup {NoCommand}
  /\ done \in 0..MaxVersions /\ outrun \subseteq Keys
  /\ ticked \in [Jobs -> [list : Keys, at : 1..MaxVersions] \cup {NotTicked}]

Init ==
  /\ \E first \in First : history = <<first>>
  /\ tab \in Tabs /\ page = 0 /\ size = CHOOSE s \in Sizes : \A r \in Sizes : s <= r
  /\ type = NoType /\ selected = {} /\ pending = NoCommand
  /\ cache = [k \in Keys |-> IF k \in inUse THEN Fetch(Absent, 1) ELSE Absent]
  /\ command = <<>> /\ done = 0 /\ outrun = {}
  /\ ticked = [j \in Jobs |-> NotTicked]
  /\ moves = 0 /\ faults = 0

-----------------------------------------------------------------------------
(* The user moves about.                                                   *)

\* An emptied selection leaves what a dialog was opened with.
Forget == ticked' = [j \in Jobs |-> IF j \in pending.ids THEN ticked[j] ELSE NotTicked]

Moved == moves < MaxMoves /\ moves' = moves + 1

\* The dialog is modal: with it open only the browser's own buttons move.
Reachable == Shown /\ pending = NoCommand

\* (A mutant: the selection survives a change of state.)
GoUnreset(t) ==
  /\ t # tab /\ Moved
  /\ tab' = t /\ page' = 0 /\ type' = NoType
  /\ cache' = Watch(Watch(cache, Observed(t, page, size, type)),
                    Observed(t, 0, size, NoType))
  /\ UNCHANGED <<history, size, selected, pending, command, ghosts, faults>>

\* Another state of the sidebar.  The first render still has the old page and
\* filter, and its queries are fetched too; then the effect resets them.
Go(t) ==
  /\ t # tab /\ Moved
  /\ tab' = t /\ page' = 0 /\ type' = NoType /\ selected' = {}
  /\ Forget
  /\ cache' = Watch(Watch(cache, Observed(t, page, size, type)),
                    Observed(t, 0, size, NoType))
  /\ UNCHANGED <<history, size, pending, command, done, outrun, faults>>

\* Pagination's arrows; ticked rows of other pages stay ticked.
Turn(p) ==
  /\ Reachable /\ Moved
  /\ \/ p = page - 1 /\ page > 0
     \/ p = page + 1 /\ page < pageCount(active, cache[active].data) - 1
  /\ page' = p
  /\ cache' = Watch(cache, Observed(tab, p, size, type))
  /\ UNCHANGED <<history, tab, size, type, choice, command, ghosts, faults>>

handlePageSizeChange(s) ==
  /\ Reachable /\ s # size /\ Moved
  /\ size' = s /\ page' = 0 /\ selected' = {} /\ Forget
  /\ cache' = Watch(cache, Observed(tab, 0, s, type))
  /\ UNCHANGED <<history, tab, type, pending, command, done, outrun, faults>>

\* The filter bar: all the failed jobs, or those of a type that has or had
\* some, its counts being as old as they like.
Filter(ty) ==
  /\ isFailed /\ Reachable /\ Moved
  /\ ty # type
  /\ ty # NoType => \E j \in Jobs, v \in 1..now : TypeOf[j] = ty /\ history[v][j] = "failed"
  /\ type' = ty /\ page' = 0 /\ selected' = {} /\ Forget
  /\ cache' = Watch(cache, Observed(tab, 0, size, ty))
  /\ UNCHANGED <<history, tab, size, pending, command, done, outrun, faults>>

-----------------------------------------------------------------------------
(* The user chooses and acts.                                              *)

\* The list on the screen, as it is there.
onScreen == [list |-> active, at |-> cache[active].data]

\* A row's checkbox.
Tick(j) ==
  /\ Reachable /\ j \in shownRows
  /\ selected' = IF j \in selected THEN selected \ {j} ELSE selected \cup {j}
  /\ ticked' = [ticked EXCEPT ![j] = IF j \in selected THEN NotTicked ELSE onScreen]
  /\ UNCHANGED <<history, cache, view, pending, command, done, outrun, moves, faults>>

\* The header's checkbox looks at this page only and replaces the selection;
\* the bar's Clear button empties it.
TickAll ==
  /\ Reachable
  /\ selected' \in {shownRows, {}}
  /\ selected' = {} => selected # {}
  /\ selected' # {} => ~(shownRows \subseteq selected)
  /\ ticked' = [j \in Jobs |-> IF j \in selected' THEN onScreen ELSE NotTicked]
  /\ UNCHANGED <<history, cache, view, pending, command, done, outrun, moves, faults>>

\* A row's buttons, the selection bar's and the filter's open the dialog with
\* the ids of that moment; a type stands for whatever it has when it is run.
RowOffers(r) == r.scope = "one" /\ \E j \in shownRows : r.ids = {j}
SelectionOffers(r) == r.scope = "bulk" /\ selected # {} /\ r.ids = selected
TypeOffers(r) ==
  r.scope = "type" /\ active = typedQuery /\ r.ids = {j \in Jobs : TypeOf[j] = type}

Ask(r) ==
  /\ Reachable /\ Moved
  /\ RowOffers(r) \/ SelectionOffers(r) \/ TypeOffers(r)
  /\ pending' = r
  /\ UNCHANGED <<history, cache, view, selected, command, ghosts, faults>>

Cancel ==
  /\ Shown /\ pending # NoCommand
  /\ pending' = NoCommand
  /\ UNCHANGED <<history, cache, view, selected, command, ghosts, moves, faults>>

runPending ==
  /\ Shown /\ pending # NoCommand
  /\ Len(command) < MaxCommands
  /\ command' = Append(command, [request |-> pending, made |-> 0, over |-> FALSE])
  /\ pending' = NoCommand
  /\ UNCHANGED <<history, cache, view, selected, ghosts, moves, faults>>

-----------------------------------------------------------------------------
(* The server and its answers.                                             *)

\* What a command does to a job.  Waiting and running jobs are not requeued; a running
\* job is not deleted but asked to stop; a type's commands take the Failed rows only.
After(r, j, st) ==
  IF j \notin r.ids \/ (r.scope = "type" /\ st # "failed") \/ st = "processing" THEN st
  ELSE IF r.verb = "delete" THEN "deleted" ELSE "enqueued"

Serve(i) ==
  /\ ~command[i].over /\ command[i].made = 0
  /\ now < MaxVersions
  /\ history' = Append(history, [j \in Jobs |-> After(command[i].request, j, history[now][j])])
  /\ command' = [command EXCEPT ![i].made = now + 1, ![i].request.ids = {}]
  /\ UNCHANGED <<cache, view, choice, ghosts, moves, faults>>

\* (A mutant: lists that are not in use keep their word.)
InvalidateInUse ==
  /\ cache' = [k \in Keys |-> IF k \in inUse THEN Invalidate(cache[k], TRUE, now)
                                             ELSE cache[k]]
  /\ outrun' = outrun \cup {k \in Keys : Outruns(cache[k], k \in inUse)}

\* invalidateJobs: everything under 'jobs'.
invalidateJobs ==
  /\ cache' = [k \in Keys |-> Invalidate(cache[k], k \in inUse, now)]
  /\ outrun' = outrun \cup {k \in Keys : Outruns(cache[k], k \in inUse)}

\* onSuccess: the lists are invalidated; the latest bulk command of its kind
\* also clears the selection, whatever that has become.
Succeeds(i) ==
  /\ ~command[i].over /\ command[i].made # 0
  /\ command' = [command EXCEPT ![i].over = TRUE, ![i].request.ids = {}]
  /\ done' = IF command[i].made > done THEN command[i].made ELSE done
  /\ invalidateJobs
  /\ LET r == command[i].request
         latest == \A k \in i + 1..Len(command) :
                     \/ command[k].request.verb # r.verb
                     \/ command[k].request.scope # r.scope
     IN  selected' = IF r.scope = "bulk" /\ latest THEN {} ELSE selected
  /\ UNCHANGED <<history, view, pending, ticked, moves, faults>>

\* onError: a toast; the command may have been served all the same.
Errors(i) ==
  /\ ~command[i].over
  /\ faults < MaxFaults /\ faults' = faults + 1
  /\ command' = [command EXCEPT ![i].over = TRUE, ![i].request.ids = {}]
  /\ UNCHANGED <<history, cache, view, choice, ghosts, moves>>

Fetched(k) ==
  /\ cache[k].fetch # 0
  /\ cache' = [cache EXCEPT ![k] = Settle(@)]
  /\ UNCHANGED <<history, view, choice, command, ghosts, moves, faults>>

FetchFails(k) ==
  /\ cache[k].fetch # 0
  /\ faults < MaxFaults /\ faults' = faults + 1
  /\ cache' = [cache EXCEPT ![k] = Fail(@)]
  /\ UNCHANGED <<history, view, choice, command, ghosts, moves>>

\* Five seconds pass; it only counts for what is not in use.
Wait ==
  /\ cache' = [k \in Keys |-> IF k \in inUse THEN cache[k] ELSE Age(cache[k])]
  /\ cache' # cache
  /\ UNCHANGED <<history, view, choice, command, ghosts, moves, faults>>

\* Workers move a job on, and the hub tells the tab, which it may miss.
Work(j) ==
  /\ now < MaxVersions /\ history[now][j] = "enqueued"
  /\ history' = Append(history, [history[now] EXCEPT ![j] = "failed"])
  /\ UNCHANGED <<cache, view, choice, command, ghosts, moves, faults>>

Pushed ==
  /\ \E k \in inUse : cache[k].data < now
  /\ invalidateJobs
  /\ cache' # cache
  /\ UNCHANGED <<history, view, choice, command, done, ticked, moves, faults>>

Next ==
  \/ \E t \in Tabs : Go(t)
  \/ \E p \in 0..Cardinality(Jobs) : Turn(p)
  \/ \E s \in Sizes : handlePageSizeChange(s)
  \/ \E ty \in Types \cup {NoType} : Filter(ty)
  \/ \E j \in Jobs : Tick(j) \/ Work(j)
  \/ TickAll \/ Cancel \/ runPending \/ Wait \/ Pushed
  \/ \E r \in Requests : Ask(r)
  \/ \E i \in DOMAIN command : Serve(i) \/ Succeeds(i) \/ Errors(i)
  \/ \E k \in Keys : Fetched(k) \/ FetchFails(k)

Spec == Init /\ [][Next]_vars

-----------------------------------------------------------------------------
(* Properties.                                                             *)

(***************************************************************************)
(* After a command is reported done no list settles on what was there      *)
(* before it: not the one it was given from, and not one left for another  *)
(* tab, page, size or filter and come back to within staleTime.  The       *)
(* exceptions are the lists whose fetch the invalidation does not restart. *)
(***************************************************************************)
SettledIsFresh ==
  \A k \in Keys \ outrun :
    cache[k].data # 0 /\ cache[k].fetch = 0 /\ ~Stale(cache[k]) => cache[k].data >= done

(***************************************************************************)
(* What is ticked was a row of a page the screen has shown, and of the     *)
(* list on the screen now: the same state or type, cut to the same page    *)
(* size.  A dialog outlives a move to another state, and still sends the   *)
(* ids it was opened with; those were all ticked on one list, too.         *)
(***************************************************************************)
SameList(k, l) == k[1] = l[1] /\ k[3] = l[3]
WasShown(j) == ticked[j].at \in 1..now /\ j \in Rows(ticked[j].list, ticked[j].at)
SelectionWasShown ==
  /\ \A j \in selected : WasShown(j) /\ SameList(ticked[j].list, active)
  /\ pending.scope = "bulk" =>
       \A i, j \in pending.ids : WasShown(i) /\ SameList(ticked[i].list, ticked[j].list)
=============================================================================
