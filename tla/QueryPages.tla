------------------------- MODULE QueryPages -------------------------
(***************************************************************************)
(* The pages that go through the query cache, and the trace page.  The     *)
(* router of App.tsx shows one page at a time and their modules share no   *)
(* state, so the screen is chosen once, at the start, and what only other  *)
(* pages use stays as it is.                                               *)
(***************************************************************************)
EXTENDS TraceGraph, Sequences

CONSTANTS
  Jobs, TypeOf, First, Tabs,    \* the lists of jobs
  NamesOf(_), Values, Windows,  \* the pages an operator changes rows on
  Sizes, MaxVersions, MaxCommands, MaxMoves, MaxFaults

VARIABLES screen,
  history, cache, tab, page, size, selected, type, pending, command, done, outrun,
  ticked, moves, faults, registered, edit, add

AdminScreens == {"ratelimits", "concurrency", "recurring", "servers"}

JobList == INSTANCE JobListPage
Admin == INSTANCE AdminPages WITH Screens <- AdminScreens

\* A type of jobs is not the name of a state: the two kinds of list have keys of their own.
\* The failed jobs have a list, one page size is the smallest, and the server begins with rows.
ASSUME PagesAssumption ==
  /\ Jobs \subseteq Nat /\ IsFiniteSet(Jobs)
  /\ "failed" \in Tabs /\ JobList!Types \cap Tabs = {}
  /\ First \subseteq [Jobs -> JobList!States]
  /\ Sizes \subseteq Nat \ {0} /\ \E s \in Sizes : \A r \in Sizes : s <= r
  /\ MaxVersions \in Nat \ {0} /\ MaxCommands \in Nat

-----------------------------------------------------------------------------
NoJobList ==
  /\ registered = 0 /\ edit = 0 /\ add = 0
NoAdmin ==
  /\ tab = 0 /\ selected = 0 /\ type = 0 /\ outrun = 0 /\ ticked = 0
NoPage ==
  /\ history = 0 /\ cache = 0 /\ tab = 0 /\ page = 0 /\ size = 0 /\ selected = 0
  /\ type = 0 /\ pending = 0 /\ command = 0 /\ done = 0 /\ outrun = 0 /\ ticked = 0
  /\ moves = 0 /\ faults = 0 /\ registered = 0 /\ edit = 0 /\ add = 0

\* Init says that the trace page has loaded nothing.
PagesInit ==
  /\ Init
  /\ \/ JobList!Init /\ screen = "jobs" /\ NoJobList
     \/ Admin!Init /\ NoAdmin
     \/ screen = "trace" /\ NoPage

KeepJobList ==
  UNCHANGED
    <<vars, screen, registered, edit, add>>
KeepAdmin ==
  UNCHANGED
    <<vars, tab, selected, type, outrun, ticked>>
KeepPages ==
  UNCHANGED
    <<screen, history, cache, tab, page, size, selected, type, pending, command, done,
    outrun, ticked, moves, faults, registered, edit, add>>

PagesNext ==
  \/ screen = "jobs" /\ JobList!Next /\ KeepJobList
  \/ screen \in AdminScreens /\ Admin!Next /\ KeepAdmin
  \/ screen = "trace" /\ Next /\ KeepPages

pages == <<vars, screen, history, cache, tab, page, size, selected, type, pending, command,
  done, outrun, ticked, moves, faults, registered, edit, add>>

\* The fairness of AdminPages, as far as its screens go.
Polls == screen \in AdminScreens /\ Admin!Poll /\ KeepAdmin
Answers == screen \in AdminScreens /\ Admin!Fetched(<<page, size>>) /\ KeepAdmin
PagesSpec == PagesInit /\ [][PagesNext]_pages /\ WF_pages(Polls) /\ WF_pages(Answers)

-----------------------------------------------------------------------------
(* The pages' properties; the trace page's are checked as they are.        *)

\* useJobs.ts: no list of jobs settles on what was there before a command reported done.
SettledIsFresh == screen = "jobs" => JobList!SettledIsFresh

\* JobListPage.tsx: what is ticked was a row of the list on the screen, and so were together
\* the ids of an open dialog.
SelectionWasShown == screen = "jobs" => JobList!SelectionWasShown

\* The admin pages: a polled table at rest is as new as the page's last reported command.
AcknowledgedIsShown == screen \in AdminScreens => Admin!AcknowledgedIsShown

\* The admin pages: a polled table ends on what the server has.
PageCatchesUp == <>[](screen \in AdminScreens => Admin!PageCurrent)
=============================================================================
