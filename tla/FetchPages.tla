------------------------- MODULE FetchPages -------------------------
(***************************************************************************)
(* The pages that fetch without the query cache.  The router of App.tsx    *)
(* shows one page at a time and their modules share no state, so the       *)
(* screen is chosen once, at the start, and what only other pages use      *)
(* stays as it is.                                                         *)
(***************************************************************************)
EXTENDS Integers, Sequences

CONSTANTS
  Rows, Batches, Parent, Entry, First, StateItems, PageSize, MaxFlight,  \* the detail page
  Pages, MaxResourceMoves,      \* the pages of a server, a worker, a recurring job, a saga
  Servers, None,                \* the page of a background service
  Entries, Filters, Limit, Cap, MaxLogs,        \* its log
  MaxVersions, MaxCommands, MaxMoves, MaxFaults

VARIABLES screen,
  history, id, shown, error, jobCounts, pending, table, requests, command, moves,
  faults, page, listed, gone, forcing, left, done, excused, detail, lease, tab, log,
  filter, cursor, tail, crossed

ResourceScreens == {"server", "worker", "recurring job", "saga"}

JobDetail == INSTANCE JobDetailPage
Resource == INSTANCE ResourcePages WITH Screens <- ResourceScreens, MaxMoves <- MaxResourceMoves
Service == INSTANCE ServiceDetail
Log == INSTANCE ServiceLog

\* 0 is the id of no row.
ASSUME FetchAssumption ==
  /\ JobDetail!NoRow \notin Batches
  /\ Limit \in Nat /\ Cap \in Nat

-----------------------------------------------------------------------------
NoJobDetail ==
  /\ page = 0 /\ listed = 0 /\ gone = 0 /\ forcing = 0 /\ left = 0 /\ done = 0
  /\ excused = 0 /\ detail = 0 /\ lease = 0 /\ tab = 0 /\ log = 0 /\ filter = 0
  /\ cursor = 0 /\ tail = 0 /\ crossed = 0
NoResource ==
  /\ id = 0 /\ jobCounts = 0 /\ table = 0 /\ detail = 0 /\ lease = 0 /\ tab = 0
  /\ log = 0 /\ filter = 0 /\ cursor = 0 /\ tail = 0 /\ crossed = 0
NoService ==
  /\ id = 0 /\ shown = 0 /\ jobCounts = 0 /\ pending = 0 /\ table = 0 /\ command = 0
  /\ page = 0 /\ listed = 0 /\ forcing = 0 /\ left = 0 /\ done = 0 /\ excused = 0
  /\ log = 0 /\ filter = 0 /\ cursor = 0 /\ tail = 0 /\ crossed = 0
NoLog ==
  /\ history = 0 /\ id = 0 /\ shown = 0 /\ error = 0 /\ jobCounts = 0 /\ pending = 0
  /\ table = 0 /\ command = 0 /\ page = 0 /\ listed = 0 /\ gone = 0 /\ forcing = 0
  /\ left = 0 /\ done = 0 /\ excused = 0 /\ detail = 0 /\ lease = 0 /\ tab = 0

PagesInit ==
  \/ JobDetail!Init /\ NoJobDetail
  \/ Resource!Init /\ NoResource
  \/ Service!Init /\ NoService
  \/ Log!Init /\ NoLog

KeepJobDetail ==
  UNCHANGED
    <<page, listed, gone, forcing, left, done, excused, detail, lease, tab, log, filter,
    cursor, tail, crossed>>
KeepResource ==
  UNCHANGED
    <<id, jobCounts, table, detail, lease, tab, log, filter, cursor, tail, crossed>>
KeepService ==
  UNCHANGED
    <<id, shown, jobCounts, pending, table, command, page, listed, forcing, left, done,
    excused, log, filter, cursor, tail, crossed>>
KeepLog ==
  UNCHANGED
    <<history, id, shown, error, jobCounts, pending, table, command, page, listed, gone,
    forcing, left, done, excused, detail, lease, tab>>

PagesNext ==
  \/ screen = "detail" /\ JobDetail!Next /\ KeepJobDetail
  \/ screen \in ResourceScreens /\ Resource!Next /\ KeepResource
  \/ screen = "service" /\ Service!Next /\ KeepService
  \/ screen = "service log" /\ Log!Next /\ KeepLog

pages == <<screen, history, id, shown, error, jobCounts, pending, table, requests, command,
  moves, faults, page, listed, gone, forcing, left, done, excused, detail, lease, tab,
  log, filter, cursor, tail, crossed>>

\* The fairness of the pages' specifications: of the interval, of its answer, and of the
\* second interval and the second answer of the pages that have them.
Polls ==
  \/ screen = "detail" /\ JobDetail!refresh /\ KeepJobDetail
  \/ screen \in ResourceScreens /\ Resource!SagaRefetch /\ KeepResource
  \/ screen = "service" /\ Service!PollDetail /\ KeepService
Answers ==
  \/ screen = "detail" /\ JobDetail!DetailAnswer /\ KeepJobDetail
  \/ screen \in ResourceScreens /\ Resource!Answer /\ KeepResource
  \/ screen = "service" /\ Service!DetailAnswer /\ KeepService
PollsMore == screen = "detail" /\ JobDetail!updateCounts /\ KeepJobDetail
AnswersMore ==
  \/ screen = "detail" /\ JobDetail!CountsAnswer /\ KeepJobDetail
  \/ screen = "service" /\ Service!LeaseAnswer /\ KeepService
PagesSpec ==
  /\ PagesInit /\ [][PagesNext]_pages
  /\ WF_pages(Polls) /\ WF_pages(Answers) /\ WF_pages(PollsMore) /\ WF_pages(AnswersMore)

-----------------------------------------------------------------------------
(* The pages' properties.                                                  *)

\* FilteredJobsTable.tsx: the rows are of the batch in the header.
RowsAreOwn == screen = "detail" => JobDetail!RowsAreOwn

\* The pages of one server, worker, recurring job or saga: at rest they show a row as new
\* as their last reported command, unless a fetch failed or was overtaken.
AcknowledgedIsShown == screen \in ResourceScreens => Resource!AcknowledgedIsShown

\* BackgroundServices/Detail.tsx: the log's tail is in order unless an answer crossed.
NewestFirstUncrossed == screen = "service log" => Log!NewestFirstUncrossed

\* DetailPage.tsx, SagaDetailPage.tsx, BackgroundServices/Detail.tsx: a page that polls ends
\* on what the server has: the row of the URL and, if that is a batch, its own counts.
PagesCatchUp ==
  <>[](/\ screen = "detail" => JobDetail!DetailCurrent /\ JobDetail!ProgressCurrent
       /\ screen = "saga" => Resource!SagaCurrent
       /\ screen = "service" => Service!ServiceCurrent)
=============================================================================
