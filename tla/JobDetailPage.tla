---------------------------- MODULE JobDetailPage ----------------------------
(***************************************************************************)
(* pages/detail/DetailPage.tsx: one job, message or batch, with the table  *)
(* of its jobs (components/FilteredJobsTable.tsx).  Both fetch without a   *)
(* cache: on mount, on every JobFinalized event and every 30 s             *)
(* (hooks/useRealtimeRefetch.ts).  No request is ever cancelled, so an     *)
(* answer may come after a newer one, after the URL has moved on to        *)
(* another job, or after the table that asked for it is gone.              *)
(***************************************************************************)
EXTENDS Integers, Sequences, FiniteSets

CONSTANTS Rows,         \* the ids one can open
          Batches,      \* those that are batches or messages
          Parent,       \* the batch each row belongs to, NoRow for none
          Entry,        \* the rows the page is first opened on
          First,        \* what the server has to begin with: the jobs' states
          StateItems,   \* the states of the table's sidebar, in order
          PageSize,     \* of the table
          MaxVersions, MaxFlight, MaxCommands, MaxMoves, MaxFaults

VARIABLES screen,
          history,      \* the jobs' states, version by version
          id,           \* of the URL
          shown,        \* job: the row on the screen and the version it was fetched at
          error,
          jobCounts,    \* whose counts, and of which version
          pending,      \* the confirmation asked for
          table,        \* the table of the shown batch
          requests,     \* the requests under way
          command,      \* the commands sent
          moves, faults

page == <<id, shown, error, jobCounts, pending, table>>
vars == <<screen, history, page, requests, command, moves, faults>>

NoRow == 0
Nothing == [id |-> NoRow, at |-> 0]
now == Len(history)

Tabs == {StateItems[i] : i \in DOMAIN StateItems}
NoTab == "none"
NoTable ==
  [of |-> NoRow, known |-> FALSE, tab |-> NoTab, page |-> 0,
   data |-> [of |-> NoRow, tab |-> NoTab, page |-> 0, at |-> 0]]

-----------------------------------------------------------------------------
(* What the server answers.                                                *)

Jobs == Rows \ Batches
Members(b) == {r \in Jobs : Parent[r] = b}
Count(b, tab, v) == Cardinality({r \in Members(b) : history[v][r] = tab})
Counts(b, v) == [t \in Tabs |-> Count(b, t, v)]

\* A batch is done when all its jobs are.
StateOf(r, v) ==
  IF r \in Jobs THEN history[v][r]
  ELSE IF \E m \in Members(r) : history[v][m] \in {"awaiting", "enqueued", "processing"}
         THEN "processing" ELSE "completed"
View(r, v) == <<StateOf(r, v), IF r \in Batches THEN Counts(r, v) ELSE <<>>>>

InList(b, tab, p, v) ==
  LET all == {r \in Members(b) : history[v][r] = tab}
  IN  {r \in all : Cardinality({q \in all : q < r}) \div PageSize = p}
pageCount(b, tab, v) == (Count(b, tab, v) + PageSize - 1) \div PageSize

-----------------------------------------------------------------------------
(* What the page shows.                                                    *)

\* Neither ErrorState nor LoadingState.
Shown == ~error /\ shown # Nothing
hasChildJobs == shown.id \in Batches

Buttons ==
  IF hasChildJobs THEN {}
  ELSE IF StateOf(shown.id, shown.at) = "processing" THEN {"cancel"} ELSE {"requeue", "delete"}

\* The counts the table reported, or else those the row came with.
counted == IF jobCounts # Nothing THEN jobCounts ELSE shown
totalJobs ==
  IF counted.id \in Batches
    THEN Cardinality({r \in Members(counted.id) : history[counted.at][r] \in Tabs}) ELSE 0
ProgressShown == Shown /\ totalJobs > 0
done == Count(counted.id, "completed", counted.at) + Count(counted.id, "failed", counted.at)

\* The rows of the table, and those with a Requeue button.
TableShown == Shown /\ hasChildJobs
tableRows ==
  IF table.data.at = 0 THEN {}
  ELSE InList(table.of, table.data.tab, table.data.page, table.data.at)
RowRequeue == {r \in tableRows : history[table.data.at][r] = "failed"}

\* The fullest state, the first of the sidebar's among equals.
best(b, v) ==
  StateItems[CHOOSE i \in DOMAIN StateItems : \A k \in DOMAIN StateItems :
    /\ Count(b, StateItems[k], v) <= Count(b, StateItems[i], v)
    /\ k < i => Count(b, StateItems[k], v) < Count(b, StateItems[i], v)]

-----------------------------------------------------------------------------
(* Requests.  An answer tells a version the server had after the request   *)
(* was sent.  Two bounds: a request identical to one under way is not sent *)
(* again, and the user waits while MaxFlight are.                          *)

Request(part, of, tab, p, first) ==
  [part |-> part, of |-> of, tab |-> tab, page |-> p, first |-> first, live |-> TRUE,
   sent |-> now]
Detail(of, first) == Request("detail", of, NoTab, 0, first)
CountsRequest(of) == Request("counts", of, NoTab, 0, FALSE)
ListRequest(of, tab, p) == Request("list", of, tab, p, FALSE)

\* The table that asked is unmounted: its rows go nowhere, but not its counts.
Orphaned(rs) ==
  {IF r.part = "detail" THEN r ELSE [r EXCEPT !.live = FALSE] : r \in {q \in rs : q.part # "list"}}

Init ==
  /\ screen = "detail"
  /\ \E first \in First : history = <<first>>
  /\ id \in Entry
  /\ shown = Nothing /\ error = FALSE /\ jobCounts = Nothing /\ pending = "none"
  /\ table = NoTable
  /\ requests = {Detail(id, TRUE)}
  /\ command = <<>> /\ moves = 0 /\ faults = 0

Moved == moves < MaxMoves /\ Cardinality(requests) < MaxFlight /\ moves' = moves + 1
Reachable == Shown /\ pending = "none"

-----------------------------------------------------------------------------
(* The page fetches.                                                       *)

\* A link, or the browser's buttons: the same component goes on with another id.
Open(i) ==
  /\ i # id /\ Moved
  /\ id' = i
  /\ requests' = requests \cup {Detail(i, TRUE)}
  /\ UNCHANGED <<screen, history, shown, error, jobCounts, pending, table, command, faults>>

\* (A mutant: the interval keeps the first refresh it was given.)
refreshFirst ==
  /\ shown.id # NoRow /\ Detail(shown.id, FALSE) \notin requests
  /\ requests' = requests \cup {Detail(shown.id, FALSE)}
  /\ UNCHANGED <<screen, history, page, command, moves, faults>>

\* The page's own interval; it goes on after an error.
refresh ==
  /\ Detail(id, FALSE) \notin requests
  /\ requests' = requests \cup {Detail(id, FALSE)}
  /\ UNCHANGED <<screen, history, page, command, moves, faults>>

\* The table's interval.
updateCounts ==
  /\ TableShown /\ CountsRequest(table.of) \notin requests
  /\ requests' = requests \cup {CountsRequest(table.of)}
  /\ UNCHANGED <<screen, history, page, command, moves, faults>>

\* JobFinalized: the bus tells every subscriber.
emit ==
  /\ Detail(id, FALSE) \notin requests
  /\ requests' = requests \cup {Detail(id, FALSE)}
                   \cup (IF TableShown THEN {CountsRequest(table.of)} ELSE {})
  /\ UNCHANGED <<screen, history, page, command, moves, faults>>

\* (A mutant: the table has no key, and a new batch takes the old one's over.)
SetJobUnkeyed(new, old) ==
  /\ shown' = new
  /\ IF error \/ new.id = shown.id THEN table' = table /\ requests' = old
     ELSE IF new.id \in Batches
       THEN /\ table' = [table EXCEPT !.of = new.id]
            /\ requests' = old \cup {CountsRequest(new.id)}
       ELSE table' = NoTable /\ requests' = Orphaned(old)

\* setJob.  The table has the row's id for a key: another batch gets a new one, which asks
\* for its counts.
SetJob(new, old) ==
  /\ shown' = new
  /\ IF error \/ new.id = shown.id THEN table' = table /\ requests' = old
     ELSE IF new.id \in Batches
       THEN /\ table' = [NoTable EXCEPT !.of = new.id]
            /\ requests' = Orphaned(old) \cup {CountsRequest(new.id)}
       ELSE table' = NoTable /\ requests' = Orphaned(old)

Detailed(r, v) ==
  /\ r.part = "detail"
  /\ SetJob([id |-> r.of, at |-> v], requests \ {r})
  /\ UNCHANGED <<screen, history, id, error, jobCounts, pending, command, moves, faults>>

\* The error of a first fetch stays for good, and takes the table's place; others are
\* ignored.
DetailFails(r) ==
  /\ r.part = "detail"
  /\ faults < MaxFaults /\ faults' = faults + 1
  /\ IF r.first
       THEN error' = TRUE /\ table' = NoTable /\ requests' = Orphaned(requests \ {r})
       ELSE requests' = requests \ {r} /\ UNCHANGED <<error, table>>
  /\ UNCHANGED <<screen, history, id, shown, jobCounts, pending, command, moves>>

-----------------------------------------------------------------------------
(* The table fetches.                                                      *)

\* The page is told of the counts even by a table that is gone.  The first counts choose
\* the state to show, over a choice of the user's.
Counted(r, v) ==
  /\ r.part = "counts"
  /\ jobCounts' = [id |-> r.of, at |-> v]
  /\ IF ~r.live THEN UNCHANGED table /\ requests' = requests \ {r}
     ELSE LET tab == IF table.known THEN table.tab ELSE best(r.of, v)
          IN  /\ table' = [table EXCEPT !.known = TRUE, !.tab = tab]
              /\ requests' = (requests \ {r}) \cup
                   (IF tab # table.tab THEN {ListRequest(r.of, tab, table.page)} ELSE {})
  /\ UNCHANGED <<screen, history, id, shown, error, pending, command, moves, faults>>

Listed(r, v) ==
  /\ r.part = "list"
  /\ requests' = requests \ {r}
  /\ table' = [table EXCEPT !.data = [of |-> r.of, tab |-> r.tab, page |-> r.page, at |-> v]]
  /\ UNCHANGED <<screen, history, id, shown, error, jobCounts, pending, command, moves, faults>>

\* The old counts and rows stay.
TableFails(r) ==
  /\ r.part \in {"counts", "list"}
  /\ faults < MaxFaults /\ faults' = faults + 1
  /\ requests' = requests \ {r}
  /\ UNCHANGED <<screen, history, page, command, moves>>

-----------------------------------------------------------------------------
(* The user.                                                               *)

\* A state of the table's sidebar; the active one fetches again.
Pick(tab) ==
  /\ TableShown /\ Reachable /\ Moved
  /\ LET p == IF tab = table.tab THEN table.page ELSE 0
     IN  /\ table' = [table EXCEPT !.tab = tab, !.page = p]
         /\ requests' = requests \cup {ListRequest(table.of, tab, p)}
  /\ UNCHANGED <<screen, history, id, shown, error, jobCounts, pending, command, faults>>

\* The arrows go by the data shown.
Turn(p) ==
  /\ TableShown /\ Reachable /\ Moved
  /\ tableRows # {}
  /\ LET n == pageCount(table.of, table.data.tab, table.data.at)
     IN  /\ n > 1
         /\ \/ p = table.page - 1 /\ table.page > 0
            \/ p = table.page + 1 /\ table.page < n - 1
  /\ table' = [table EXCEPT !.page = p]
  /\ requests' = requests \cup {ListRequest(table.of, table.tab, p)}
  /\ UNCHANGED <<screen, history, id, shown, error, jobCounts, pending, command, faults>>

Send(verb, r, from) ==
  /\ Len(command) < MaxCommands
  /\ command' = Append(command, [verb |-> verb, id |-> r, from |-> from, made |-> FALSE, over |-> FALSE])

Requeue(r) ==
  /\ TableShown /\ Reachable /\ r \in RowRequeue
  /\ Send("requeue", r, table.of)
  /\ UNCHANGED <<screen, history, page, requests, moves, faults>>

Ask(verb) ==
  /\ Reachable /\ verb \in Buttons /\ Moved
  /\ pending' = verb
  /\ UNCHANGED <<screen, history, id, shown, error, jobCounts, table, requests, command, faults>>

\* Acts on the row shown by now; nothing waits for the outcome.
onConfirm ==
  /\ Shown /\ pending # "none"
  /\ Send(IF pending = "requeue" THEN "requeue" ELSE "delete", shown.id, NoRow)
  /\ pending' = "none"
  /\ UNCHANGED <<screen, history, id, shown, error, jobCounts, table, requests, moves, faults>>

Dismiss ==
  /\ Shown /\ pending # "none"
  /\ pending' = "none"
  /\ UNCHANGED <<screen, history, id, shown, error, jobCounts, table, requests, command, moves, faults>>

-----------------------------------------------------------------------------
(* The server.                                                             *)

\* A running job is neither requeued nor deleted, but asked to stop.
After(verb, st) ==
  IF st = "processing" THEN st ELSE IF verb = "delete" THEN "deleted" ELSE "enqueued"

Serve(i) ==
  LET c == command[i]
  IN  /\ ~c.over /\ ~c.made /\ now < MaxVersions
      /\ history' = IF c.id \in Jobs
                      THEN Append(history, [history[now] EXCEPT ![c.id] = After(c.verb, @)])
                      ELSE Append(history, history[now])
      /\ command' = [command EXCEPT ![i].made = TRUE]
      /\ UNCHANGED <<screen, page, requests, moves, faults>>

\* A command of the table's that succeeds makes it fetch the list it shows by then again;
\* the page's own are not waited for.
Succeeds(i) ==
  LET c == command[i]
  IN  /\ ~c.over /\ c.made
      /\ command' = [command EXCEPT ![i].over = TRUE]
      /\ requests' = IF c.from # NoRow /\ TableShown /\ c.from = table.of
                       THEN requests \cup {ListRequest(table.of, table.tab, table.page)}
                       ELSE requests
      /\ UNCHANGED <<screen, history, page, moves, faults>>

\* Before it was served, or after.
Lost(i) ==
  /\ ~command[i].over
  /\ faults < MaxFaults /\ faults' = faults + 1
  /\ command' = [command EXCEPT ![i].over = TRUE]
  /\ UNCHANGED <<screen, history, page, requests, moves>>

Work(r, st) ==
  /\ now < MaxVersions /\ r \in Jobs
  /\ \/ history[now][r] = "enqueued" /\ st = "processing"
     \/ history[now][r] = "processing" /\ st \in {"completed", "failed"}
  /\ history' = Append(history, [history[now] EXCEPT ![r] = st])
  /\ UNCHANGED <<screen, page, requests, command, moves, faults>>

Next ==
  \/ \E i \in Rows : Open(i) \/ Requeue(i) \/ \E st \in Tabs : Work(i, st)
  \/ refresh \/ updateCounts \/ emit \/ onConfirm \/ Dismiss
  \/ \E r \in requests : DetailFails(r) \/ TableFails(r)
  \/ \E r \in requests : \E v \in r.sent..now : Detailed(r, v) \/ Counted(r, v) \/ Listed(r, v)
  \/ \E tab \in Tabs : Pick(tab)
  \/ \E p \in 0..Cardinality(Rows) : Turn(p)
  \/ \E verb \in {"cancel", "requeue", "delete"} : Ask(verb)
  \/ \E i \in DOMAIN command : Serve(i) \/ Succeeds(i) \/ Lost(i)

DetailAnswer == \E r \in requests : \E v \in r.sent..now : Detailed(r, v)
CountsAnswer == \E r \in requests : \E v \in r.sent..now : Counted(r, v)

\* The intervals tick and requests are answered; who works and clicks need not go on.
Fairness ==
  /\ WF_vars(refresh) /\ WF_vars(updateCounts)
  /\ WF_vars(DetailAnswer) /\ WF_vars(CountsAnswer)
Spec == Init /\ [][Next]_vars /\ Fairness

-----------------------------------------------------------------------------
(* Properties.                                                             *)

(***************************************************************************)
(* The rows of the table are of the batch in the header, whatever answers  *)
(* come late from another batch's table.                                   *)
(***************************************************************************)
RowsAreOwn == TableShown /\ table.data.at # 0 => table.data.of = shown.id

(***************************************************************************)
(* However the URL moves and the answers overtake one another, the page    *)
(* ends on the row of the URL as the server has it, unless the first fetch *)
(* of some row failed.                                                     *)
(***************************************************************************)
DetailCurrent == error \/ (shown.id = id /\ View(id, shown.at) = View(id, now))

(***************************************************************************)
(* A batch's progress ends on its own counts as the server has them,       *)
(* although tables long gone may still report theirs.                      *)
(***************************************************************************)
ProgressCurrent ==
  TableShown => jobCounts.id = shown.id /\ Counts(shown.id, jobCounts.at) = Counts(shown.id, now)

(***************************************************************************)
(* "Progress bar (batches)", DetailPage.tsx:185: the page of a plain job   *)
(* has none.  Does not hold: jobCounts outlives the batch it counted.      *)
(***************************************************************************)
ProgressIsForBatches == ProgressShown => hasChildJobs
=============================================================================
