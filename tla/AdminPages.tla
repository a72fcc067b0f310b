----------------------------- MODULE AdminPages -----------------------------
(***************************************************************************)
(* The dashboard's pages an operator changes rows on: rate limits,         *)
(* concurrency limits, recurring jobs and servers.  Each shows one query   *)
(* and sends mutations whose success invalidates it; all but the recurring *)
(* page also poll.  Other operators change the same rows.                  *)
(***************************************************************************)
EXTENDS Integers, Sequences, FiniteSets, QueryCache

CONSTANTS NamesOf(_),   \* the rows each page may have: 1..n, in the order it lists them
          Values,       \* the limits and counts an operator may type, 0 aside
          Windows,      \* and the windows, in seconds
          Screens,      \* the pages looked at
          Sizes,        \* the page sizes of the recurring list
          MaxVersions, MaxCommands, MaxMoves, MaxFaults

VARIABLES screen,
          registered,   \* the addon behind the page is
          history,      \* the rows, version by version
          cache,        \* the page's query, one entry per page number and size
          page, size,   \* of the recurring list
          edit,         \* the row edited in place
          add,          \* the modal that adds a row
          pending,      \* the confirmation asked for
          command,      \* the mutations, in the order they were sent
          done,         \* the newest version an own command is known to have made
          moves, faults

place == <<screen, registered>>
view == <<page, size>>
forms == <<edit, add, pending>>
vars == <<place, history, cache, view, forms, command, done, moves, faults>>

Names == NamesOf(screen)
LimitScreens == {"ratelimits", "concurrency"}
isLimits == screen \in LimitScreens
now == Len(history)
NoName == 0

NoEdit == [name |-> NoName, draft |-> <<>>, error |-> "none"]
NoAdd == [open |-> FALSE, error |-> "none", saving |-> 0]
NoPending == [verb |-> "none", id |-> NoName]

-----------------------------------------------------------------------------
(* The rows, and what the four tables offer on them.                       *)

RateLimits == [count : Values, windowSeconds : Windows]
Limits == [limit : Values]
Switches == [on : BOOLEAN]

RowsOf(s) ==
  IF s = "ratelimits" THEN RateLimits ELSE IF s = "concurrency" THEN Limits ELSE Switches

\* What can be typed into a row's inputs: 0 is anything but a positive integer.
RateLimitDrafts == [count : Values \cup {0}, windowSeconds : Windows \cup {0}]
LimitDrafts == [limit : Values \cup {0}]
Drafts == IF screen = "ratelimits" THEN RateLimitDrafts ELSE LimitDrafts

inUse == {<<page, size>>}
Keys == IF screen = "recurring" THEN (0..Cardinality(Names) - 1) \X Sizes ELSE inUse
entry == cache[<<page, size>>]

\* Neither ErrorState, nor LoadingState, nor "addon not registered".
Shown == Visible(entry)
rows == history[entry.data]
PageOf(p, s) == {n \in DOMAIN rows : Cardinality({m \in DOMAIN rows : m < n}) \div s = p}
Listed == IF screen = "recurring" THEN PageOf(page, size) ELSE DOMAIN rows

RateLimitRow(n) ==
  IF edit.name = n THEN {"count", "windowSeconds", "save", "cancel"} ELSE {"edit", "delete"}
LimitRow(n) ==
  IF edit.name = n THEN {"limit", "save", "cancel"} ELSE {"edit", "delete"}
RecurringRow(n) ==
  {IF rows[n].on THEN "disable" ELSE "enable", "trigger", "remove"}
\* Every server's button waits for the toggle under way.
ServerRow(n) ==
  IF \E i \in DOMAIN command : ~command[i].over THEN {}
  ELSE {IF rows[n].on THEN "pause" ELSE "resume"}

Offers(n) ==
  CASE screen = "ratelimits" -> RateLimitRow(n)
    [] screen = "concurrency" -> LimitRow(n)
    [] screen = "recurring" -> RecurringRow(n)
    [] screen = "servers" -> ServerRow(n)

\* The first field saveEdit and the add form's submit object to.
RateLimitError(d) ==
  IF d.count = 0 THEN "count" ELSE IF d.windowSeconds = 0 THEN "windowSeconds" ELSE "none"
LimitError(d) == IF d.limit = 0 THEN "limit" ELSE "none"
ErrorOf(d) == IF screen = "ratelimits" THEN RateLimitError(d) ELSE LimitError(d)

\* Add limit, Add rate limit: a name not in the list, then the fields.
AddError(n, d) ==
  IF n = NoName THEN "name" ELSE IF n \in DOMAIN rows THEN "exists" ELSE ErrorOf(d)

-----------------------------------------------------------------------------
(* What the server makes of a command.                                     *)

\* The managers of both limits read a row by its name and save it, add it or remove it; the
\* two are one step, for a save that meets another's changes the row and fails.
With(m, n, r) == [k \in DOMAIN m \cup {n} |-> IF k = n THEN r ELSE m[k]]
Without(m, n) == [k \in DOMAIN m \ {n} |-> m[k]]

Upserts == {"save", "add"}
LimitServed(m, c) == IF c.verb \in Upserts THEN With(m, c.id, c.row) ELSE Without(m, c.id)
Switched(m, c) ==
  CASE c.verb \in {"enable", "resume"} -> [m EXCEPT ![c.id].on = TRUE]
    [] c.verb \in {"disable", "pause"} -> [m EXCEPT ![c.id].on = FALSE]
    [] c.verb = "remove" -> Without(m, c.id)
    [] c.verb = "trigger" -> m
Served(m, c) == IF isLimits THEN LimitServed(m, c) ELSE Switched(m, c)

\* A 404 or an exception: everything but an upsert wants the row.
Refused(m, c) == c.verb \notin Upserts /\ c.id \notin DOMAIN m

Commands(s) ==
  [verb : IF s \in LimitScreens THEN {"save"} ELSE {}, id : Names, row : RowsOf(s)]
    \cup [verb : CASE s \in LimitScreens -> {"delete"}
                   [] s = "recurring" -> {"enable", "disable", "trigger", "remove"}
                   [] s = "servers" -> {"pause", "resume"},
          id : Names, row : {<<>>}]

-----------------------------------------------------------------------------
Init ==
  /\ screen \in Screens
  /\ registered \in IF isLimits THEN BOOLEAN ELSE {TRUE}
  /\ \E existing \in SUBSET Names, r \in RowsOf(screen) : history = <<[n \in existing |-> r]>>
  /\ page = 0 /\ size = CHOOSE s \in Sizes : \A r \in Sizes : s <= r
  /\ cache = [k \in Keys |-> IF k \in inUse THEN Fetch(Absent, 1) ELSE Absent]
  /\ edit = NoEdit /\ add = NoAdd /\ pending = NoPending
  /\ command = <<>> /\ done = 0
  /\ moves = 0 /\ faults = 0

Moved == moves < MaxMoves /\ moves' = moves + 1
\* With a dialog open nothing behind it can be clicked.
Reachable == Shown /\ ~add.open /\ pending = NoPending
On(n, control) == Reachable /\ n \in Listed /\ control \in Offers(n)

Send(verb, id, row) ==
  /\ Len(command) < MaxCommands
  /\ command' = Append(command, [verb |-> verb, id |-> id, row |-> row, made |-> 0, over |-> FALSE])

-----------------------------------------------------------------------------
(* The limit pages: edit in place, add, delete.                            *)

startEdit(n) ==
  /\ On(n, "edit") /\ Moved
  /\ edit' = [name |-> n, draft |-> rows[n], error |-> "none"]
  /\ UNCHANGED <<place, history, cache, view, add, pending, command, done, faults>>

Type(n, d) ==
  /\ On(n, "save") /\ d # edit.draft /\ Moved
  /\ \E f \in DOMAIN d : d = [edit.draft EXCEPT ![f] = d[f]]
  /\ edit' = [edit EXCEPT !.draft = d]
  /\ UNCHANGED <<place, history, cache, view, add, pending, command, done, faults>>

cancelEdit(n) ==
  /\ On(n, "cancel")
  /\ edit' = NoEdit
  /\ UNCHANGED <<place, history, cache, view, add, pending, command, done, moves, faults>>

saveEdit(n) ==
  /\ On(n, "save")
  /\ LET e == ErrorOf(edit.draft)
     IN  IF e # "none" THEN edit.error # e /\ edit' = [edit EXCEPT !.error = e] /\ UNCHANGED command
                       ELSE Send("save", n, edit.draft) /\ UNCHANGED edit
  /\ UNCHANGED <<place, history, cache, view, add, pending, done, moves, faults>>

OpenAdd ==
  /\ isLimits /\ Reachable /\ Moved
  /\ add' = [NoAdd EXCEPT !.open = TRUE]
  /\ UNCHANGED <<place, history, cache, view, edit, pending, command, done, faults>>

\* Cancel, Escape or a click beside it; the latter two while it saves as well.
CloseAdd ==
  /\ Shown /\ add.open
  /\ add' = NoAdd
  /\ UNCHANGED <<place, history, cache, view, edit, pending, command, done, moves, faults>>

submit(n, d) ==
  /\ Shown /\ add.open /\ add.saving = 0
  /\ LET e == AddError(n, d)
     IN  IF e # "none" THEN add.error # e /\ add' = [add EXCEPT !.error = e] /\ UNCHANGED command
                       ELSE /\ Send("add", n, d)
                            /\ add' = [add EXCEPT !.error = "none", !.saving = Len(command) + 1]
  /\ UNCHANGED <<place, history, cache, view, edit, pending, done, moves, faults>>

\* Confirmed but still open: the modal closes on success, and can be clicked again.
handleDelete ==
  /\ isLimits /\ Shown /\ pending # NoPending
  /\ Send("delete", pending.id, <<>>)
  /\ UNCHANGED <<place, history, cache, view, forms, done, moves, faults>>

-----------------------------------------------------------------------------
(* Dialogs, toggles and the recurring page's pagination.                   *)

Ask(n, verb) ==
  /\ verb \in {"delete", "trigger", "remove"}
  /\ On(n, verb) /\ Moved
  /\ pending' = [verb |-> verb, id |-> n]
  /\ UNCHANGED <<place, history, cache, view, edit, add, command, done, faults>>

Cancel ==
  /\ Shown /\ pending # NoPending
  /\ pending' = NoPending
  /\ UNCHANGED <<place, history, cache, view, edit, add, command, done, moves, faults>>

runPending ==
  /\ screen = "recurring" /\ Shown /\ pending # NoPending
  /\ Send(pending.verb, pending.id, <<>>)
  /\ pending' = NoPending
  /\ UNCHANGED <<place, history, cache, view, edit, add, done, moves, faults>>

\* enable.mutate and disable.mutate, and the server page's handleTogglePause.
handleToggle(n, verb) ==
  /\ verb \in {"enable", "disable", "pause", "resume"}
  /\ On(n, verb)
  /\ Send(verb, n, <<>>)
  /\ UNCHANGED <<place, history, cache, view, forms, done, moves, faults>>

Turn(p, s) ==
  /\ screen = "recurring" /\ Reachable /\ Moved
  /\ \/ s = size /\ p = page - 1 /\ page > 0
     \/ s = size /\ p = page + 1 /\ \E n \in DOMAIN rows : n \in PageOf(p, s)
     \/ s # size /\ p = 0
  /\ page' = p /\ size' = s
  /\ cache' = [cache EXCEPT ![<<p, s>>] = Observe(@, now)]
  /\ UNCHANGED <<place, history, forms, command, done, faults>>

-----------------------------------------------------------------------------
(* The server and its answers.                                             *)

Serve(i) ==
  /\ ~command[i].over /\ command[i].made = 0 /\ registered
  /\ ~Refused(history[now], command[i])
  /\ history' = Append(history, Served(history[now], command[i]))
  /\ command' = [command EXCEPT ![i].made = now + 1]
  /\ UNCHANGED <<place, cache, view, forms, done, moves, faults>>

\* Another operator.
Meddle(c) ==
  /\ now < MaxVersions /\ c \in Commands(screen) /\ ~Refused(history[now], c)
  /\ Served(history[now], c) # history[now]
  /\ history' = Append(history, Served(history[now], c))
  /\ UNCHANGED <<place, cache, view, forms, command, done, moves, faults>>

IsEdit(i) == command[i].verb = "save"
IsDelete(i) == command[i].verb = "delete"
LatestEdit(i) == IsEdit(i) /\ \A k \in i + 1..Len(command) : ~IsEdit(k)
LatestDelete(i) == IsDelete(i) /\ \A k \in i + 1..Len(command) : ~IsDelete(k)

\* The forms' own callbacks, those of the latest call only: a save closes whatever row is
\* being edited by then, a delete whatever confirmation is open, and an addition the
\* modal it came from, if that is still there.
onSuccess(i) ==
  /\ edit' = IF LatestEdit(i) THEN NoEdit ELSE edit
  /\ add' = IF add.saving = i THEN NoAdd ELSE add
  /\ pending' = IF LatestDelete(i) THEN NoPending ELSE pending

\* (A mutant: the toast without the invalidation.)
SucceedsQuietly(i) ==
  /\ ~command[i].over /\ command[i].made # 0
  /\ command' = [command EXCEPT ![i].over = TRUE]
  /\ done' = IF command[i].made > done THEN command[i].made ELSE done
  /\ onSuccess(i)
  /\ UNCHANGED <<place, history, cache, view, moves, faults>>

Succeeds(i) ==
  /\ ~command[i].over /\ command[i].made # 0
  /\ command' = [command EXCEPT ![i].over = TRUE]
  /\ done' = IF command[i].made > done THEN command[i].made ELSE done
  /\ cache' = [k \in Keys |-> Invalidate(cache[k], k \in inUse, now)]
  /\ onSuccess(i)
  /\ UNCHANGED <<place, history, view, moves, faults>>

\* A refusal, or a fault before or after the command took effect.
Errors(i) ==
  /\ ~command[i].over
  /\ IF command[i].made = 0 /\ (~registered \/ Refused(history[now], command[i]))
       THEN UNCHANGED faults
       ELSE faults < MaxFaults /\ faults' = faults + 1
  /\ command' = [command EXCEPT ![i].over = TRUE]
  /\ edit' = IF LatestEdit(i) THEN [edit EXCEPT !.error = "save"] ELSE edit
  /\ add' = IF add.saving = i THEN [add EXCEPT !.error = "save", !.saving = 0] ELSE add
  /\ UNCHANGED <<place, history, cache, view, pending, done, moves>>

\* refetchInterval, after a failure too.
Polled == screen # "recurring"
PollUnlessFailed ==
  /\ Polled /\ entry.fetch = 0 /\ ~entry.failed
  /\ cache' = [cache EXCEPT ![<<page, size>>] = Fetch(@, now)]
  /\ UNCHANGED <<place, history, view, forms, command, done, moves, faults>>
Poll ==
  /\ Polled /\ entry.fetch = 0
  /\ cache' = [cache EXCEPT ![<<page, size>>] = Fetch(@, now)]
  /\ UNCHANGED <<place, history, view, forms, command, done, moves, faults>>

Fetched(k) ==
  /\ cache[k].fetch # 0 /\ registered
  /\ cache' = [cache EXCEPT ![k] = Settle(@)]
  /\ UNCHANGED <<place, history, view, forms, command, done, moves, faults>>

\* The error page takes the table's place, and the add modal loses what was typed.
FetchFails(k) ==
  /\ cache[k].fetch # 0
  /\ IF registered THEN faults < MaxFaults /\ faults' = faults + 1 ELSE UNCHANGED faults
  /\ cache' = [cache EXCEPT ![k] = Fail(@)]
  /\ add' = IF add.open /\ k \in inUse THEN [NoAdd EXCEPT !.open = TRUE] ELSE add
  /\ UNCHANGED <<place, history, view, edit, pending, command, done, moves>>

\* Five seconds pass; it only counts for what is not in use.
Wait ==
  /\ cache' = [k \in Keys |-> IF k \in inUse THEN cache[k] ELSE Age(cache[k])]
  /\ cache' # cache
  /\ UNCHANGED <<place, history, view, forms, command, done, moves, faults>>

Next ==
  \/ \E n \in Names : startEdit(n) \/ cancelEdit(n) \/ saveEdit(n)
  \/ \E n \in Names, d \in Drafts : Type(n, d)
  \/ \E n \in Names \cup {NoName}, d \in Drafts : submit(n, d)
  \/ OpenAdd \/ CloseAdd \/ handleDelete \/ Cancel \/ runPending \/ Poll \/ Wait
  \/ \E n \in Names, verb \in {"delete", "trigger", "remove"} : Ask(n, verb)
  \/ \E n \in Names, verb \in {"enable", "disable", "pause", "resume"} : handleToggle(n, verb)
  \/ \E p \in 0..Cardinality(Names) - 1, s \in Sizes : Turn(p, s)
  \/ \E c \in Commands(screen) : Meddle(c)
  \/ \E i \in DOMAIN command : Serve(i) \/ Succeeds(i) \/ Errors(i)
  \/ \E k \in Keys : Fetched(k) \/ FetchFails(k)

Fairness == WF_vars(Poll) /\ WF_vars(Fetched(<<page, size>>))
Spec == Init /\ [][Next]_vars /\ Fairness

-----------------------------------------------------------------------------
(* Properties.                                                             *)

(***************************************************************************)
(* Once a save, a delete or a toggle is reported done, a polled page that  *)
(* is not fetching shows a table at least that new: a poll under way when  *)
(* the answer came is not allowed to put the old rows back.                *)
(***************************************************************************)
AcknowledgedIsShown ==
  Polled /\ Shown /\ entry.fetch = 0 => entry.data >= done

(***************************************************************************)
(* A polled page ends on the rows the server has, whatever its operator,   *)
(* the others and a failing poll did in the meantime.                      *)
(***************************************************************************)
PageCurrent == Polled /\ registered => Shown /\ rows = history[now]
PageCatchesUp == <>[]PageCurrent
=============================================================================
