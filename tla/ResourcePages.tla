---------------------------- MODULE ResourcePages ----------------------------
(***************************************************************************)
(* The pages of one server, one worker, one recurring job and one saga     *)
(* (pages/servers/ServerDetailPage.tsx, pages/workers/WorkerDetailPage.tsx,*)
(* pages/recurring/RecurringDetailPage.tsx, pages/sagas/SagaDetailPage.tsx)*)
(* They fetch without a cache, in parts, and cancel nothing; only the saga *)
(* page fetches on its own after the first time.                           *)
(***************************************************************************)
EXTENDS Integers, Sequences, FiniteSets

CONSTANTS Screens,      \* the pages looked at
          Pages,        \* how many pages a list has
          MaxVersions, MaxCommands, MaxMoves, MaxFaults

VARIABLES screen,
          history,      \* the row, version by version: whether it is there, what is on
          shown,        \* the version of each part on the screen, 0 for none
          page,         \* of the list asked for
          listed,       \* of the list on the screen
          error, gone, forcing, left,
          pending,      \* the confirmation asked for
          requests, command,
          done,         \* the newest version an own command is known to have made
          excused,      \* a fetch of the row failed or was overtaken
          moves, faults

status == <<error, gone, forcing, left>>
ghosts == <<done, excused>>
vars == <<screen, history, shown, page, listed, status, pending, requests, command, ghosts,
          moves, faults>>

now == Len(history)

\* What each page fetches, and what can be switched: a server or a group of its workers
\* runs or is paused, a recurring job is enabled or not; the others just change.
PartsOf(s) ==
  CASE s = "server" -> {"row", "tasks", "logs"} [] s = "worker" -> {"row", "logs"}
    [] s = "recurring job" -> {"row", "jobs"} [] s = "saga" -> {"row"}
SwitchesOf(s) ==
  CASE s = "server" -> {"server", "group"} [] s = "recurring job" -> {"job"}
    [] OTHER -> {"state"}
Lists == {"logs", "jobs"}

\* The part the page waits for.
mainPart == IF screen = "worker" THEN "logs" ELSE "row"
Shown == ~error /\ ~gone /\ ~left /\ shown[mainPart] # 0
row == history[shown["row"]]

NoPage == -1
Request(part, p, first, then) ==
  [part |-> part, page |-> p, first |-> first, then |-> then, sent |-> now]
List(part, p) == Request(part, p, FALSE, NoPage)
Row(first, then) == Request("row", 0, first, then)

\* fetchData of the server page, and of the saga page, whose two requests count as one.
fetchData ==
  IF screen = "server" THEN {Row(FALSE, NoPage), Request("tasks", 0, FALSE, NoPage)}
                       ELSE {Row(FALSE, NoPage)}

Init ==
  /\ screen \in Screens
  /\ history \in {<<[alive |-> TRUE, on |-> s]>> : s \in {{}, SwitchesOf(screen)}}
  /\ shown = [p \in PartsOf(screen) |-> 0]
  /\ page = 0 /\ listed = NoPage
  /\ error = FALSE /\ gone = FALSE /\ forcing = FALSE /\ left = FALSE
  /\ pending = "none"
  /\ requests = IF screen \in {"server", "saga"} THEN fetchData
                ELSE {Row(TRUE, NoPage)} \cup {List(p, 0) : p \in PartsOf(screen) \ {"row"}}
  /\ command = <<>> /\ done = 0 /\ excused = FALSE
  /\ moves = 0 /\ faults = 0

Moved == moves < MaxMoves /\ moves' = moves + 1
Reachable == Shown /\ pending = "none"

-----------------------------------------------------------------------------
(* What the pages offer.                                                   *)

\* The header's button and each group's: pause what runs, resume what does not.
ServerHeader == {IF "server" \in row.on THEN "off" ELSE "on"}
WorkerGroupSection == {IF "group" \in row.on THEN "off" ELSE "on"}
ServerControls(s) == IF s = "server" THEN ServerHeader ELSE WorkerGroupSection

\* The sections of the tasks, once there are any, and the rows of the open one.
TaskSections == Shown /\ screen = "server" /\ shown["tasks"] # 0
TaskSection == TaskSections /\ listed # NoPage

\* Enabling needs no confirmation.
RecurringHeader == {IF "job" \in row.on THEN "disable" ELSE "enable", "trigger", "delete"}
ExecutionHistory == Shown /\ screen = "recurring job" /\ listed # NoPage

\* A worker's pauses are its server's and its group's; the header does without them.
JobActivity == Shown /\ screen = "worker"

\* Typing the correlation key enables the button, once.
ConfirmForce == Shown /\ screen = "saga" /\ pending = "force" /\ ~forcing

PaginationShown == TaskSection \/ ExecutionHistory \/ JobActivity

-----------------------------------------------------------------------------
(* The user.                                                               *)

Send(verb, target) ==
  /\ Len(command) < MaxCommands
  /\ command' = Append(command, [verb |-> verb, target |-> target, page |-> page,
                                 made |-> 0, over |-> FALSE])

\* The Refresh button of a server.
Refresh ==
  /\ screen = "server" /\ Reachable /\ Moved
  /\ requests' = requests \cup fetchData
  /\ UNCHANGED <<screen, history, shown, page, listed, status, pending, command, ghosts, faults>>

\* A task's section opens; its rows are fetched each time it does.
Expand ==
  /\ TaskSections /\ Moved
  /\ requests' = requests \cup {List("logs", page)}
  /\ UNCHANGED <<screen, history, shown, page, listed, status, pending, command, ghosts, faults>>

Turn(p) ==
  /\ PaginationShown /\ pending = "none" /\ Moved
  /\ p \in {page - 1, page + 1} \cap 0..Pages - 1
  /\ page' = p
  /\ requests' = requests \cup {List(l, p) : l \in Lists \cap PartsOf(screen)}
  /\ UNCHANGED <<screen, history, shown, listed, status, pending, command, ghosts, faults>>

\* handleTogglePause, handleToggleGroupPause: go by what is shown.
TogglePause(s, verb) ==
  /\ screen = "server" /\ Reachable
  /\ s \in {"server", "group"} /\ verb \in ServerControls(s)
  /\ Send(verb, s)
  /\ UNCHANGED <<screen, history, shown, page, listed, status, pending, requests, ghosts,
                 moves, faults>>

handleEnable ==
  /\ screen = "recurring job" /\ Reachable /\ "enable" \in RecurringHeader
  /\ Send("on", "job")
  /\ UNCHANGED <<screen, history, shown, page, listed, status, pending, requests, ghosts,
                 moves, faults>>

Ask(verb) ==
  /\ Reachable /\ Moved
  /\ \/ screen = "recurring job" /\ verb \in RecurringHeader \ {"enable"}
     \/ screen = "saga" /\ verb = "force"
  /\ pending' = verb
  /\ UNCHANGED <<screen, history, shown, page, listed, status, requests, command, ghosts, faults>>

\* What was asked for may have happened meanwhile: it is done all the same.
handleConfirmed ==
  /\ screen = "recurring job" /\ Shown /\ pending # "none"
  /\ Send(IF pending = "disable" THEN "off" ELSE pending, "job")
  /\ pending' = "none"
  /\ UNCHANGED <<screen, history, shown, page, listed, status, requests, ghosts, moves, faults>>

forceComplete ==
  /\ ConfirmForce
  /\ Send("delete", "state")
  /\ forcing' = TRUE
  /\ UNCHANGED <<screen, history, shown, page, listed, error, gone, left, pending, requests,
                 ghosts, moves, faults>>

Dismiss ==
  /\ Shown /\ pending # "none"
  /\ pending' = "none"
  /\ UNCHANGED <<screen, history, shown, page, listed, status, requests, command, ghosts,
                 moves, faults>>

-----------------------------------------------------------------------------
(* Answers to requests: of any version the server had since they were sent.*)

\* useRealtimeRefetch and useRefreshKey of the saga page.
SagaRefetch ==
  /\ screen = "saga" /\ ~left /\ ~(fetchData \subseteq requests)
  /\ requests' = requests \cup fetchData
  /\ UNCHANGED <<screen, history, shown, page, listed, status, pending, command, ghosts,
                 moves, faults>>

Overtaken(r, v) == r.part = "row" /\ v < shown["row"]

\* The saga's and the worker's errors end with a success, the others' never do.  A list
\* keeps no note of the page it was asked for.
Answered(r, v) ==
  /\ ~left /\ (r.part = "row" => history[v].alive)
  /\ shown' = [shown EXCEPT ![r.part] = v]
  /\ listed' = IF r.part \in Lists THEN r.page ELSE listed
  /\ error' = (error /\ ~(r.part = mainPart /\ screen \in {"saga", "worker"}))
  /\ gone' = FALSE
  /\ requests' = (requests \ {r}) \cup (IF r.then # NoPage THEN {List("jobs", r.then)} ELSE {})
  /\ excused' = (excused \/ Overtaken(r, v))
  /\ UNCHANGED <<screen, history, page, forcing, left, pending, command, done, moves, faults>>

\* The parts whose failure takes the page away.
Vital(r) ==
  CASE screen = "server" -> r.part = "row" [] screen = "worker" -> r.part = "logs"
    [] screen = "recurring job" -> r.part = "row" /\ r.first [] screen = "saga" -> TRUE

NotFound(r, v) ==
  /\ ~left /\ r.part = "row" /\ ~history[v].alive
  /\ IF screen = "saga" THEN gone' = TRUE /\ error' = FALSE
                        ELSE error' = (error \/ Vital(r)) /\ UNCHANGED gone
  /\ requests' = requests \ {r}
  /\ excused' = TRUE
  /\ UNCHANGED <<screen, history, shown, page, listed, forcing, left, pending, command, done,
                 moves, faults>>

RequestFails(r) ==
  /\ ~left /\ faults < MaxFaults /\ faults' = faults + 1
  /\ error' = (error \/ Vital(r))
  /\ requests' = requests \ {r}
  /\ excused' = (excused \/ r.part = "row")
  /\ UNCHANGED <<screen, history, shown, page, listed, gone, forcing, left, pending, command,
                 done, moves>>

-----------------------------------------------------------------------------
(* The server's side of commands, and others'.                             *)

After(c, h) ==
  CASE c.verb = "on" -> [h EXCEPT !.on = @ \cup {c.target}]
    [] c.verb = "off" -> [h EXCEPT !.on = @ \ {c.target}]
    [] c.verb = "delete" -> [h EXCEPT !.alive = FALSE]
    [] c.verb = "trigger" -> h

Serve(i) ==
  /\ ~command[i].over /\ command[i].made = 0 /\ history[now].alive
  /\ history' = Append(history, After(command[i], history[now]))
  /\ command' = [command EXCEPT ![i].made = now + 1]
  /\ UNCHANGED <<screen, shown, page, listed, status, pending, requests, ghosts, moves, faults>>

\* (A mutant: the page does not look again.)
SucceedsUnseen(i) ==
  /\ ~left /\ ~command[i].over /\ command[i].made # 0
  /\ command' = [command EXCEPT ![i].over = TRUE]
  /\ done' = IF command[i].made > done THEN command[i].made ELSE done
  /\ left' = (command[i].verb = "delete")
  /\ UNCHANGED <<screen, history, shown, page, listed, error, gone, forcing, pending, requests,
                 excused, moves, faults>>

\* The page fetches what it shows, after a trigger also the list, of the page there was
\* when the trigger was confirmed; after a deletion it is left.
Succeeds(i) ==
  /\ ~left /\ ~command[i].over /\ command[i].made # 0
  /\ command' = [command EXCEPT ![i].over = TRUE]
  /\ done' = IF command[i].made > done THEN command[i].made ELSE done
  /\ LET c == command[i]
     IN  /\ left' = (c.verb = "delete")
         /\ requests' = requests \cup
              CASE c.verb = "delete" -> {}
                [] c.verb = "trigger" -> {Row(FALSE, c.page)}
                [] OTHER -> fetchData
  /\ UNCHANGED <<screen, history, shown, page, listed, error, gone, forcing, pending, excused,
                 moves, faults>>

\* Nobody handles it, but for the saga page.
Errors(i) ==
  /\ ~left /\ ~command[i].over
  /\ IF command[i].made = 0 /\ ~history[now].alive THEN UNCHANGED faults
     ELSE faults < MaxFaults /\ faults' = faults + 1
  /\ command' = [command EXCEPT ![i].over = TRUE]
  /\ error' = (error \/ screen = "saga") /\ forcing' = FALSE
  /\ UNCHANGED <<screen, history, shown, page, listed, gone, left, pending, requests, ghosts, moves>>

\* Another operator, or the system.
Meddle(verb, target) ==
  /\ now < MaxVersions /\ history[now].alive
  /\ After([verb |-> verb, target |-> target], history[now]) # history[now]
  /\ history' = Append(history, After([verb |-> verb, target |-> target], history[now]))
  /\ UNCHANGED <<screen, shown, page, listed, status, pending, requests, command, ghosts,
                 moves, faults>>

Next ==
  \/ Refresh \/ Expand \/ handleEnable \/ handleConfirmed \/ forceComplete \/ Dismiss
  \/ SagaRefetch
  \/ \E p \in 0..Pages - 1 : Turn(p)
  \/ \E s \in {"server", "group"}, verb \in {"on", "off"} : TogglePause(s, verb)
  \/ \E verb \in {"disable", "trigger", "delete", "force"} : Ask(verb)
  \/ \E r \in requests : RequestFails(r)
  \/ \E r \in requests : \E v \in r.sent..now : Answered(r, v) \/ NotFound(r, v)
  \/ \E i \in DOMAIN command : Serve(i) \/ Succeeds(i) \/ Errors(i)
  \/ \E t \in SwitchesOf(screen), verb \in {"on", "off", "delete"} : Meddle(verb, t)

Answer == \E r \in requests : \E v \in r.sent..now : Answered(r, v) \/ NotFound(r, v)
Fairness == WF_vars(SagaRefetch) /\ WF_vars(Answer)
Spec == Init /\ [][Next]_vars /\ Fairness

-----------------------------------------------------------------------------
(* Properties.                                                             *)

(***************************************************************************)
(* When all commands and fetches are over, the page shows a row at least   *)
(* as new as its own last command, unless a fetch failed or was overtaken: *)
(* the answer to a fetch sent before the command, coming after the one     *)
(* sent behind it, is the only way the page ends on the old row.           *)
(***************************************************************************)
Quiet ==
  (\A r \in requests : r.part # "row") /\ (\A i \in DOMAIN command : command[i].over)
AcknowledgedIsShown == Shown /\ Quiet /\ ~excused => shown["row"] >= done

(***************************************************************************)
(* The saga page ends on the saga as it is, or on "completed or been       *)
(* removed", whatever was force-completed, failed or answered late; and    *)
(* its button is locked only while a force-complete is under way.          *)
(***************************************************************************)
SagaCurrent ==
  \/ left
  \/ /\ ~error
     /\ forcing => \E i \in DOMAIN command : ~command[i].over
     /\ gone = ~history[now].alive
     /\ ~gone => shown["row"] # 0 /\ row = history[now]
=============================================================================
