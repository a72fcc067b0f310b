----------------------------- MODULE ServiceLog -----------------------------
(***************************************************************************)
(* The log tail of pages/BackgroundServices/Detail.tsx.  It is polled      *)
(* every two seconds by a cursor, the highest id of the last answer, that  *)
(* is set back when a filter changes; polls do not wait for one another.   *)
(***************************************************************************)
EXTENDS Integers, Sequences, FiniteSets

CONSTANTS Entries,      \* the kinds of entry, records of source and level
          Filters,      \* the choices of the two filters, records of the same kind
          Limit,        \* entries an answer has at most: 100 in the code
          Cap,          \* entries the tail has at most: 500 in the code
          MaxLogs, MaxMoves, MaxFaults

VARIABLES screen,
          log,          \* the entries written; the id of one is its place
          filter, cursor,       \* the filters, maxLogIdRef
          tail,         \* the ids on the screen
          requests,
          crossed,      \* an answer found the filter or the cursor changed
          moves, faults

logView == <<filter, cursor, tail>>
vars == <<screen, log, logView, requests, crossed, moves, faults>>

NoFilter == [source |-> 0, level |-> -1]
LogRequest(f, from) == [filter |-> f, from |-> from, sent |-> Len(log)]

\* GET /services/{name}/logs, when the log has v entries: the newest after the cursor.
Passes(f, e) == (f.source = 0 \/ e.source = f.source) /\ e.level >= f.level
Found(r, v) ==
  LET all == {i \in r.from + 1..v : Passes(r.filter, log[i])}
  IN  {i \in all : Cardinality({k \in all : k > i}) < Limit}
Highest(s) == CHOOSE i \in s : \A k \in s : k <= i
NewestFirstOf(s) ==
  [n \in 1..Cardinality(s) |-> CHOOSE i \in s : Cardinality({k \in s : k >= i}) = n]

Init ==
  /\ screen = "service log"
  /\ log = <<>>
  /\ filter = NoFilter /\ cursor = 0 /\ tail = <<>>
  /\ requests = {LogRequest(filter, cursor)}
  /\ crossed = FALSE /\ moves = 0 /\ faults = 0

-----------------------------------------------------------------------------
\* The interval.  (Bound: two polls that would find the same are one.)
fetchLogs ==
  /\ LogRequest(filter, cursor) \notin requests
  /\ requests' = requests \cup {LogRequest(filter, cursor)}
  /\ UNCHANGED <<screen, log, logView, crossed, moves, faults>>

Crosses(r) == r.filter # filter \/ r.from # cursor
Prepended(s) ==
  LET all == NewestFirstOf(s) \o tail
  IN  SubSeq(all, 1, IF Len(all) > Cap THEN Cap ELSE Len(all))

\* (A mutant: only the first answer moves the cursor.)
LoggedUnmarked(r, v) ==
  /\ LET new == Found(r, v)
     IN  /\ tail' = Prepended(new)
         /\ cursor' = IF new # {} /\ cursor = 0 THEN Highest(new) ELSE cursor
  /\ crossed' = (crossed \/ Crosses(r))
  /\ requests' = requests \ {r}
  /\ UNCHANGED <<screen, log, filter, moves, faults>>

\* Whatever comes is put on top, and its highest id is the cursor from then on.
Logged(r, v) ==
  /\ LET new == Found(r, v)
     IN  /\ tail' = Prepended(new)
         /\ cursor' = IF new # {} THEN Highest(new) ELSE cursor
  /\ crossed' = (crossed \/ Crosses(r))
  /\ requests' = requests \ {r}
  /\ UNCHANGED <<screen, log, filter, moves, faults>>

LogFails(r) ==
  /\ faults < MaxFaults /\ faults' = faults + 1
  /\ requests' = requests \ {r}
  /\ UNCHANGED <<screen, log, logView, crossed, moves>>

\* handleSourceFilterChange, handleLevelFilterChange, and the effect that polls anew.
FilterChange(f) ==
  /\ f # filter /\ (f.source = filter.source \/ f.level = filter.level)
  /\ moves < MaxMoves /\ moves' = moves + 1
  /\ filter' = f /\ cursor' = 0 /\ tail' = <<>>
  /\ requests' = requests \cup {LogRequest(f, 0)}
  /\ UNCHANGED <<screen, log, crossed, faults>>

Write(e) ==
  /\ Len(log) < MaxLogs
  /\ log' = Append(log, e)
  /\ UNCHANGED <<screen, logView, requests, crossed, moves, faults>>

Next ==
  \/ fetchLogs
  \/ \E r \in requests : LogFails(r) \/ \E v \in r.sent..Len(log) : Logged(r, v)
  \/ \E f \in Filters : FilterChange(f)
  \/ \E e \in Entries : Write(e)

Spec == Init /\ [][Next]_vars

-----------------------------------------------------------------------------
(* Properties.                                                             *)

(***************************************************************************)
(* "Prepend new logs (they are newer", Detail.tsx:95: the tail is newest   *)
(* first, has no entry twice and only entries that pass the filter.        *)
(***************************************************************************)
NewestFirst ==
  /\ \A i, k \in DOMAIN tail : i < k => tail[i] > tail[k]
  /\ \A i \in DOMAIN tail : Passes(filter, log[tail[i]])

(***************************************************************************)
(* It is so as long as every answer finds the filter and the cursor it was *)
(* asked with.  Polls overlap when one takes two seconds, and a filter is  *)
(* changed at any time: then it is not.                                    *)
(***************************************************************************)
NewestFirstUncrossed == ~crossed => NewestFirst
=============================================================================
