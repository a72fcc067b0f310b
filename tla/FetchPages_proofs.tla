------------------------- MODULE FetchPages_proofs -------------------------
(***************************************************************************)
(* For any rows, batches, page sizes, services and logs, and any number of *)
(* versions, requests and commands: what the pages that fetch without a    *)
(* cache make of answers that come late or overtake one another.           *)
(***************************************************************************)
EXTENDS FetchPages, SequenceTheorems, FiniteSetTheorems, TLAPS

-----------------------------------------------------------------------------
(* The page of one job: the table's rows.                                  *)

\* The table on the screen is that of the batch in the header, and so are the answers it
\* waits for: those of another batch's table are lists that were dropped with it, and counts
\* that are marked as nobody's.
OwnTable ==
  /\ {"of", "data"} \subseteq DOMAIN table
  /\ ~error /\ shown.id \in Batches => table.of = shown.id
  /\ table.data.at # 0 => table.data.of = table.of
OwnRequests ==
  \A r \in requests :
    /\ {"part", "live", "of"} \subseteq DOMAIN r
    /\ r.part = "list" \/ (r.part = "counts" /\ r.live) => r.of = table.of
DetailInv == OwnTable /\ OwnRequests

LEMMA DetailBegins == ASSUME JobDetail!Init PROVE DetailInv
BY FetchAssumption
   DEF JobDetail!Init, JobDetail!Nothing, JobDetail!NoTable, JobDetail!NoRow, JobDetail!Detail,
       JobDetail!Request, DetailInv, OwnTable, OwnRequests

\* Requests that are added for the table that is there.
LEMMA RequestsAdded ==
  ASSUME DetailInv, NEW old \in SUBSET requests, NEW new, requests' = old \cup new,
         table'.of = table.of, OwnTable',
         \A r \in new : \E choice, p :
           \/ \E of, first : r = JobDetail!Detail(of, first)
           \/ r = JobDetail!CountsRequest(table.of)
           \/ r = JobDetail!ListRequest(table.of, choice, p)
  PROVE  DetailInv'
<1>1. ASSUME NEW r \in new
      PROVE  /\ {"part", "live", "of"} \subseteq DOMAIN r
             /\ r.part = "list" \/ (r.part = "counts" /\ r.live) => r.of = table.of
  <2>1. CASE \E of, first : r = JobDetail!Detail(of, first)
    BY <2>1 DEF JobDetail!Detail, JobDetail!Request
  <2>2. CASE r = JobDetail!CountsRequest(table.of)
    BY <2>2 DEF JobDetail!CountsRequest, JobDetail!Request
  <2>3. ASSUME NEW choice, NEW p, r = JobDetail!ListRequest(table.of, choice, p)
        PROVE  {"part", "live", "of"} \subseteq DOMAIN r /\ r.of = table.of
    BY <2>3 DEF JobDetail!ListRequest, JobDetail!Request
  <2> QED BY <2>1, <2>2, <2>3
<1> QED BY <1>1 DEF DetailInv, OwnRequests

\* The requests of a table that is unmounted.
LEMMA RequestsOrphaned ==
  ASSUME OwnRequests, NEW old \in SUBSET requests, NEW r \in JobDetail!Orphaned(old)
  PROVE  /\ {"part", "live", "of"} \subseteq DOMAIN r
         /\ ~(r.part = "list" \/ (r.part = "counts" /\ r.live))
<1>1. PICK q \in old : /\ q.part # "list"
                       /\ r = IF q.part = "detail" THEN q ELSE [q EXCEPT !.live = FALSE]
  BY DEF JobDetail!Orphaned
<1>2. {"part", "live", "of"} \subseteq DOMAIN q BY DEF OwnRequests
<1>3. CASE q.part = "detail" BY <1>1, <1>2, <1>3
<1>4. CASE q.part # "detail"
  <2>1. r = [q EXCEPT !.live = FALSE] BY <1>1, <1>4
  <2>2. DOMAIN r = DOMAIN q /\ r.part = q.part /\ r.live = FALSE BY <1>2, <2>1
  <2> QED BY <1>1, <1>2, <2>2
<1> QED BY <1>3, <1>4

\* The row comes: of the batch the table is of, or of another, or of no batch.
LEMMA RowComes ==
  ASSUME DetailInv, NEW n, NEW old \in SUBSET requests, JobDetail!SetJob(n, old), error' = error
  PROVE  DetailInv'
<1>1. CASE error \/ n.id = shown.id
  <2>1. shown' = n /\ table' = table /\ requests' = old BY <1>1 DEF JobDetail!SetJob
  <2> QED BY <1>1, <2>1 DEF DetailInv, OwnTable, OwnRequests
<1>2. CASE ~(error \/ n.id = shown.id) /\ n.id \in Batches
  <2>1. /\ shown' = n /\ table' = [JobDetail!NoTable EXCEPT !.of = n.id]
        /\ requests' = JobDetail!Orphaned(old) \cup {JobDetail!CountsRequest(n.id)}
    BY <1>2 DEF JobDetail!SetJob
  <2>2. /\ {"of", "data"} \subseteq DOMAIN table' /\ table'.of = n.id /\ table'.data.at = 0
    BY <2>1 DEF JobDetail!NoTable
  <2>3. /\ {"part", "live", "of"} \subseteq DOMAIN JobDetail!CountsRequest(n.id)
        /\ JobDetail!CountsRequest(n.id).of = n.id
    BY DEF JobDetail!CountsRequest, JobDetail!Request
  <2>4. OwnRequests' BY <2>1, <2>2, <2>3, RequestsOrphaned DEF DetailInv, OwnRequests
  <2> QED BY <2>1, <2>2, <2>4 DEF DetailInv, OwnTable
<1>3. CASE ~(error \/ n.id = shown.id) /\ n.id \notin Batches
  <2>1. shown' = n /\ table' = JobDetail!NoTable /\ requests' = JobDetail!Orphaned(old)
    BY <1>3 DEF JobDetail!SetJob
  <2>2. {"of", "data"} \subseteq DOMAIN table' /\ table'.data.at = 0
    BY <2>1 DEF JobDetail!NoTable
  <2>3. OwnRequests' BY <2>1, RequestsOrphaned DEF DetailInv, OwnRequests
  <2> QED BY <1>3, <2>1, <2>2, <2>3 DEF DetailInv, OwnTable
<1> QED BY <1>1, <1>2, <1>3

\* What is asked for the table, and the rows and counts that come for it.
LEMMA TableStep ==
  ASSUME DetailInv,
         \/ JobDetail!updateCounts \/ JobDetail!emit
         \/ \E choice : JobDetail!Pick(choice)
         \/ \E p : JobDetail!Turn(p)
         \/ \E r \in requests :
              JobDetail!TableFails(r) \/ \E v : JobDetail!Counted(r, v) \/ JobDetail!Listed(r, v)
         \/ \E i : JobDetail!Succeeds(i)
  PROVE  DetailInv'
<1>1. ASSUME \/ table' = table
             \/ \E k, choice, p : \/ table' = [table EXCEPT !.known = k, !.tab = choice]
                                  \/ table' = [table EXCEPT !.tab = choice, !.page = p]
                                  \/ table' = [table EXCEPT !.page = p],
             UNCHANGED <<shown, error>>
      PROVE  OwnTable' /\ table'.of = table.of
  <2>1. {"of", "data"} \subseteq DOMAIN table BY DEF DetailInv, OwnTable
  <2>2. DOMAIN table' = DOMAIN table /\ table'.of = table.of /\ table'.data = table.data
    BY <1>1, <2>1
  <2> QED BY <1>1, <2>1, <2>2 DEF DetailInv, OwnTable
<1>2. CASE JobDetail!updateCounts
  <2>1. /\ requests' = requests \cup {JobDetail!CountsRequest(table.of)}
        /\ UNCHANGED <<table, shown, error>>
    BY <1>2 DEF JobDetail!updateCounts, JobDetail!page
  <2> QED BY <1>1, <2>1, RequestsAdded
<1>3. CASE JobDetail!emit
  <2> DEFINE new ==
               {JobDetail!Detail(id, FALSE)} \cup
                 (IF JobDetail!TableShown THEN {JobDetail!CountsRequest(table.of)} ELSE {})
  <2>1. requests' = requests \cup new /\ UNCHANGED <<table, shown, error>>
    BY <1>3 DEF JobDetail!emit, JobDetail!page
  <2>2. \A r \in new : r = JobDetail!Detail(id, FALSE) \/ r = JobDetail!CountsRequest(table.of)
    OBVIOUS
  <2> HIDE DEF new
  <2> QED BY <1>1, <2>1, <2>2, RequestsAdded
<1>4. ASSUME NEW choice, JobDetail!Pick(choice) PROVE DetailInv'
  <2>1. PICK p : /\ table' = [table EXCEPT !.tab = choice, !.page = p]
                 /\ requests' = requests \cup {JobDetail!ListRequest(table.of, choice, p)}
                 /\ UNCHANGED <<shown, error>>
    BY <1>4 DEF JobDetail!Pick
  <2> QED BY <1>1, <2>1, RequestsAdded
<1>5. ASSUME NEW p, JobDetail!Turn(p) PROVE DetailInv'
  <2>1. /\ table' = [table EXCEPT !.page = p]
        /\ requests' = requests \cup {JobDetail!ListRequest(table.of, table.tab, p)}
        /\ UNCHANGED <<shown, error>>
    BY <1>5 DEF JobDetail!Turn
  <2> QED BY <1>1, <2>1, RequestsAdded
<1>6. ASSUME NEW r \in requests, JobDetail!TableFails(r) PROVE DetailInv'
  BY <1>6 DEF JobDetail!TableFails, JobDetail!page, DetailInv, OwnTable, OwnRequests
<1>7. ASSUME NEW r \in requests, NEW v, JobDetail!Counted(r, v) PROVE DetailInv'
  <2>1. CASE ~r.live
    BY <1>7, <2>1 DEF JobDetail!Counted, DetailInv, OwnTable, OwnRequests
  <2>2. CASE r.live
    <3>1. PICK choice :
            /\ table' = [table EXCEPT !.known = TRUE, !.tab = choice]
            /\ requests' = (requests \ {r}) \cup
                 IF choice # table.tab THEN {JobDetail!ListRequest(r.of, choice, table.page)} ELSE {}
            /\ UNCHANGED <<shown, error>>
      BY <1>7, <2>2 DEF JobDetail!Counted
    <3>2. r.of = table.of BY <1>7, <2>2 DEF JobDetail!Counted, DetailInv, OwnRequests
    <3> DEFINE old == requests \ {r}
               new == IF choice # table.tab THEN {JobDetail!ListRequest(r.of, choice, table.page)} ELSE {}
    <3>3. /\ old \in SUBSET requests /\ requests' = old \cup new
          /\ \A q \in new : q = JobDetail!ListRequest(table.of, choice, table.page)
      BY <3>1, <3>2
    <3> HIDE DEF old, new
    <3>4. OwnTable' /\ table'.of = table.of BY <1>1, <3>1
    <3> QED BY <3>3, <3>4, RequestsAdded
  <2> QED BY <2>1, <2>2
<1>8. ASSUME NEW r \in requests, NEW v, JobDetail!Listed(r, v) PROVE DetailInv'
  <2>1. /\ requests' = requests \ {r} /\ UNCHANGED <<shown, error>>
        /\ table' = [table EXCEPT !.data = [of |-> r.of, tab |-> r.tab, page |-> r.page, at |-> v]]
        /\ r.of = table.of
    BY <1>8 DEF JobDetail!Listed, DetailInv, OwnRequests
  <2>2. {"of", "data"} \subseteq DOMAIN table BY DEF DetailInv, OwnTable
  <2>3. DOMAIN table' = DOMAIN table /\ table'.of = table.of /\ table'.data.of = r.of
    BY <2>1, <2>2
  <2> QED BY <2>1, <2>2, <2>3 DEF DetailInv, OwnTable, OwnRequests
<1>9. ASSUME NEW i, JobDetail!Succeeds(i) PROVE DetailInv'
  <2>1. UNCHANGED <<table, shown, error>> BY <1>9 DEF JobDetail!Succeeds, JobDetail!page
  <2>2. \/ requests' = requests
        \/ requests' = requests \cup {JobDetail!ListRequest(table.of, table.tab, table.page)}
    BY <1>9 DEF JobDetail!Succeeds
  <2>3. OwnTable' /\ table'.of = table.of BY <1>1, <2>1
  <2>4. CASE requests' = requests BY <2>1, <2>4 DEF DetailInv, OwnTable, OwnRequests
  <2>5. CASE requests' = requests \cup {JobDetail!ListRequest(table.of, table.tab, table.page)}
    BY <2>3, <2>5, RequestsAdded
  <2> QED BY <2>2, <2>4, <2>5
<1> QED BY <1>2, <1>3, <1>4, <1>5, <1>6, <1>7, <1>8, <1>9

LEMMA DetailStep == ASSUME DetailInv, JobDetail!Next PROVE DetailInv'
<1>1. ASSUME NEW i, JobDetail!Open(i) PROVE DetailInv'
  <2>1. requests' = requests \cup {JobDetail!Detail(i, TRUE)} /\ UNCHANGED <<table, shown, error>>
    BY <1>1 DEF JobDetail!Open
  <2>2. OwnTable' /\ table'.of = table.of BY <2>1 DEF DetailInv, OwnTable
  <2> QED BY <2>1, <2>2, RequestsAdded
<1>2. CASE JobDetail!refresh
  <2>1. requests' = requests \cup {JobDetail!Detail(id, FALSE)} /\ UNCHANGED <<table, shown, error>>
    BY <1>2 DEF JobDetail!refresh, JobDetail!page
  <2>2. OwnTable' /\ table'.of = table.of BY <2>1 DEF DetailInv, OwnTable
  <2> QED BY <2>1, <2>2, RequestsAdded
<1>3. ASSUME NEW r \in requests, NEW v, JobDetail!Detailed(r, v) PROVE DetailInv'
  <2>1. requests \ {r} \in SUBSET requests OBVIOUS
  <2> QED BY <1>3, <2>1, RowComes DEF JobDetail!Detailed
<1>4. ASSUME NEW r \in requests, JobDetail!DetailFails(r) PROVE DetailInv'
  <2>1. CASE r.first
    <3>1. /\ error' /\ table' = JobDetail!NoTable
          /\ requests' = JobDetail!Orphaned(requests \ {r})
      BY <1>4, <2>1 DEF JobDetail!DetailFails
    <3>2. requests \ {r} \in SUBSET requests OBVIOUS
    <3>3. OwnRequests' BY <3>1, <3>2, RequestsOrphaned DEF DetailInv, OwnRequests
    <3> QED BY <3>1, <3>3 DEF DetailInv, OwnTable, JobDetail!NoTable
  <2>2. CASE ~r.first
    BY <1>4, <2>2 DEF JobDetail!DetailFails, DetailInv, OwnTable, OwnRequests
  <2> QED BY <2>1, <2>2
<1>5. ASSUME \/ \E r : JobDetail!Requeue(r)
             \/ \E r, st : JobDetail!Work(r, st)
             \/ \E verb : JobDetail!Ask(verb)
             \/ \E i : JobDetail!Serve(i) \/ JobDetail!Lost(i)
             \/ JobDetail!onConfirm \/ JobDetail!Dismiss
      PROVE  DetailInv'
  <2>1. UNCHANGED <<table, shown, error, requests>>
    BY <1>5 DEF JobDetail!Requeue, JobDetail!Work, JobDetail!Ask, JobDetail!Serve,
       JobDetail!Lost, JobDetail!onConfirm, JobDetail!Dismiss, JobDetail!page
  <2> QED BY <2>1 DEF DetailInv, OwnTable, OwnRequests
<1> QED BY <1>1, <1>2, <1>3, <1>4, <1>5, TableStep DEF JobDetail!Next

LEMMA DetailShows == ASSUME DetailInv PROVE JobDetail!RowsAreOwn
BY DEF DetailInv, OwnTable, JobDetail!RowsAreOwn, JobDetail!TableShown, JobDetail!Shown,
   JobDetail!hasChildJobs

-----------------------------------------------------------------------------
(* The pages of a server, a worker, a recurring job and a saga.            *)

IsSequence(s) == s \in Seq({s[i] : i \in DOMAIN s})

LEMMA LongerSequence ==
  ASSUME NEW s, IsSequence(s), NEW e
  PROVE  /\ IsSequence(Append(s, e)) /\ Len(s) \in Nat /\ DOMAIN s = 1..Len(s)
         /\ Len(Append(s, e)) = Len(s) + 1
         /\ DOMAIN Append(s, e) = 1..Len(s) + 1
         /\ \A i \in 1..Len(s) : Append(s, e)[i] = s[i]
         /\ Append(s, e)[Len(s) + 1] = e
<1> DEFINE S == {s[i] : i \in DOMAIN s} \cup {e}
           a == Append(s, e)
<1>1. s \in Seq(S) BY SeqMonotonic DEF IsSequence
<1> HIDE DEF S
<1>2. e \in S BY DEF S
<1>3. /\ a \in Seq(S) /\ Len(s) \in Nat /\ DOMAIN s = 1..Len(s) /\ Len(a) = Len(s) + 1
      /\ \A i \in 1..Len(s) : a[i] = s[i]
      /\ a[Len(s) + 1] = e
  BY <1>1, <1>2, AppendProperties, LenProperties
<1>4. DOMAIN a = 1..Len(s) + 1 BY <1>3, LenProperties
<1> HIDE DEF a
<1>5. a \in Seq({a[i] : i \in DOMAIN a})
  <2> DEFINE n == Len(s) + 1
  <2>1. n \in Nat BY <1>3
  <2>2. DOMAIN a = 1..n BY <1>4
  <2>3. a \in [1..n -> S] BY <1>3, <2>2, LenProperties
  <2> HIDE DEF n
  <2>4. a \in [1..n -> {a[i] : i \in DOMAIN a}] BY <2>2, <2>3
  <2> QED BY <2>1, <2>4, SeqDef
<1> QED BY <1>3, <1>4, <1>5 DEF IsSequence, a

now == Len(history)

\* The page shows the last command reported done, or a fetch of the row is under way that was
\* sent after that, unless a fetch failed or was overtaken or the page is left.
Looks ==
  \/ shown["row"] >= done
  \/ \E r \in requests : r.part = "row" /\ r.sent >= done

ResourceInv ==
  /\ IsSequence(history) /\ now \in Nat \ {0}
  /\ IsSequence(command)
  /\ \A i \in DOMAIN command : "made" \in DOMAIN command[i] /\ command[i].made \in 0..now
  /\ "row" \in DOMAIN shown /\ shown["row"] \in 0..now
  /\ done \in 0..now
  /\ \A r \in requests : r.sent \in 0..now
  /\ ~excused /\ ~left => Looks

LEMMA ResourceBegins == ASSUME Resource!Init PROVE ResourceInv
<1>1. PICK x : history = <<x>> BY DEF Resource!Init
<1>2. IsSequence(history) /\ Len(history) = 1
  <2>1. DOMAIN history = {1} /\ history[1] = x BY <1>1
  <2>2. {history[i] : i \in DOMAIN history} = {x} BY <2>1
  <2> QED BY <1>1, <2>2 DEF IsSequence
<1>3. command = << >> /\ IsSequence(command)
  BY EmptySeq DEF Resource!Init, IsSequence
<1>4. "row" \in DOMAIN shown /\ shown["row"] = 0
  <2>1. "row" \in Resource!PartsOf(screen)
    BY DEF Resource!Init, ResourceScreens, Resource!PartsOf
  <2> QED BY <2>1 DEF Resource!Init
<1>5. \A r \in requests : r.sent = 1
  <2>1. Resource!now = 1 BY <1>2 DEF Resource!now
  <2>2. \/ requests = Resource!fetchData
        \/ requests = {Resource!Row(TRUE, Resource!NoPage)}
             \cup {Resource!List(p, 0) : p \in Resource!PartsOf(screen) \ {"row"}}
    BY DEF Resource!Init
  <2> QED BY <2>1, <2>2
          DEF Resource!fetchData, Resource!Row, Resource!List, Resource!Request
<1>6. done = 0 BY DEF Resource!Init
<1> QED BY <1>2, <1>3, <1>4, <1>5, <1>6 DEF ResourceInv, Looks, now

\* A step that only asks for more, or only changes what the page has besides.
LEMMA PageAsks ==
  ASSUME ResourceInv, UNCHANGED <<history, command, shown, done, excused, left>>,
         NEW new, requests' = requests \cup new, \A r \in new : r.sent = now
  PROVE  ResourceInv'
BY DEF ResourceInv, Looks, now

\* Commands that are sent or marked, versions that are added.
LEMMA ServerGoesOn ==
  ASSUME ResourceInv, UNCHANGED <<requests, shown, done, excused, left>>,
         IsSequence(history'), now' \in {now, now + 1},
         IsSequence(command'),
         \A i \in DOMAIN command' : "made" \in DOMAIN command'[i] /\ command'[i].made \in 0..now'
  PROVE  ResourceInv'
BY DEF ResourceInv, Looks

LEMMA CommandSent ==
  ASSUME ResourceInv, NEW verb, NEW target, Resource!Send(verb, target),
         UNCHANGED <<requests, history, shown, done, excused, left>>
  PROVE  ResourceInv'
<1> DEFINE c == [verb |-> verb, target |-> target, page |-> page, made |-> 0, over |-> FALSE]
<1>1. "made" \in DOMAIN c /\ c.made = 0 OBVIOUS
<1>2. command' = Append(command, c) BY DEF Resource!Send
<1> HIDE DEF c
<1>3. /\ IsSequence(command') /\ Len(command) \in Nat
      /\ DOMAIN command = 1..Len(command) /\ DOMAIN command' = 1..Len(command) + 1
      /\ \A i \in 1..Len(command) : command'[i] = command[i]
      /\ command'[Len(command) + 1] = c
  BY <1>2, LongerSequence DEF ResourceInv
<1>4. now' = now /\ now \in Nat BY DEF now, ResourceInv
<1>5. \A i \in DOMAIN command' : "made" \in DOMAIN command'[i] /\ command'[i].made \in 0..now'
  <2> TAKE i \in DOMAIN command'
  <2>1. CASE i \in 1..Len(command) BY <1>3, <1>4, <2>1 DEF ResourceInv
  <2>2. CASE i = Len(command) + 1 BY <1>1, <1>3, <1>4, <2>2
  <2> QED BY <1>3, <2>1, <2>2
<1> QED BY <1>3, <1>4, <1>5, ServerGoesOn DEF ResourceInv

LEMMA CommandNoted ==
  ASSUME ResourceInv, NEW i \in DOMAIN command, NEW c, "made" \in DOMAIN c, c.made \in 0..now',
         command' = [command EXCEPT ![i] = c], now' \in {now, now + 1}
  PROVE  /\ IsSequence(command')
         /\ \A k \in DOMAIN command' : "made" \in DOMAIN command'[k] /\ command'[k].made \in 0..now'
<1>1. /\ DOMAIN command' = DOMAIN command
      /\ \A k \in DOMAIN command : command'[k] = IF k = i THEN c ELSE command[k]
  OBVIOUS
<1>2. IsSequence(command')
  <2>1. PICK n \in Nat : DOMAIN command = 1..n
    BY LenProperties DEF ResourceInv, IsSequence
  <2>2. command' = [k \in DOMAIN command |-> IF k = i THEN c ELSE command[k]]
    OBVIOUS
  <2> DEFINE R == {command'[k] : k \in DOMAIN command'}
  <2>3. command' \in [1..n -> R] BY <1>1, <2>1, <2>2
  <2>4. IsSequence(command') <=> command' \in Seq(R) BY DEF IsSequence
  <2> HIDE DEF R
  <2>5. Seq(R) = UNION {[1..m -> R] : m \in Nat} BY SeqDef
  <2>6. command' \in Seq(R) BY <2>1, <2>3, <2>5
  <2> QED BY <2>4, <2>6
<1>3. \A k \in DOMAIN command' : "made" \in DOMAIN command'[k] /\ command'[k].made \in 0..now'
  BY <1>1 DEF ResourceInv
<1> QED BY <1>2, <1>3

LEMMA ResourceUser ==
  ASSUME ResourceInv,
         \/ Resource!Refresh \/ Resource!Expand \/ Resource!handleEnable
         \/ Resource!handleConfirmed \/ Resource!forceComplete \/ Resource!Dismiss
         \/ Resource!SagaRefetch \/ (\E p : Resource!Turn(p))
         \/ (\E s, verb : Resource!TogglePause(s, verb)) \/ \E verb : Resource!Ask(verb)
  PROVE  ResourceInv'
<1>1. now = Resource!now BY DEF now, Resource!now
<1>2. \A r \in Resource!fetchData : r.sent = now
  BY <1>1 DEF Resource!fetchData, Resource!Row, Resource!Request
<1>3. \A l, p : Resource!List(l, p).sent = now
  BY <1>1 DEF Resource!List, Resource!Request
<1>4. CASE Resource!Refresh \/ Resource!SagaRefetch
  <2>1. requests' = requests \cup Resource!fetchData
        /\ UNCHANGED <<history, command, shown, done, excused, left>>
    BY <1>4 DEF Resource!Refresh, Resource!SagaRefetch, Resource!status, Resource!ghosts
  <2> QED BY <1>2, <2>1, PageAsks
<1>5. CASE Resource!Expand
  <2> DEFINE new == {Resource!List("logs", page)}
  <2>1. requests' = requests \cup new
        /\ UNCHANGED <<history, command, shown, done, excused, left>>
    BY <1>5 DEF Resource!Expand, Resource!status, Resource!ghosts
  <2>2. \A r \in new : r.sent = now BY <1>3
  <2> HIDE DEF new
  <2> QED BY <2>1, <2>2, PageAsks
<1>6. ASSUME NEW p, Resource!Turn(p) PROVE ResourceInv'
  <2> DEFINE new == {Resource!List(l, p) : l \in Resource!Lists \cap Resource!PartsOf(screen)}
  <2>1. requests' = requests \cup new
        /\ UNCHANGED <<history, command, shown, done, excused, left>>
    BY <1>6 DEF Resource!Turn, Resource!status, Resource!ghosts
  <2>2. \A r \in new : r.sent = now BY <1>3
  <2> HIDE DEF new
  <2> QED BY <2>1, <2>2, PageAsks
<1>7. CASE Resource!Dismiss \/ \E verb : Resource!Ask(verb)
  <2>1. UNCHANGED <<history, command, shown, done, excused, left, requests>>
    BY <1>7 DEF Resource!Dismiss, Resource!Ask, Resource!status, Resource!ghosts
  <2> QED BY <2>1 DEF ResourceInv, Looks, now
<1>8. CASE \/ Resource!handleEnable \/ Resource!handleConfirmed \/ Resource!forceComplete
           \/ \E s, verb : Resource!TogglePause(s, verb)
  <2>1. UNCHANGED <<requests, history, shown, done, excused, left>>
    BY <1>8 DEF Resource!handleEnable, Resource!handleConfirmed, Resource!forceComplete,
       Resource!TogglePause, Resource!status, Resource!ghosts
  <2>2. \E verb, target : Resource!Send(verb, target)
    BY <1>8 DEF Resource!handleEnable, Resource!handleConfirmed, Resource!forceComplete,
       Resource!TogglePause
  <2> QED BY <2>1, <2>2, CommandSent
<1> QED BY <1>4, <1>5, <1>6, <1>7, <1>8

\* An answer is of a version the server has, and of one it had after the request was sent.
\* If it is older than the row on the screen, it was overtaken.
LEMMA ResourceAnswered ==
  ASSUME ResourceInv, NEW r \in requests,
         \/ Resource!RequestFails(r)
         \/ \E v \in r.sent..Resource!now : Resource!Answered(r, v) \/ Resource!NotFound(r, v)
  PROVE  ResourceInv'
<1>1. now = Resource!now /\ now \in Nat \ {0} /\ r.sent \in 0..now
  BY DEF now, Resource!now, ResourceInv
<1>2. CASE Resource!RequestFails(r) \/ \E v : Resource!NotFound(r, v)
  <2>1. requests' = requests \ {r} /\ UNCHANGED <<history, command, shown, done, left>>
    BY <1>2 DEF Resource!RequestFails, Resource!NotFound
  <2>2. ~excused' => ~excused /\ r.part # "row"
    BY <1>2 DEF Resource!RequestFails, Resource!NotFound
  <2>3. ~excused' /\ ~left' => Looks'
    BY <2>1, <2>2 DEF ResourceInv, Looks
  <2> QED BY <2>1, <2>3 DEF ResourceInv, now
<1>3. ASSUME NEW v \in r.sent..now, Resource!Answered(r, v) PROVE ResourceInv'
  <2>1. v \in 0..now /\ v >= r.sent BY <1>1
  <2> DEFINE new == IF r.then # Resource!NoPage THEN {Resource!List("jobs", r.then)} ELSE {}
  <2>2. /\ requests' = (requests \ {r}) \cup new
        /\ shown' = [shown EXCEPT ![r.part] = v]
        /\ UNCHANGED <<history, command, done, left>>
    BY <1>3 DEF Resource!Answered
  <2>3. ~excused' => ~excused /\ ~(r.part = "row" /\ v < shown["row"])
    BY <1>3 DEF Resource!Answered, Resource!Overtaken
  <2>4. \A q \in new : q.sent = now
    BY <1>1 DEF Resource!List, Resource!Request
  <2> HIDE DEF new
  <2>5. "row" \in DOMAIN shown' /\ shown'["row"] = IF r.part = "row" THEN v ELSE shown["row"]
    BY <2>2 DEF ResourceInv
  <2>6. \A q \in requests' : q.sent \in 0..now BY <1>1, <2>2, <2>4 DEF ResourceInv
  <2>7. ASSUME ~excused', ~left' PROVE Looks'
    <3>1. Looks /\ ~(r.part = "row" /\ v < shown["row"]) BY <2>2, <2>3, <2>7 DEF ResourceInv
    <3>2. shown["row"] \in 0..now /\ done \in 0..now /\ done' = done
      BY <2>2 DEF ResourceInv
    <3>3. CASE shown["row"] >= done
      BY <1>1, <2>1, <2>5, <3>1, <3>2, <3>3 DEF Looks
    <3>4. ASSUME NEW q \in requests, q.part = "row", q.sent >= done, q # r PROVE Looks'
      BY <2>2, <3>2, <3>4 DEF Looks
    <3>5. CASE r.part = "row" /\ r.sent >= done
      BY <1>1, <2>1, <2>5, <3>2, <3>5 DEF Looks
    <3> QED BY <3>1, <3>3, <3>4, <3>5 DEF Looks
  <2>8. now' = now BY <2>2 DEF now
  <2> QED BY <2>1, <2>2, <2>5, <2>6, <2>7, <2>8 DEF ResourceInv
<1> QED BY <1>1, <1>2, <1>3

\* A command that succeeds has the row fetched again, or the page is left.
LEMMA ResourceServed ==
  ASSUME ResourceInv,
         \/ (\E i \in DOMAIN command :
               Resource!Serve(i) \/ Resource!Succeeds(i) \/ Resource!Errors(i))
         \/ \E verb, t : Resource!Meddle(verb, t)
  PROVE  ResourceInv'
<1>1. now = Resource!now /\ now \in Nat \ {0} /\ IsSequence(history)
  BY DEF now, Resource!now, ResourceInv
<1>2. ASSUME NEW h, history' = Append(history, h)
      PROVE  IsSequence(history') /\ now' = now + 1
  BY <1>1, <1>2, LongerSequence DEF now
<1>3. ASSUME NEW verb, NEW t, Resource!Meddle(verb, t) PROVE ResourceInv'
  <2>1. PICK h : history' = Append(history, h) BY <1>3 DEF Resource!Meddle
  <2>2. UNCHANGED <<requests, command, shown, done, excused, left>>
    BY <1>3 DEF Resource!Meddle, Resource!status, Resource!ghosts
  <2>3. IsSequence(history') /\ now' = now + 1 BY <1>2, <2>1
  <2>4. \A i \in DOMAIN command' : "made" \in DOMAIN command'[i] /\ command'[i].made \in 0..now'
    BY <1>1, <2>2, <2>3 DEF ResourceInv
  <2> QED BY <2>2, <2>3, <2>4, ServerGoesOn DEF ResourceInv
<1>4. ASSUME NEW i \in DOMAIN command, Resource!Serve(i) PROVE ResourceInv'
  <2> DEFINE c == [command[i] EXCEPT !.made = now + 1]
  <2>1. PICK h : history' = Append(history, h) BY <1>4 DEF Resource!Serve
  <2>2. UNCHANGED <<requests, shown, done, excused, left>> /\ command' = [command EXCEPT ![i] = c]
    BY <1>1, <1>4 DEF Resource!Serve, Resource!status, Resource!ghosts
  <2>3. IsSequence(history') /\ now' = now + 1 BY <1>2, <2>1
  <2>4. "made" \in DOMAIN c /\ c.made = now + 1 BY DEF ResourceInv
  <2> HIDE DEF c
  <2>5. c.made \in 0..now' BY <1>1, <2>3, <2>4
  <2> QED BY <2>2, <2>3, <2>4, <2>5, CommandNoted, ServerGoesOn
<1>5. ASSUME NEW i \in DOMAIN command, NEW c, c = [command[i] EXCEPT !.over = TRUE],
             command' = [command EXCEPT ![i] = c], history' = history
      PROVE  /\ IsSequence(command') /\ now' = now
             /\ \A k \in DOMAIN command' : "made" \in DOMAIN command'[k] /\ command'[k].made \in 0..now'
  <2>1. "made" \in DOMAIN c /\ c.made = command[i].made /\ command[i].made \in 0..now
    BY <1>5 DEF ResourceInv
  <2>2. now' = now BY <1>5 DEF now
  <2> QED BY <1>5, <2>1, <2>2, CommandNoted
<1>6. ASSUME NEW i \in DOMAIN command, Resource!Errors(i) PROVE ResourceInv'
  <2>1. /\ command' = [command EXCEPT ![i] = [command[i] EXCEPT !.over = TRUE]]
        /\ UNCHANGED <<requests, history, shown, done, excused, left>>
    BY <1>6 DEF Resource!Errors, Resource!ghosts
  <2> QED BY <1>5, <2>1, ServerGoesOn DEF ResourceInv
<1>7. ASSUME NEW i \in DOMAIN command, Resource!Succeeds(i) PROVE ResourceInv'
  <2>1. /\ command' = [command EXCEPT ![i] = [command[i] EXCEPT !.over = TRUE]]
        /\ done' = IF command[i].made > done THEN command[i].made ELSE done
        /\ left' = (command[i].verb = "delete")
        /\ UNCHANGED <<history, shown, excused>>
    BY <1>7 DEF Resource!Succeeds
  <2>2. PICK new : /\ requests' = requests \cup new
                   /\ \A r \in new : r.sent = now
                   /\ ~left' => \E r \in new : r.part = "row"
    <3>1. CASE command[i].verb = "delete"
      <4> DEFINE none == {}
      <4>1. requests' = requests \cup none /\ none = {} BY <1>7, <3>1 DEF Resource!Succeeds
      <4>2. left' BY <2>1, <3>1
      <4> HIDE DEF none
      <4> QED BY <4>1, <4>2
    <3>2. CASE command[i].verb = "trigger"
      <4> DEFINE q == Resource!Row(FALSE, command[i].page)
      <4>1. requests' = requests \cup {q} BY <1>7, <3>2 DEF Resource!Succeeds
      <4>2. q.sent = now /\ q.part = "row" BY <1>1 DEF Resource!Row, Resource!Request
      <4> HIDE DEF q
      <4> QED BY <4>1, <4>2
    <3>3. CASE command[i].verb # "delete" /\ command[i].verb # "trigger"
      <4>1. requests' = requests \cup Resource!fetchData BY <1>7, <3>3 DEF Resource!Succeeds
      <4> DEFINE q == Resource!Row(FALSE, Resource!NoPage)
      <4>2. q \in Resource!fetchData BY DEF Resource!fetchData
      <4>3. q.part = "row" BY DEF Resource!Row, Resource!Request
      <4>4. \A r \in Resource!fetchData : r.sent = now
        BY <1>1 DEF Resource!fetchData, Resource!Row, Resource!Request
      <4> HIDE DEF q
      <4> QED BY <4>1, <4>2, <4>3, <4>4
    <3> QED BY <3>1, <3>2, <3>3
  <2>3. /\ IsSequence(command') /\ now' = now
        /\ \A k \in DOMAIN command' : "made" \in DOMAIN command'[k] /\ command'[k].made \in 0..now'
    BY <1>5, <2>1
  <2>4. done' \in 0..now BY <1>1, <2>1 DEF ResourceInv
  <2>5. ~left' => Looks' BY <1>1, <2>2, <2>4 DEF Looks
  <2>6. \A r \in requests' : r.sent \in 0..now BY <1>1, <2>2 DEF ResourceInv
  <2> QED BY <2>1, <2>3, <2>4, <2>5, <2>6 DEF ResourceInv
<1> QED BY <1>3, <1>4, <1>6, <1>7

LEMMA ResourceStep == ASSUME ResourceInv, Resource!Next PROVE ResourceInv'
<1>1. CASE \E r \in requests : \/ Resource!RequestFails(r)
                               \/ \E v \in r.sent..Resource!now :
                                    Resource!Answered(r, v) \/ Resource!NotFound(r, v)
  BY <1>1, ResourceAnswered
<1> QED BY <1>1, ResourceUser, ResourceServed DEF Resource!Next

LEMMA ResourceShows == ASSUME ResourceInv PROVE Resource!AcknowledgedIsShown
BY DEF ResourceInv, Looks, Resource!AcknowledgedIsShown, Resource!Shown, Resource!Quiet

-----------------------------------------------------------------------------
(* The log of a service.                                                   *)

\* The page module counts as FiniteSets does.
LEMMA Counting == \A S : Log!Cardinality(S) = Cardinality(S)
BY Zenon DEF Log!Cardinality, Cardinality

\* Every place from the top has one element of a finite set, and a lower place a lower one.
LEMMA Places ==
  ASSUME NEW s \in SUBSET Int, IsFiniteSet(s)
  PROVE  /\ \A n \in 1..Cardinality(s) : \E i \in s : Cardinality({k \in s : k >= i}) = n
         /\ \A i, k \in s : Cardinality({l \in s : l >= i}) < Cardinality({l \in s : l >= k}) => i > k
<1> DEFINE above(i) == {k \in s : k >= i}
           rank == [i \in s |-> Cardinality(above(i))]
           N == Cardinality(s)
<1>1. ASSUME NEW i \in s
      PROVE  IsFiniteSet(above(i)) /\ rank[i] \in 1..N
  <2>1. above(i) \in SUBSET s /\ i \in above(i) OBVIOUS
  <2>2. IsFiniteSet(above(i)) /\ Cardinality(above(i)) <= N BY <2>1, FS_Subset
  <2>3. Cardinality(above(i)) \in Nat /\ N \in Nat BY <2>2, FS_CardinalityType
  <2>4. Cardinality(above(i)) # 0 BY <2>1, <2>2, FS_EmptySet
  <2> HIDE DEF above
  <2> QED BY <2>2, <2>3, <2>4
<1>2. ASSUME NEW i \in s, NEW k \in s, i < k PROVE rank[k] < rank[i]
  <2>1. above(k) \in SUBSET above(i) /\ i \in above(i) /\ i \notin above(k)
    <3>1. i \in Int /\ k \in Int /\ \A l \in s : l \in Int OBVIOUS
    <3>2. \A l \in s : l >= k => l >= i BY <1>2, <3>1
    <3>3. i >= i /\ ~(i >= k) BY <1>2, <3>1
    <3> QED BY <3>2, <3>3
  <2>2. IsFiniteSet(above(i)) BY <1>1
  <2>3. /\ Cardinality(above(k)) <= Cardinality(above(i))
        /\ Cardinality(above(k)) # Cardinality(above(i))
    BY <2>1, <2>2, FS_Subset
  <2>4. rank[k] = Cardinality(above(k)) /\ rank[i] = Cardinality(above(i)) OBVIOUS
  <2> HIDE DEF above, rank, N
  <2> QED BY <1>1, <2>3, <2>4
<1>3. \A i \in s : rank[i] = Cardinality({k \in s : k >= i}) OBVIOUS
<1>4. rank \in [s -> 1..N] BY <1>1
<1> HIDE DEF above, rank
<1>5. \A i, k \in s : rank[i] = rank[k] => i = k
  <2> SUFFICES ASSUME NEW i \in s, NEW k \in s, i # k PROVE rank[i] # rank[k] OBVIOUS
  <2>1. i < k \/ k < i OBVIOUS
  <2>2. rank[i] \in 1..N /\ rank[k] \in 1..N BY <1>1
  <2> QED BY <1>2, <2>1, <2>2
<1>6. rank \in Injection(s, 1..N) BY <1>4, <1>5 DEF Injection, IsInjective
<1>7. N \in Nat BY FS_CardinalityType
<1>8. IsFiniteSet(1..N) /\ Cardinality(1..N) = N BY <1>7, FS_Interval
<1> HIDE DEF N
<1>9. Cardinality(s) = N BY DEF N
<1>10. rank \in Surjection(s, 1..N) BY <1>6, <1>8, <1>9, FS_Injection
<1>11. \A n \in 1..N : \E i \in s : rank[i] = n BY <1>10 DEF Surjection
<1>12. ASSUME NEW i \in s, NEW k \in s, rank[i] < rank[k] PROVE i > k
  <2>1. rank[i] \in 1..N /\ rank[k] \in 1..N BY <1>1
  <2>2. i < k \/ k < i \/ i = k OBVIOUS
  <2> QED BY <1>2, <1>12, <2>1, <2>2
<1> QED BY <1>3, <1>9, <1>11, <1>12

\* An answer's entries, put in order.
LEMMA NewestFirstSorts ==
  ASSUME NEW s \in SUBSET Int, IsFiniteSet(s)
  PROVE  /\ Log!NewestFirstOf(s) \in Seq(s)
         /\ Len(Log!NewestFirstOf(s)) = Cardinality(s)
         /\ \A n, m \in 1..Cardinality(s) :
              n < m => Log!NewestFirstOf(s)[n] > Log!NewestFirstOf(s)[m]
<1> DEFINE N == Cardinality(s)
           f == Log!NewestFirstOf(s)
           at(n) == CHOOSE i \in s : Log!Cardinality({k \in s : k >= i}) = n
<1>1. f = [n \in 1..N |-> at(n)]
  <2>1. f = [n \in 1..Log!Cardinality(s) |-> at(n)] BY DEF Log!NewestFirstOf
  <2>2. Log!Cardinality(s) = N BY Counting
  <2> HIDE DEF f, at, N
  <2> QED BY <2>1, <2>2
<1>2. ASSUME NEW n \in 1..N PROVE at(n) \in s /\ Cardinality({k \in s : k >= at(n)}) = n
  <2>1. PICK i \in s : Cardinality({k \in s : k >= i}) = n BY Places
  <2>2. Log!Cardinality({k \in s : k >= i}) = n BY <2>1, Counting
  <2>3. at(n) \in s /\ Log!Cardinality({k \in s : k >= at(n)}) = n BY <2>2
  <2> HIDE DEF at
  <2> QED BY <2>3, Counting
<1>3. N \in Nat BY FS_CardinalityType
<1> HIDE DEF f, at, N
<1>4. f \in [1..N -> s] BY <1>1, <1>2
<1>5. f \in Seq(s) BY <1>3, <1>4, SeqDef
<1>6. Len(f) = N BY <1>3, <1>4, <1>5, LenProperties
<1>7. ASSUME NEW n \in 1..N, NEW m \in 1..N, n < m PROVE f[n] > f[m]
  <2>1. /\ at(n) \in s /\ Cardinality({k \in s : k >= at(n)}) = n
        /\ at(m) \in s /\ Cardinality({k \in s : k >= at(m)}) = m
    BY <1>2
  <2>2. \A i, k \in s : Cardinality({l \in s : l >= i}) < Cardinality({l \in s : l >= k}) => i > k
    BY Places
  <2>3. Cardinality({l \in s : l >= at(n)}) < Cardinality({l \in s : l >= at(m)})
    BY <1>7, <2>1
  <2>4. at(n) > at(m) BY <2>1, <2>2, <2>3
  <2> QED BY <1>1, <2>4
<1> QED BY <1>5, <1>6, <1>7 DEF f, N

\* The cursor's next place.
LEMMA HighestIsHighest ==
  ASSUME NEW s \in SUBSET Int, IsFiniteSet(s), s # {}
  PROVE  Log!Highest(s) \in s /\ \A k \in s : k <= Log!Highest(s)
<1>1. Cardinality(s) \in Nat \ {0} BY FS_EmptySet, FS_CardinalityType
<1>2. 1 \in 1..Cardinality(s) BY <1>1
<1>3. PICK i \in s : Cardinality({k \in s : k >= i}) = 1 BY <1>2, Places
<1>4. ASSUME NEW k \in s, k > i PROVE FALSE
  <2> DEFINE A == {l \in s : l >= i}
             B == {l \in s : l >= k}
  <2>1. B \in SUBSET A /\ i \in A /\ i \notin B /\ k \in B
    <3>1. i \in Int /\ k \in Int /\ \A l \in s : l \in Int OBVIOUS
    <3>2. \A l \in s : l >= k => l >= i BY <1>4, <3>1
    <3>3. i >= i /\ k >= k /\ ~(i >= k) BY <1>4, <3>1
    <3> QED BY <3>2, <3>3
  <2>2. A \in SUBSET s OBVIOUS
  <2>3. IsFiniteSet(A) BY <2>2, FS_Subset
  <2> HIDE DEF A, B
  <2>4. IsFiniteSet(B) /\ Cardinality(B) <= Cardinality(A) /\ Cardinality(A) # Cardinality(B)
    BY <2>1, <2>3, FS_Subset
  <2>5. Cardinality(B) \in Nat \ {0} BY <2>1, <2>4, FS_EmptySet, FS_CardinalityType
  <2>6. Cardinality(A) = 1 BY <1>3 DEF A
  <2> QED BY <2>4, <2>5, <2>6
<1>5. \A k \in s : k <= i BY <1>4
<1> QED BY <1>5 DEF Log!Highest

\* The tail is newest first and has nothing above the cursor.
NewestFirstUpto(t, top) ==
  /\ t \in Seq({i \in 1..Len(log) : i <= top /\ Log!Passes(filter, log[i])})
  /\ \A i, k \in DOMAIN t : i < k => t[i] > t[k]
LogInv ==
  /\ log \in Seq(Entries) /\ Len(log) \in Nat
  /\ \A r \in requests : r.sent \in Nat
  /\ ~crossed => cursor \in 0..Len(log) /\ NewestFirstUpto(tail, cursor)

LEMMA LogBegins == ASSUME Log!Init PROVE LogInv
<1>1. log = << >> /\ Len(log) = 0 /\ log \in Seq(Entries) BY EmptySeq DEF Log!Init
<1>2. \A r \in requests : r.sent = 0
  <2>1. requests = {Log!LogRequest(filter, cursor)} BY DEF Log!Init
  <2>2. Log!LogRequest(filter, cursor).sent = Len(log) BY DEF Log!LogRequest
  <2> QED BY <1>1, <2>1, <2>2
<1>3. cursor = 0 /\ tail = << >> BY DEF Log!Init
<1>4. NewestFirstUpto(tail, cursor) BY <1>3, EmptySeq DEF NewestFirstUpto
<1> QED BY <1>1, <1>2, <1>3, <1>4 DEF LogInv

\* What an answer finds is above the cursor, so put on top it leaves the tail in order.
LEMMA PutOnTop ==
  ASSUME LogInv, NewestFirstUpto(tail, cursor), cursor \in Nat,
         NEW new \in SUBSET {i \in 1..Len(log) : Log!Passes(filter, log[i])}, IsFiniteSet(new),
         \A i \in new : i > cursor,
         NEW top \in Nat, top >= cursor, \A i \in new : i <= top
  PROVE  NewestFirstUpto(Log!Prepended(new), top)
<1> DEFINE V == {i \in 1..Len(log) : i <= top /\ Log!Passes(filter, log[i])}
           f == Log!NewestFirstOf(new)
           all == f \o tail
           n == IF Len(all) > Cap THEN Cap ELSE Len(all)
           t == Log!Prepended(new)
<1>1. Len(log) \in Nat BY DEF LogInv
<1>2. new \in SUBSET Int /\ new \subseteq V BY <1>1
<1>3. /\ f \in Seq(new) /\ Len(f) = Cardinality(new)
      /\ \A i, k \in 1..Cardinality(new) : i < k => f[i] > f[k]
  BY <1>2, NewestFirstSorts
<1>4. {i \in 1..Len(log) : i <= cursor /\ Log!Passes(filter, log[i])} \subseteq V
  BY <1>1
<1>5. tail \in Seq(V) /\ \A i, k \in DOMAIN tail : i < k => tail[i] > tail[k]
  BY <1>4, SeqMonotonic DEF NewestFirstUpto
<1>6. \A i \in 1..Len(tail) : tail[i] \in Int /\ tail[i] <= cursor
  <2>1. tail \in Seq({i \in 1..Len(log) : i <= cursor /\ Log!Passes(filter, log[i])})
    BY DEF NewestFirstUpto
  <2> QED BY <2>1, ElementOfSeq
<1>7. \A i \in V : i \in Int BY <1>1
<1>8. t = SubSeq(all, 1, n) BY DEF Log!Prepended
<1> HIDE DEF V, f, t
<1>9. /\ f \in Seq(V) /\ Len(f) \in Nat /\ Len(tail) \in Nat
      /\ \A i \in 1..Len(f) : f[i] \in new
      /\ DOMAIN tail = 1..Len(tail)
  BY <1>2, <1>3, <1>5, SeqMonotonic, LenProperties, ElementOfSeq
<1>10. /\ all \in Seq(V) /\ Len(all) = Len(f) + Len(tail)
       /\ \A i \in 1..Len(f) + Len(tail) : all[i] = IF i <= Len(f) THEN f[i] ELSE tail[i - Len(f)]
  BY <1>5, <1>9, ConcatProperties
<1> HIDE DEF all
<1>11. ASSUME NEW i \in 1..Len(all), NEW k \in 1..Len(all), i < k PROVE all[i] > all[k]
  <2>1. CASE k <= Len(f)
    <3>1. i \in 1..Cardinality(new) /\ k \in 1..Cardinality(new) BY <1>3, <1>9, <1>11, <2>1
    <3>2. all[i] = f[i] /\ all[k] = f[k] BY <1>9, <1>10, <1>11, <2>1
    <3> QED BY <1>3, <1>11, <3>1, <3>2
  <2>2. CASE i <= Len(f) /\ k > Len(f)
    <3>1. i \in 1..Len(f) /\ k - Len(f) \in 1..Len(tail) BY <1>9, <1>10, <2>2
    <3>2. all[i] = f[i] /\ all[k] = tail[k - Len(f)] BY <1>9, <1>10, <2>2
    <3>3. f[i] \in new /\ f[i] > cursor /\ f[i] \in Int BY <1>2, <1>9, <3>1
    <3>4. tail[k - Len(f)] \in Int /\ tail[k - Len(f)] <= cursor BY <1>6, <3>1
    <3> QED BY <3>2, <3>3, <3>4
  <2>3. CASE i > Len(f)
    <3>1. i - Len(f) \in 1..Len(tail) /\ k - Len(f) \in 1..Len(tail) /\ i - Len(f) < k - Len(f)
      BY <1>9, <1>10, <1>11, <2>3
    <3>2. all[i] = tail[i - Len(f)] /\ all[k] = tail[k - Len(f)]
      BY <1>9, <1>10, <1>11, <2>3
    <3> QED BY <1>5, <1>9, <3>1, <3>2
  <2> QED BY <1>9, <1>10, <1>11, <2>1, <2>2, <2>3
<1>12. n \in 0..Len(all)
  BY <1>9, <1>10, FetchAssumption
<1> HIDE DEF n
<1>13. \A i \in 1..n : all[i] \in V BY <1>9, <1>10, <1>12, ElementOfSeq
<1>14. /\ t \in Seq(V) /\ Len(t) = n
       /\ \A i \in 1..n : t[i] = all[i]
  <2>1. /\ t \in Seq(V) /\ Len(t) = IF 1 <= n THEN n - 1 + 1 ELSE 0
        /\ \A i \in 1..n - 1 + 1 : t[i] = all[1 + i - 1]
    BY <1>8, <1>12, <1>13, SubSeqProperties
  <2>2. Len(all) \in Nat BY <1>9, <1>10
  <2> QED BY <1>12, <2>1, <2>2
<1>15. DOMAIN t = 1..n BY <1>14, LenProperties
<1>16. Len(all) \in Nat BY <1>9, <1>10
<1>17. \A i, k \in DOMAIN t : i < k => t[i] > t[k]
  BY <1>11, <1>12, <1>14, <1>15, <1>16
<1> QED BY <1>14, <1>17 DEF NewestFirstUpto, V, t

\* An answer that finds the filter and the cursor it was asked with.
LEMMA AnswerLogged ==
  ASSUME LogInv, NEW r \in requests, NEW v \in r.sent..Len(log), Log!Logged(r, v)
  PROVE  LogInv'
<1> DEFINE new == Log!Found(r, v)
<1>1. /\ tail' = Log!Prepended(new)
      /\ cursor' = IF new # {} THEN Log!Highest(new) ELSE cursor
      /\ crossed' = (crossed \/ Log!Crosses(r))
      /\ requests' = requests \ {r}
      /\ log' = log /\ filter' = filter
  BY DEF Log!Logged
<1>2. ASSUME ~crossed' PROVE cursor' \in 0..Len(log') /\ NewestFirstUpto(tail, cursor)'
  <2>1. ~crossed /\ r.filter = filter /\ r.from = cursor BY <1>1, <1>2 DEF Log!Crosses
  <2>2. /\ cursor \in 0..Len(log) /\ Len(log) \in Nat /\ NewestFirstUpto(tail, cursor)
        /\ v \in Nat /\ v <= Len(log)
    BY <2>1 DEF LogInv
  <2>3. new \in SUBSET {i \in cursor + 1..v : Log!Passes(filter, log[i])}
    BY <2>1 DEF Log!Found
  <2>4. new \in SUBSET (cursor + 1..v) /\ IsFiniteSet(cursor + 1..v)
    BY <2>2, <2>3, FS_Interval
  <2>5. IsFiniteSet(new) BY <2>4, FS_Subset
  <2> HIDE DEF new
  <2>6. /\ new \in SUBSET {i \in 1..Len(log) : Log!Passes(filter, log[i])}
        /\ \A i \in new : i > cursor /\ i <= Len(log) /\ i \in Int
    BY <2>2, <2>3
  <2>7. cursor' \in 0..Len(log) /\ cursor' >= cursor /\ \A i \in new : i <= cursor'
    <3>1. CASE new = {} BY <1>1, <2>2, <3>1
    <3>2. CASE new # {}
      <4>1. new \in SUBSET Int BY <2>6
      <4>2. cursor' \in new /\ \A i \in new : i <= cursor'
        BY <1>1, <2>5, <3>2, <4>1, HighestIsHighest
      <4> QED BY <2>2, <2>6, <4>2
    <3> QED BY <3>1, <3>2
  <2> DEFINE top == cursor'
             t == tail'
  <2>8. NewestFirstUpto(Log!Prepended(new), top)
    <3>1. top \in Nat BY <2>2, <2>7
    <3>2. top >= cursor /\ (\A i \in new : i <= top) /\ cursor \in Nat BY <2>2, <2>7
    <3> HIDE DEF top
    <3> QED BY <2>2, <2>5, <2>6, <3>1, <3>2, PutOnTop
  <2>9. cursor' \in 0..Len(log') BY <1>1, <2>7
  <2> QED BY <1>1, <2>8, <2>9 DEF NewestFirstUpto, Log!Passes
<1> QED BY <1>1, <1>2 DEF LogInv

LEMMA LogStep == ASSUME LogInv, Log!Next PROVE LogInv'
<1>1. CASE Log!fetchLogs
  BY <1>1 DEF Log!fetchLogs, Log!logView, Log!LogRequest, LogInv, NewestFirstUpto
<1>2. ASSUME NEW r \in requests, Log!LogFails(r) PROVE LogInv'
  BY <1>2 DEF Log!LogFails, Log!logView, LogInv, NewestFirstUpto
<1>3. ASSUME NEW f, Log!FilterChange(f) PROVE LogInv'
  <2>1. /\ cursor' = 0 /\ tail' = << >> /\ log' = log
        /\ requests' = requests \cup {Log!LogRequest(f, 0)}
    BY <1>3 DEF Log!FilterChange
  <2>2. Log!LogRequest(f, 0).sent = Len(log) BY DEF Log!LogRequest
  <2>3. NewestFirstUpto(tail, cursor)' BY <2>1, EmptySeq DEF NewestFirstUpto
  <2> QED BY <2>1, <2>2, <2>3 DEF LogInv
<1>4. ASSUME NEW e \in Entries, Log!Write(e) PROVE LogInv'
  <2>1. log' = Append(log, e) /\ UNCHANGED <<filter, cursor, tail, requests, crossed>>
    BY <1>4 DEF Log!Write, Log!logView
  <2>2. /\ log' \in Seq(Entries) /\ Len(log') = Len(log) + 1 /\ Len(log) \in Nat
        /\ \A i \in 1..Len(log) : log'[i] = log[i]
    BY <2>1, AppendProperties DEF LogInv
  <2>3. {i \in 1..Len(log) : i <= cursor /\ Log!Passes(filter, log[i])}
          \subseteq {i \in 1..Len(log') : i <= cursor' /\ Log!Passes(filter', log'[i])}
    BY <2>1, <2>2
  <2>4. ~crossed => NewestFirstUpto(tail, cursor)'
    BY <2>1, <2>3, SeqMonotonic DEF LogInv, NewestFirstUpto, Log!Passes
  <2> QED BY <2>1, <2>2, <2>4 DEF LogInv
<1> QED BY <1>1, <1>2, <1>3, <1>4, AnswerLogged DEF Log!Next

LEMMA LogShows == ASSUME LogInv PROVE Log!NewestFirstUncrossed
<1> SUFFICES ASSUME ~crossed PROVE Log!NewestFirst BY DEF Log!NewestFirstUncrossed
<1>1. NewestFirstUpto(tail, cursor) BY DEF LogInv
<1>2. \A i \in DOMAIN tail : Log!Passes(filter, log[tail[i]])
  BY <1>1, ElementOfSeq, LenProperties DEF NewestFirstUpto
<1> QED BY <1>1, <1>2 DEF Log!NewestFirst, NewestFirstUpto

-----------------------------------------------------------------------------
(* The pages together.                                                     *)

PagesInv ==
  /\ screen = "detail" => DetailInv
  /\ screen \in ResourceScreens => ResourceInv
  /\ screen = "service log" => LogInv

LEMMA PagesBegin == PagesInit => PagesInv
<1> SUFFICES ASSUME PagesInit PROVE PagesInv OBVIOUS
<1>1. CASE JobDetail!Init
  <2>1. screen = "detail" BY <1>1 DEF JobDetail!Init
  <2> QED BY <1>1, <2>1, DetailBegins DEF PagesInv, ResourceScreens
<1>2. CASE Resource!Init
  <2>1. screen \in ResourceScreens BY <1>2 DEF Resource!Init
  <2> QED BY <1>2, <2>1, ResourceBegins DEF PagesInv, ResourceScreens
<1>3. CASE Service!Init
  <2>1. screen = "service" BY <1>3 DEF Service!Init
  <2> QED BY <2>1 DEF PagesInv, ResourceScreens
<1>4. CASE Log!Init
  <2>1. screen = "service log" BY <1>4 DEF Log!Init
  <2> QED BY <1>4, <2>1, LogBegins DEF PagesInv, ResourceScreens
<1> QED BY <1>1, <1>2, <1>3, <1>4 DEF PagesInit

\* No page turns into another.
LEMMA ScreenStays ==
  ASSUME \/ JobDetail!Next \/ Resource!Next \/ Service!Next \/ Log!Next
  PROVE  screen' = screen
<1>1. CASE JobDetail!Next
  BY <1>1 DEF JobDetail!Next, JobDetail!Open, JobDetail!refresh, JobDetail!updateCounts,
     JobDetail!emit, JobDetail!Detailed, JobDetail!DetailFails, JobDetail!Counted,
     JobDetail!Listed, JobDetail!TableFails, JobDetail!Pick, JobDetail!Turn,
     JobDetail!Requeue, JobDetail!Ask, JobDetail!onConfirm, JobDetail!Dismiss,
     JobDetail!Serve, JobDetail!Succeeds, JobDetail!Lost, JobDetail!Work
<1>2. CASE Resource!Next
  BY <1>2 DEF Resource!Next, Resource!Refresh, Resource!Expand, Resource!Turn,
     Resource!TogglePause, Resource!handleEnable, Resource!Ask, Resource!handleConfirmed,
     Resource!forceComplete, Resource!Dismiss, Resource!SagaRefetch, Resource!Answered,
     Resource!NotFound, Resource!RequestFails, Resource!Serve, Resource!Succeeds,
     Resource!Errors, Resource!Meddle
<1>3. CASE Service!Next
  BY <1>3 DEF Service!Next, Service!PollDetail, Service!Detailed, Service!Leased,
     Service!RequestFails, Service!ChooseTab, Service!Change
<1>4. CASE Log!Next
  BY <1>4 DEF Log!Next, Log!fetchLogs, Log!Logged, Log!LogFails, Log!FilterChange, Log!Write
<1> QED BY <1>1, <1>2, <1>3, <1>4

LEMMA PagesStep == PagesInv /\ [PagesNext]_pages => PagesInv'
<1> SUFFICES ASSUME PagesInv, [PagesNext]_pages PROVE PagesInv' OBVIOUS
<1>1. CASE screen = "detail" /\ JobDetail!Next
  BY <1>1, ScreenStays, DetailStep DEF PagesInv, ResourceScreens
<1>2. CASE screen \in ResourceScreens /\ Resource!Next
  BY <1>2, ScreenStays, ResourceStep DEF PagesInv, ResourceScreens
<1>3. CASE screen = "service" /\ Service!Next
  BY <1>3, ScreenStays DEF PagesInv, ResourceScreens
<1>4. CASE screen = "service log" /\ Log!Next
  BY <1>4, ScreenStays, LogStep DEF PagesInv, ResourceScreens
<1>5. CASE UNCHANGED pages
  <2>1. DetailInv => DetailInv' BY <1>5 DEF pages, DetailInv, OwnTable, OwnRequests
  <2>2. ResourceInv => ResourceInv' BY <1>5 DEF pages, ResourceInv, Looks, now
  <2>3. LogInv => LogInv'
    BY <1>5 DEF pages, LogInv, NewestFirstUpto, Log!Passes
  <2>4. screen' = screen BY <1>5 DEF pages
  <2> QED BY <2>1, <2>2, <2>3, <2>4 DEF PagesInv
<1> QED BY <1>1, <1>2, <1>3, <1>4, <1>5 DEF PagesNext

LEMMA PagesInvariant == PagesSpec => []PagesInv
BY PagesBegin, PagesStep, PTL DEF PagesSpec

\* FilteredJobsTable.tsx and its key in DetailPage.tsx: however many answers of earlier
\* batches' tables are still to come, the rows on the screen are of the batch in the header.
THEOREM RowsStayOwn == PagesSpec => []RowsAreOwn
<1>1. PagesInv => RowsAreOwn BY DetailShows DEF PagesInv, RowsAreOwn
<1> QED BY <1>1, PagesInvariant, PTL

\* ServerDetailPage.tsx, WorkerDetailPage.tsx, RecurringDetailPage.tsx, SagaDetailPage.tsx:
\* at rest the row is as new as the page's last command reported done, unless a fetch of
\* it failed or was overtaken.
THEOREM ResourcesAcknowledge == PagesSpec => []AcknowledgedIsShown
<1>1. PagesInv => AcknowledgedIsShown BY ResourceShows DEF PagesInv, AcknowledgedIsShown
<1> QED BY <1>1, PagesInvariant, PTL

\* BackgroundServices/Detail.tsx:84-103: polled by its highest id and cut at Cap, the tail
\* stays newest first, without an entry twice or one the filter hides, as long as every
\* answer finds the filter and the cursor it was asked with.
THEOREM TailsStaySorted == PagesSpec => []NewestFirstUncrossed
<1>1. PagesInv => NewestFirstUncrossed BY LogShows DEF PagesInv, NewestFirstUncrossed
<1> QED BY <1>1, PagesInvariant, PTL

=============================================================================
