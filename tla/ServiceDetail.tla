---------------------------- MODULE ServiceDetail ----------------------------
(***************************************************************************)
(* pages/BackgroundServices/Detail.tsx: one background service with its    *)
(* instances and its lease, polled every two seconds without waiting for   *)
(* the answer to the poll before.  The log of the page is ServiceLog's.    *)
(***************************************************************************)
EXTENDS Integers, Sequences, FiniteSets

CONSTANTS Servers,      \* those that may run the service
          None,         \* no holder
          MaxVersions, MaxMoves, MaxFaults

VARIABLES screen,
          history,      \* the service, version by version
          detail, lease,        \* the versions on the screen
          error, gone,
          tab,          \* activeTabIndex
          requests,
          moves, faults

status == <<detail, lease, error, gone, tab>>
vars == <<screen, history, status, requests, moves, faults>>

now == Len(history)
Removed == [alive |-> FALSE, instances |-> {}, holder |-> None]
Services ==
  {s \in [alive : {TRUE}, instances : SUBSET Servers, holder : Servers \cup {None}] :
     s.holder \in s.instances \cup {None}} \cup {Removed}

DetailRequest == [part |-> "detail", sent |-> now]
LeaseRequest == [part |-> "lease", sent |-> now]

-----------------------------------------------------------------------------
(* What the page shows.                                                    *)

Shown == ~gone /\ ~error /\ detail # 0

\* One tab for each instance; the panel is that of the index chosen, if there is one.
Tabs == 0..Cardinality(history[detail].instances) - 1
InstancePanel == Shown /\ tab \in Tabs

LeasePanel == IF lease = 0 THEN None ELSE history[lease].holder

Init ==
  /\ screen = "service"
  /\ history \in {<<s>> : s \in Services}
  /\ detail = 0 /\ lease = 0 /\ error = FALSE /\ gone = FALSE /\ tab = 0
  /\ requests = {DetailRequest}
  /\ moves = 0 /\ faults = 0

-----------------------------------------------------------------------------
\* Every two seconds, whatever the page shows.  (Bound: two polls that would find the same
\* are one.)
PollDetail ==
  /\ DetailRequest \notin requests
  /\ requests' = requests \cup {DetailRequest}
  /\ UNCHANGED <<screen, history, status, moves, faults>>

\* A singleton's lease is asked for behind it.  Neither "not found" nor an error is for good.
Detailed(r, v) ==
  /\ r.part = "detail"
  /\ IF history[v].alive
       THEN /\ detail' = v /\ error' = FALSE /\ gone' = FALSE
            /\ requests' = (requests \ {r}) \cup {LeaseRequest}
       ELSE gone' = TRUE /\ requests' = requests \ {r} /\ UNCHANGED <<detail, error>>
  /\ UNCHANGED <<screen, history, lease, tab, moves, faults>>

Leased(r, v) ==
  /\ r.part = "lease"
  /\ lease' = v
  /\ requests' = requests \ {r}
  /\ UNCHANGED <<screen, history, detail, error, gone, tab, moves, faults>>

RequestFails(r) ==
  /\ faults < MaxFaults /\ faults' = faults + 1
  /\ error' = TRUE
  /\ requests' = requests \ {r}
  /\ UNCHANGED <<screen, history, detail, lease, gone, tab, moves>>

ChooseTab(i) ==
  /\ Shown /\ i \in Tabs /\ i # tab
  /\ moves < MaxMoves /\ moves' = moves + 1
  /\ tab' = i
  /\ UNCHANGED <<screen, history, detail, lease, error, gone, requests, faults>>

\* Instances start and stop, the lease changes hands, the service is forgotten.
Change(s) ==
  /\ now < MaxVersions /\ s # history[now]
  /\ history' = Append(history, s)
  /\ UNCHANGED <<screen, status, requests, moves, faults>>

Next ==
  \/ PollDetail
  \/ \E r \in requests : RequestFails(r)
  \/ \E r \in requests : \E v \in r.sent..now : Detailed(r, v) \/ Leased(r, v)
  \/ \E i \in 0..Cardinality(Servers) - 1 : ChooseTab(i)
  \/ \E s \in Services : Change(s)

DetailAnswer == \E r \in requests : \E v \in r.sent..now : Detailed(r, v)
LeaseAnswer == \E r \in requests : \E v \in r.sent..now : Leased(r, v)
Fairness == WF_vars(PollDetail) /\ WF_vars(DetailAnswer) /\ WF_vars(LeaseAnswer)
Spec == Init /\ [][Next]_vars /\ Fairness

-----------------------------------------------------------------------------
(* Properties.                                                             *)

(***************************************************************************)
(* The page ends on the service and the holder of its lease as they are,   *)
(* or on "could not be found", whatever failed or came late.               *)
(***************************************************************************)
ServiceCurrent ==
  /\ gone = ~history[now].alive
  /\ ~gone =>
       /\ ~error /\ detail # 0 /\ history[detail] = history[now]
       /\ LeasePanel = history[now].holder
=============================================================================
