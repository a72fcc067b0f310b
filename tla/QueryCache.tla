----------------------------- MODULE QueryCache -----------------------------
(***************************************************************************)
(* What the dashboard's pages rely on of React Query (external), with the  *)
(* options of lib/queryClient.ts.  The server's state is a version number; *)
(* an entry of the cache holds the version it shows and the version the    *)
(* fetch under way was answered with, 0 for none.                          *)
(***************************************************************************)
EXTENDS Naturals

Absent ==
  [data |-> 0, fetch |-> 0, invalid |-> FALSE, old |-> FALSE, failed |-> FALSE]

Entries(versions) ==
  [data : versions \cup {0}, fetch : versions \cup {0},
   invalid : BOOLEAN, old : BOOLEAN, failed : BOOLEAN]

\* isError, and data on the screen.
Visible(e) == e.data # 0 /\ ~e.failed

\* Nothing there, invalidated, or older than staleTime.
Stale(e) == e.data = 0 \/ e.invalid \/ e.old

\* A fetch starts; an error of an entry that never had data is forgotten.
Fetch(e, v) == [e EXCEPT !.fetch = v, !.failed = @ /\ e.data # 0]

\* A component begins to use the entry.
Observe(e, v) == IF Stale(e) /\ e.fetch = 0 THEN Fetch(e, v) ELSE e

\* invalidateQueries marks every entry of the scope, and fetches again those
\* in use, in place of the fetch under way unless that is the first.
Invalidate(e, inUse, v) ==
  IF e = Absent THEN e
  ELSE LET i == [e EXCEPT !.invalid = TRUE]
       IN  IF inUse /\ (e.fetch = 0 \/ e.data # 0) THEN Fetch(i, v) ELSE i

\* The fetch under way outlives the invalidation.
Outruns(e, inUse) == e.fetch # 0 /\ (~inUse \/ e.data = 0)

\* The fetch succeeds; retries are over and it has failed.
Settle(e) == [Absent EXCEPT !.data = e.fetch]
Fail(e) == [e EXCEPT !.fetch = 0, !.failed = TRUE, !.invalid = TRUE]

\* staleTime passes.
Age(e) == IF e.data = 0 THEN e ELSE [e EXCEPT !.old = TRUE]
=============================================================================
