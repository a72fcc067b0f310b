------------------------- MODULE MCFetchPages -------------------------
(* A small instance of FetchPages: a batch of two jobs, and one of none;   *)
(* job 3 has failed, job 4 runs.                                           *)
EXTENDS FetchPages

AllRows == 1..4
Parents == <<0, 0, 1, 1>>
Running == [j \in {3, 4} |-> IF j = 3 THEN "failed" ELSE "processing"]
Beginnings == {Running}
States == <<"enqueued", "processing", "failed">>

LogEntries == {[source |-> 1, level |-> 2], [source |-> 2, level |-> 4]}
LogFilters == {[source |-> s, level |-> l] : s \in {0, 1}, l \in {-1, 4}}
=============================================================================
