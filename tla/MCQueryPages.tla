------------------------- MODULE MCQueryPages -------------------------
(* A small instance of QueryPages: two jobs of two types; one row of       *)
(* limits, which are edited in place; two recurring jobs, and two servers. *)
EXTENDS QueryPages, MCTraceGraph

AllJobs == {1, 2}
Types == <<"t", "u">>
Beginnings == {<<"failed", "failed">>, <<"failed", "enqueued">>}
RowNames(s) == IF s \in {"ratelimits", "concurrency"} THEN {1} ELSE {1, 2}
=============================================================================
