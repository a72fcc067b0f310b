----------------------------- MODULE MCServiceLog -----------------------------
(* Entries and filters for ServiceLog.                                     *)
EXTENDS ServiceLog
MCEntries == {[source |-> 1, level |-> 2], [source |-> 2, level |-> 4]}
MCFilters == {[source |-> s, level |-> l] : s \in {0, 1}, l \in {-1, 4}}
=============================================================================
