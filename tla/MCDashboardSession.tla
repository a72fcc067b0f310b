------------------------ MODULE MCDashboardSession ------------------------
(* The root of the runs of DashboardSession: two extensions that ask for   *)
(* one slot, or a single one.                                              *)
EXTENDS DashboardSession

OneSlot == <<"append:detail">>
SharedSlot == <<"append:detail", "append:detail">>
=============================================================================
