---------------------------- MODULE MCDispatcher ----------------------------
(* Small instances of Dispatcher.                                          *)
EXTENDS Dispatcher, TLC

CONSTANTS j1, j2, w1, w2, g1, g2

\* One server with two workers.
OneServer == [w \in {w1, w2} |-> g1]

Jobs == Permutations(Job)

=============================================================================
