-------------------------- MODULE MCJobLifecycle --------------------------
(* Model values for JobLifecycle and the symmetry of its identities.       *)
EXTENDS JobLifecycle, TLC

CONSTANTS j1, j2, w1, w2

\* Interchangeable workers: sound for the safety run, which names none of them.
WorkerIdentities == Permutations(Worker)

============================================================================
