----------------------------- MODULE MCJobQueue -----------------------------
(***************************************************************************)
(* TLC instances of JobQueue and of the reports on it.  Jobs are           *)
(* interchangeable and so are processes; the symmetry is used in runs      *)
(* without liveness only.                                                  *)
(***************************************************************************)
EXTENDS Reports, TLC

Symmetry == Permutations(JobIds) \cup Permutations(Procs)
=============================================================================
