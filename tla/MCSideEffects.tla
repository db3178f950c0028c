--------------------------- MODULE MCSideEffects ----------------------------
(***************************************************************************)
(* TLC instance of SideEffects.  Jobs are interchangeable, and so are      *)
(* processes and the names of their workers.                               *)
(***************************************************************************)
EXTENDS SideEffects, TLC

Symmetry ==
    Permutations(JobIds) \cup Permutations(Procs) \cup Permutations(WorkerNames)
=============================================================================
