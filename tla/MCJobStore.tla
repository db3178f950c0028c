----------------------------- MODULE MCJobStore -----------------------------
(***************************************************************************)
(* TLC instance of RowLocks: the statements of JobStore under arbitrary    *)
(* callers, row by row.  Jobs are interchangeable and so are sessions.     *)
(***************************************************************************)
EXTENDS RowLocks, TLC

Symmetry == Permutations(JobIds) \cup Permutations(Sessions)
=============================================================================
