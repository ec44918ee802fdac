------------------------------ MODULE MCFdTable ------------------------------
(* FdTable with interchangeable threads. *)
EXTENDS FdTable, TLC

Symmetry == Permutations(Threads)
=============================================================================
