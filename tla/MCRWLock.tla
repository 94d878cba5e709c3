------------------------------ MODULE MCRWLock ------------------------------
(* Model-checking instance of RWLock. *)
EXTENDS RWLock, TLC

(* The routines treat all threads alike. *)
Symmetry == Permutations(Threads)

=============================================================================
