----------------------------- MODULE MCVmFault ------------------------------
(* Model-checking instances of VmFault. *)
EXTENDS VmFault, TLC

(* The threads are alike. *)
Symmetry == Permutations(Threads)
=============================================================================
