-------------------------- MODULE MCIpcCircularity --------------------------
(***************************************************************************)
(* Instances of IpcCircularity for TLC.                                    *)
(***************************************************************************)
EXTENDS IpcCircularity, TLC

Symmetry == Permutations(Ports) \cup Permutations(Threads)
=============================================================================
