---------------------------- MODULE MCIpcMqueue -----------------------------
(* Model-checking instance of IpcMqueue. *)
EXTENDS IpcMqueue, TLC

(* The routines treat the threads of each kind, the ports and sets alike. *)
Symmetry == Permutations(Senders) \cup Permutations(Receivers)
              \cup Permutations(Psets) \cup Permutations(Ports)

========================================
