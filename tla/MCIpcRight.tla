----------------------------- MODULE MCIpcRight -----------------------------
(***************************************************************************)
(* Instances of IpcRight for TLC.                                          *)
(***************************************************************************)
EXTENDS IpcRight

CONSTANTS a, b, p1, p2, t1, t2

(***************************************************************************)
(* What the spaces hold at the start.                                      *)
(***************************************************************************)
Receives(p, s, n) == [port |-> p, space |-> s, name |-> n,
                      type |-> {"receive"}, urefs |-> 0]
Sends(p, s, n) == [port |-> p, space |-> s, name |-> n,
                   type |-> {"send"}, urefs |-> 1]
Both(p, s, n) == [port |-> p, space |-> s, name |-> n,
                  type |-> {"send", "receive"}, urefs |-> 1]

TwoPorts == {Both(p1, a, 1), Receives(p2, a, 2)}
Crossed == {Receives(p1, a, 1), Sends(p2, a, 2),
            Receives(p2, b, 1), Sends(p1, b, 2)}

Symmetry == Permutations(Threads)
=============================================================================
