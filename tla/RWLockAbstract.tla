--------------------------- MODULE RWLockAbstract ---------------------------
(***************************************************************************)
(* What the complex lock promises its users: who may hold it when.         *)
(*                                                                         *)
(* A thread that upgrades lets go of its read hold and is given the write  *)
(* hold later; in between nobody else is admitted, so what it learnt as a  *)
(* reader is still true when it becomes the writer.                        *)
(***************************************************************************)
EXTENDS Integers

CONSTANT Threads

VARIABLES
  nread, nwrite,  \* the holds of each thread
  upgrading       \* threads between their read hold and their write hold

absVars == <<nread, nwrite, upgrading>>

Init ==
  /\ nread = [t \in Threads |-> 0]
  /\ nwrite = [t \in Threads |-> 0]
  /\ upgrading = {}

Others(t) == Threads \ {t}

NoOtherWriter(t) == \A u \in Others(t) : nwrite[u] = 0
NoOtherHolder(t) == \A u \in Others(t) : nread[u] = 0 /\ nwrite[u] = 0

(* A reader that holds nothing yet waits for a pending upgrade. *)
Read(t) ==
  /\ NoOtherWriter(t)
  /\ upgrading = {} \/ nread[t] > 0
  /\ nread' = [nread EXCEPT ![t] = @ + 1]
  /\ UNCHANGED <<nwrite, upgrading>>

Write(t) ==
  /\ NoOtherHolder(t)
  /\ upgrading = {}
  /\ nwrite' = [nwrite EXCEPT ![t] = @ + 1]
  /\ UNCHANGED <<nread, upgrading>>

ReleaseRead(t) ==
  /\ nread[t] > 0
  /\ nread' = [nread EXCEPT ![t] = @ - 1]
  /\ UNCHANGED <<nwrite, upgrading>>

ReleaseWrite(t) ==
  /\ nwrite[t] > 0
  /\ nwrite' = [nwrite EXCEPT ![t] = @ - 1]
  /\ UNCHANGED <<nread, upgrading>>

(* At once, when nobody else holds the lock. *)
Upgrade(t) ==
  /\ nread[t] > 0
  /\ NoOtherHolder(t)
  /\ upgrading = {}
  /\ nread' = [nread EXCEPT ![t] = @ - 1]
  /\ nwrite' = [nwrite EXCEPT ![t] = @ + 1]
  /\ UNCHANGED upgrading

BeginUpgrade(t) ==
  /\ nread[t] > 0
  /\ NoOtherWriter(t)
  /\ upgrading = {}
  /\ nread' = [nread EXCEPT ![t] = @ - 1]
  /\ upgrading' = {t}
  /\ UNCHANGED nwrite

EndUpgrade(t) ==
  /\ upgrading = {t}
  /\ NoOtherHolder(t)
  /\ nwrite' = [nwrite EXCEPT ![t] = @ + 1]
  /\ upgrading' = {}
  /\ UNCHANGED nread

Downgrade(t) ==
  /\ nwrite[t] > 0
  /\ nwrite' = [nwrite EXCEPT ![t] = @ - 1]
  /\ nread' = [nread EXCEPT ![t] = @ + 1]
  /\ UNCHANGED upgrading

Next ==
  \E t \in Threads :
    \/ Read(t) \/ Write(t) \/ ReleaseRead(t) \/ ReleaseWrite(t)
    \/ Upgrade(t) \/ BeginUpgrade(t) \/ EndUpgrade(t) \/ Downgrade(t)

Spec == Init /\ [][Next]_absVars

=============================================================================
