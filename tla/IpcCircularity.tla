--------------------------- MODULE IpcCircularity ---------------------------
(***************************************************************************)
(* ipc_port_check_circularity (ipc/ipc_port.c), lock by lock.  A thread    *)
(* that sends the receive right of a port in a message to the port dest    *)
(* makes sure that no circle of ports in transit comes to be, while others *)
(* send, receive and destroy other ports.                                  *)
(*                                                                         *)
(* A step takes at most one lock and does what the thread then does up to  *)
(* the next.                                                               *)
(***************************************************************************)
EXTENDS Naturals

CONSTANTS
  Ports, Threads,
  None,         \* a lock nobody holds, a thread without a port
  MaxSends      \* bound on the number of receive rights sent

ASSUME CircularityAssumption ==
  /\ None \notin Ports \cup Threads
  /\ MaxSends \in Nat

VARIABLES
  where,     \* of each port: its receive right is in a space, "limbo" (in
             \* the hands of a thread), "transit" (in a message), or "dead"
  dest,      \* ip_destination of a port in transit
  lock,      \* the thread that holds the lock of each port
  multiple,  \* the thread that holds ipc_port_multiple_lock
  pc,        \* where each thread is
  port,      \* its port, whose receive right it holds,
  to,        \* the destination,
  base,      \* how far it has come along the chain of ports in transit
  cur,       \* the next port to unlock
  sends      \* the number of receive rights sent so far

vars == <<where, dest, lock, multiple, pc, port, to, base, cur, sends>>
graph == <<where, dest>>
locals == <<port, to, base, cur>>

Goto(t, l) == pc' = [pc EXCEPT ![t] = l]
Acquire(t, p) == lock[p] = None /\ lock' = [lock EXCEPT ![p] = t]
Unlock(p) == lock' = [lock EXCEPT ![p] = None]
InTransit(p) == where[p] = "transit"

-----------------------------------------------------------------------------
(***************************************************************************)
(* The caller: the receive right of p is copied in (the port is locked for *)
(* that), and the message it is in is for d.                               *)
(***************************************************************************)
Take(t, p, d) ==
  /\ pc[t] = "idle" /\ sends < MaxSends
  /\ where[p] = "space" /\ lock[p] = None
  /\ where' = [where EXCEPT ![p] = "limbo"]
  /\ port' = [port EXCEPT ![t] = p]
  /\ to' = [to EXCEPT ![t] = d]
  /\ base' = [base EXCEPT ![t] = d]
  /\ sends' = sends + 1
  /\ Goto(t, IF p = d THEN "refused" ELSE "start")
  /\ UNCHANGED <<dest, lock, multiple, cur>>

(***************************************************************************)
(* The quick check: no circle if dest is not in transit.                   *)
(***************************************************************************)
LockPort(t) ==
  /\ pc[t] = "start"
  /\ Acquire(t, port[t])
  /\ Goto(t, "try")
  /\ UNCHANGED <<graph, multiple, locals, sends>>

(* As TryDest, but any destination will do. *)
MutTryDest(t) ==
  /\ pc[t] = "try"
  /\ lock[to[t]] = None
  /\ Acquire(t, to[t])
  /\ Goto(t, "enter")
  /\ UNCHANGED <<graph, multiple, locals, sends>>

TryDest(t) ==
  /\ pc[t] = "try"
  /\ lock[to[t]] = None
  /\ Acquire(t, to[t])
  /\ Goto(t, IF InTransit(to[t]) THEN "further" ELSE "enter")
  /\ UNCHANGED <<graph, multiple, locals, sends>>

(* The lock of dest is waited for. *)
MutTryWaits(t) == FALSE

TryFails(t) ==
  /\ pc[t] = "try"
  /\ lock[to[t]] # None
  /\ Unlock(port[t])
  /\ Goto(t, "multiple")
  /\ UNCHANGED <<graph, multiple, locals, sends>>

Further(t) ==        \* dest is in transit
  /\ pc[t] = "further"
  /\ lock' = [lock EXCEPT ![to[t]] = None, ![port[t]] = None]
  /\ Goto(t, "multiple")
  /\ UNCHANGED <<graph, multiple, locals, sends>>

(***************************************************************************)
(* The search for the end of the chain, with locks along the way.          *)
(***************************************************************************)
MultipleLock(t) ==
  /\ pc[t] = "multiple"
  /\ multiple = None /\ multiple' = t
  /\ Goto(t, "walk")
  /\ UNCHANGED <<graph, lock, locals, sends>>

(* As Walk, without the locks. *)
MutWalk(t) ==
  /\ pc[t] = "walk" /\ lock[base[t]] = None
  /\ InTransit(base[t])
  /\ base' = [base EXCEPT ![t] = dest[base[t]]]
  /\ UNCHANGED <<graph, lock, multiple, pc, port, to, cur, sends>>

Walk(t) ==
  /\ pc[t] = "walk" /\ lock[base[t]] = None
  /\ InTransit(base[t])
  /\ Acquire(t, base[t])
  /\ base' = [base EXCEPT ![t] = dest[base[t]]]
  /\ UNCHANGED <<graph, multiple, pc, port, to, cur, sends>>

(* As WalkEnds, but a destination that is not in transit is refused too. *)
MutWalkEnds(t) ==
  /\ pc[t] = "walk" /\ lock[base[t]] = None
  /\ ~InTransit(base[t])
  /\ Acquire(t, base[t])
  /\ Goto(t, IF base[t] \in {port[t], to[t]} THEN "circular" ELSE "last")
  /\ UNCHANGED <<graph, multiple, locals, sends>>

WalkEnds(t) ==
  /\ pc[t] = "walk" /\ lock[base[t]] = None
  /\ ~InTransit(base[t])
  /\ Acquire(t, base[t])
  /\ Goto(t, IF base[t] = port[t] THEN "circular" ELSE "last")
  /\ UNCHANGED <<graph, multiple, locals, sends>>

LockLast(t) ==       \* port, while the entire chain is locked
  /\ pc[t] = "last"
  /\ Acquire(t, port[t])
  /\ multiple' = None
  /\ Goto(t, "enter")
  /\ UNCHANGED <<graph, locals, sends>>

Enter(t) ==          \* not_circular
  /\ pc[t] = "enter"
  /\ where' = [where EXCEPT ![port[t]] = "transit"]
  /\ dest' = [dest EXCEPT ![port[t]] = to[t]]
  /\ cur' = [cur EXCEPT ![t] = port[t]]
  /\ Goto(t, "unlock")
  /\ UNCHANGED <<lock, multiple, port, to, base, sends>>

UnlockChain(t) ==    \* from port to base
  /\ pc[t] = "unlock"
  /\ Unlock(cur[t])
  /\ cur' = [cur EXCEPT ![t] = dest[cur[t]]]
  /\ Goto(t, IF cur[t] = base[t] THEN "idle" ELSE "unlock")
  /\ UNCHANGED <<graph, multiple, port, to, base, sends>>

(***************************************************************************)
(* circularity detected: the chain is unlocked, from dest to port.         *)
(***************************************************************************)
Detected(t) ==
  /\ pc[t] = "circular"
  /\ multiple' = None
  /\ cur' = [cur EXCEPT ![t] = to[t]]
  /\ Goto(t, "undo")
  /\ UNCHANGED <<graph, lock, port, to, base, sends>>

UndoChain(t) ==
  /\ pc[t] = "undo"
  /\ Unlock(cur[t])
  /\ cur' = [cur EXCEPT ![t] = dest[cur[t]]]
  /\ Goto(t, IF InTransit(cur[t]) THEN "undo" ELSE "refused")
  /\ UNCHANGED <<graph, multiple, port, to, base, sends>>

(***************************************************************************)
(* The caller destroys a message with a circle, and the port with it.      *)
(***************************************************************************)
Refused(t) ==
  /\ pc[t] = "refused"
  /\ lock[port[t]] = None
  /\ where' = [where EXCEPT ![port[t]] = "dead"]
  /\ Goto(t, "idle")
  /\ UNCHANGED <<dest, lock, multiple, locals, sends>>

(***************************************************************************)
(* Others: a message is received, or destroyed; a port dies in its space.  *)
(***************************************************************************)
Receive(p) ==
  /\ InTransit(p) /\ lock[p] = None
  /\ where' = [where EXCEPT ![p] = "space"]
  /\ UNCHANGED <<dest, lock, multiple, pc, locals, sends>>

Destroy(p) ==
  /\ where[p] \in {"space", "transit"} /\ lock[p] = None
  /\ where' = [where EXCEPT ![p] = "dead"]
  /\ UNCHANGED <<dest, lock, multiple, pc, locals, sends>>

-----------------------------------------------------------------------------
Init ==
  /\ where = [p \in Ports |-> "space"]
  /\ dest = [p \in Ports |-> None]
  /\ lock = [p \in Ports |-> None]
  /\ multiple = None
  /\ pc = [t \in Threads |-> "idle"]
  /\ port = [t \in Threads |-> None]
  /\ to = [t \in Threads |-> None]
  /\ base = [t \in Threads |-> None]
  /\ cur = [t \in Threads |-> None]
  /\ sends = 0

Step(t) ==
  \/ LockPort(t) \/ TryDest(t) \/ TryFails(t) \/ Further(t)
  \/ MultipleLock(t) \/ Walk(t) \/ WalkEnds(t) \/ LockLast(t)
  \/ Enter(t) \/ UnlockChain(t)
  \/ Detected(t) \/ UndoChain(t) \/ Refused(t)

Next ==
  \/ \E t \in Threads : Step(t)
  \/ \E t \in Threads, p, d \in Ports : Take(t, p, d)
  \/ \E p \in Ports : Receive(p) \/ Destroy(p)

Spec == Init /\ [][Next]_vars
FairSpec == Spec /\ \A t \in Threads : WF_vars(Step(t))

-----------------------------------------------------------------------------
Labels == {"idle", "start", "try", "further", "multiple", "walk", "last",
           "enter", "unlock", "circular", "undo", "refused"}
TypeOK ==
  /\ where \in [Ports -> {"space", "limbo", "transit", "dead"}]
  /\ dest \in [Ports -> Ports \cup {None}]
  /\ \A p \in Ports : InTransit(p) => dest[p] \in Ports
  /\ lock \in [Ports -> Threads \cup {None}]
  /\ multiple \in Threads \cup {None}
  /\ pc \in [Threads -> Labels]
  /\ port \in [Threads -> Ports \cup {None}]
  /\ to \in [Threads -> Ports \cup {None}]
  /\ base \in [Threads -> Ports \cup {None}]
  /\ cur \in [Threads -> Ports \cup {None}]
  /\ sends \in 0..MaxSends

(***************************************************************************)
(* There is no circle of ports in transit: no set of them in which each    *)
(* port is on its way to another of the set.                               *)
(***************************************************************************)
NoCircle ==
  \A S \in SUBSET Ports :
    S # {} => \E p \in S : ~(InTransit(p) /\ dest[p] \in S)

(***************************************************************************)
(* What the code asserts when it puts the port in transit and unlocks the  *)
(* chain: the port is in limbo; the chain is in transit, and locked, up to *)
(* base; base is not in transit.                                           *)
(***************************************************************************)
Asserts ==
  \A t \in Threads :
    /\ pc[t] \in {"enter", "circular"} => where[port[t]] = "limbo"
    /\ pc[t] = "unlock" =>
         /\ lock[cur[t]] = t
         /\ InTransit(cur[t]) <=> cur[t] # base[t]
    /\ pc[t] = "undo" =>
         /\ lock[cur[t]] = t
         /\ where[cur[t]] = IF cur[t] = base[t] THEN "limbo" ELSE "transit"

(***************************************************************************)
(* A port is refused only if its message would have closed a circle: every *)
(* set that holds the destination, and with a port in transit the port it  *)
(* is on its way to, holds the port itself.                                *)
(***************************************************************************)
WouldCircle(p, d) ==
  \A S \in SUBSET Ports :
    d \in S /\ (\A q \in S : InTransit(q) => dest[q] \in S) => p \in S
RefusedIfCircular ==
  [][\A t \in Threads : pc[t] = "walk" /\ pc'[t] = "circular"
       => WouldCircle(port[t], to[t])]_vars

(***************************************************************************)
(* Every check comes to an end, and no two wait for one another's locks.   *)
(***************************************************************************)
CheckReturns == \A t \in Threads : (pc[t] # "idle" ~> pc[t] = "idle")
=============================================================================
