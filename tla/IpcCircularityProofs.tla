------------------------ MODULE IpcCircularityProofs ------------------------
(***************************************************************************)
(* Proofs about IpcCircularity, for any sets of ports and threads: there   *)
(* is no circle of ports in transit, the assertions of the code hold, and  *)
(* a port is refused only when it would have closed a circle.              *)
(*                                                                         *)
(* The chain a thread has locked is described without induction.  It is a  *)
(* set C of ports locked by the thread, Linked: every port of C but base   *)
(* is in transit to a port of C; and C Leads from the destination to base: *)
(* every part of C that holds the destination and is closed under dest     *)
(* holds base.                                                             *)
(***************************************************************************)
EXTENDS IpcCircularity, TLAPS

Held(t) == {p \in Ports : lock[p] = t}
Linked(C, b) == \A q \in C : q # b => InTransit(q) /\ dest[q] \in C
Leads(C, d, b) ==
  \A S \in SUBSET C :
    d \in S /\ (\A q \in S : q # b => dest[q] \in S) => b \in S

Owning == Labels \ {"idle", "unlock"}

(***************************************************************************)
(* A thread that checks a port holds its receive right, alone.             *)
(***************************************************************************)
Owned ==
  /\ \A t \in Threads : pc[t] \in Owning =>
       /\ port[t] \in Ports /\ to[t] \in Ports /\ base[t] \in Ports
       /\ where[port[t]] = "limbo"
  /\ \A t, u \in Threads : t # u /\ pc[t] \in Owning /\ pc[u] \in Owning
                             => port[t] # port[u]

WalkOK(t) ==
  pc[t] = "walk" =>
    \E C \in SUBSET Held(t) :
      /\ Linked(C \cup {base[t]}, base[t])
      /\ to[t] \in C \cup {base[t]}
      /\ Leads(C \cup {base[t]}, to[t], base[t])

EndOK(t) ==
  pc[t] \in {"last", "circular", "enter"} =>
    /\ ~InTransit(base[t])
    /\ \E C \in SUBSET Held(t) :
         /\ base[t] \in C /\ to[t] \in C
         /\ Linked(C, base[t])
         /\ Leads(C, to[t], base[t])

RestOK(t) ==
  pc[t] \in {"unlock", "undo"} =>
    /\ base[t] \in Held(t) /\ ~InTransit(base[t])
    /\ \E C \in SUBSET Held(t) : cur[t] \in C /\ Linked(C, base[t])

LocksOK(t) ==
  /\ pc[t] \in {"try", "further", "enter"} => lock[port[t]] = t
  /\ pc[t] = "further" => lock[to[t]] = t
  /\ pc[t] \in {"start", "try", "further", "multiple"} =>
       base[t] = to[t] /\ port[t] # to[t]
  /\ pc[t] \in {"last", "enter"} => base[t] # port[t]
  /\ pc[t] \in {"circular", "undo"} => base[t] = port[t]

ChainOK(t) == WalkOK(t) /\ EndOK(t) /\ RestOK(t) /\ LocksOK(t)

IInv == TypeOK /\ Owned /\ NoCircle /\ \A t \in Threads : ChainOK(t)

-----------------------------------------------------------------------------
(***************************************************************************)
(* The walk goes one port further.                                         *)
(***************************************************************************)
LEMMA LeadsFurther ==
  ASSUME NEW C, NEW d, NEW b, NEW e, e = dest[b], Leads(C \cup {b}, d, b)
  PROVE  Leads((C \cup {b}) \cup {e}, d, e)
<1> SUFFICES ASSUME NEW S \in SUBSET ((C \cup {b}) \cup {e}),
                    d \in S, \A q \in S : q # e => dest[q] \in S,
                    e \notin S
             PROVE  FALSE
  BY DEF Leads
<1>1. S \in SUBSET (C \cup {b})
  OBVIOUS
<1>2. \A q \in S : q # b => dest[q] \in S
  OBVIOUS
<1>3. b \in S
  BY <1>1, <1>2 DEF Leads
<1>4. dest[b] \in S
  BY <1>3
<1> QED BY <1>4

(***************************************************************************)
(* When the first port c of a chain is unlocked, the rest is a chain: the  *)
(* ports that every closed part of C with dest[c] holds.  If c were one of *)
(* them, the ports that lead to c would form a circle.                     *)
(***************************************************************************)
LEMMA RestOfChain ==
  ASSUME TypeOK, NoCircle, NEW C \in SUBSET Ports, NEW c \in C,
         NEW b \in Ports, c # b, ~InTransit(b), Linked(C, b)
  PROVE  \E D \in SUBSET (C \ {c}) : dest[c] \in D /\ Linked(D, b)
<1> DEFINE Closed(S) == \A q \in S : q # b => dest[q] \in S
           D == {q \in C : \A S \in SUBSET C :
                             dest[c] \in S /\ Closed(S) => q \in S}
           E == {q \in C : \A S \in SUBSET C : q \in S /\ Closed(S) => c \in S}
<1>1. dest[c] \in D
  BY DEF Linked
<1>2. \A q \in D : q # b => InTransit(q) /\ dest[q] \in D
  <2> SUFFICES ASSUME NEW q \in D, q # b
               PROVE  InTransit(q) /\ dest[q] \in D
    OBVIOUS
  <2>1. q \in C /\ InTransit(q) /\ dest[q] \in C
    BY DEF Linked
  <2>2. ASSUME NEW S \in SUBSET C, dest[c] \in S, Closed(S)
        PROVE  dest[q] \in S
    BY <2>2
  <2> QED BY <2>1, <2>2
<1>3. c \notin D
  <2> SUFFICES ASSUME c \in D PROVE FALSE
    OBVIOUS
  <2>1. c \in E
    OBVIOUS
  <2>2. b \notin E
    <3>1. CASE b \notin C
      BY <3>1
    <3>2. CASE b \in C
      <4>1. {b} \in SUBSET C /\ b \in {b} /\ Closed({b}) /\ c \notin {b}
        BY <3>2
      <4> QED BY <4>1, ZenonT(30)
    <3> QED BY <3>1, <3>2
  <2>3. ASSUME NEW q \in E PROVE InTransit(q) /\ dest[q] \in E
    <3>1. q \in C /\ q # b /\ InTransit(q) /\ dest[q] \in C
      BY <2>2, <2>3 DEF Linked
    <3>2. ASSUME NEW S \in SUBSET C, dest[q] \in S, Closed(S)
          PROVE  c \in S
      <4>1. CASE q = c
        BY <4>1, <3>2
      <4>2. CASE q # c
        <5>1. S \cup {q} \in SUBSET C /\ q \in S \cup {q}
          BY <3>1
        <5>2. Closed(S \cup {q})
          BY <3>2
        <5>3. c \in S \cup {q}
          BY <5>1, <5>2, <2>3, ZenonT(30)
        <5> QED BY <5>3, <4>2
      <4> QED BY <4>1, <4>2
    <3> QED BY <3>1, <3>2
  <2>4. E \in SUBSET Ports /\ E # {}
    BY <2>1
  <2>5. PICK p \in E : ~(InTransit(p) /\ dest[p] \in E)
    BY <2>4, ZenonT(30) DEF NoCircle
  <2> QED BY <2>5, <2>3
<1>4. D \in SUBSET (C \ {c})
  BY <1>3
<1>5. Linked(D, b)
  BY <1>2 DEF Linked
<1> QED BY <1>1, <1>4, <1>5

(***************************************************************************)
(* A chain that leads from d to b ends there in any closed set around it.  *)
(***************************************************************************)
LEMMA EndInside ==
  ASSUME NEW C, NEW d \in C, NEW b, Linked(C, b), Leads(C, d, b),
         NEW S, d \in S, \A q \in S \cap C : q # b => dest[q] \in S
  PROVE  b \in S
<1>1. S \cap C \in SUBSET C /\ d \in S \cap C
  OBVIOUS
<1>2. \A q \in S \cap C : q # b => dest[q] \in S \cap C
  BY DEF Linked
<1> QED BY <1>1, <1>2, ZenonT(30) DEF Leads

-----------------------------------------------------------------------------
(* What the end of a search has to leave behind, with its ports named.     *)
LEMMA EndReached ==
  ASSUME NEW t, NEW b, NEW d, base'[t] = b, to'[t] = d, ~InTransit(b)',
         NEW D \in SUBSET Held(t)', b \in D, d \in D,
         Linked(D, b)', Leads(D, d, b)'
  PROVE  EndOK(t)'
BY DEF EndOK, Linked, Leads, InTransit

(* The same of a search that goes on. *)
LEMMA WalkReached ==
  ASSUME NEW t, NEW b, NEW d, base'[t] = b, to'[t] = d,
         NEW D \in SUBSET Held(t)', NEW X, X = D \cup {b}, d \in X,
         Linked(X, b)', Leads(X, d, b)'
  PROVE  WalkOK(t)'
BY DEF WalkOK, Linked, Leads, InTransit

(* The same of a chain that is being unlocked. *)
LEMMA RestReached ==
  ASSUME NEW t, NEW b, NEW c, base'[t] = b, cur'[t] = c,
         b \in Held(t)', ~InTransit(b)',
         NEW D \in SUBSET Held(t)', c \in D, Linked(D, b)'
  PROVE  RestOK(t)'
BY DEF RestOK, Linked, InTransit

(***************************************************************************)
(* What a thread knows of its chain stays true as long as nobody touches   *)
(* the ports it has locked.                                                *)
(***************************************************************************)
LEMMA Kept ==
  ASSUME TypeOK, Owned, NEW t \in Threads, ChainOK(t),
         pc'[t] = pc[t], port'[t] = port[t], to'[t] = to[t],
         base'[t] = base[t], cur'[t] = cur[t],
         \A p \in Ports : lock[p] = t =>
           lock'[p] = t /\ where'[p] = where[p] /\ dest'[p] = dest[p]
  PROVE  ChainOK(t)'
<1>1. Held(t) \subseteq Held(t)'
  BY DEF Held
<1>2. ASSUME NEW C \in SUBSET Held(t), NEW b, Linked(C \cup {b}, b)
      PROVE  Linked(C \cup {b}, b)'
  BY <1>2 DEF Linked, Held, InTransit
<1>3. ASSUME NEW C \in SUBSET Held(t), NEW b, NEW d, Leads(C \cup {b}, d, b)
      PROVE  Leads(C \cup {b}, d, b)'
  <2> SUFFICES ASSUME NEW S \in SUBSET (C \cup {b}), d \in S,
                      \A q \in S : q # b => dest'[q] \in S
               PROVE  b \in S
    BY DEF Leads
  <2>1. \A q \in S : q # b => dest[q] \in S
    BY DEF Held
  <2> QED BY <2>1, <1>3 DEF Leads
<1> PICK b : b = base[t] /\ b = base'[t]
  OBVIOUS
<1> PICK d : d = to[t] /\ d = to'[t]
  OBVIOUS
<1>4. WalkOK(t)'
  <2> SUFFICES ASSUME pc[t] = "walk" PROVE WalkOK(t)'
    BY SMTT(30), ZenonT(30) DEF WalkOK
  <2>1. PICK C \in SUBSET Held(t) :
          /\ Linked(C \cup {b}, b)
          /\ d \in C \cup {b}
          /\ Leads(C \cup {b}, d, b)
    BY ZenonT(30) DEF ChainOK, WalkOK
  <2>2. Linked(C \cup {b}, b)'
    BY <2>1, <1>2
  <2>3. Leads(C \cup {b}, d, b)'
    BY <2>1, <1>3
  <2> QED BY <2>1, <2>2, <2>3, <1>1 DEF WalkOK, Linked, Leads
<1>5. EndOK(t)'
  <2> SUFFICES ASSUME pc[t] \in {"last", "circular", "enter"}
               PROVE  EndOK(t)'
    BY DEF EndOK
  <2>1. PICK C \in SUBSET Held(t) :
          b \in C /\ d \in C /\ Linked(C, b) /\ Leads(C, d, b)
    BY DEF ChainOK, EndOK
  <2>2. C \cup {b} = C
    BY <2>1
  <2>3. Linked(C, b)'
    BY <2>1, <2>2, <1>2
  <2>4. Leads(C, d, b)'
    BY <2>1, <2>2, <1>3
  <2>5. ~InTransit(b)'
    BY <2>1 DEF ChainOK, EndOK, Held, InTransit
  <2>6. base'[t] = b /\ to'[t] = d /\ C \in SUBSET Held(t)'
    BY <1>1
  <2> QED BY <2>1, <2>3, <2>4, <2>5, <2>6, EndReached
<1>6. RestOK(t)'
  <2> SUFFICES ASSUME pc[t] \in {"unlock", "undo"} PROVE RestOK(t)'
    BY DEF RestOK
  <2>1. base[t] \in Held(t) /\ ~InTransit(base[t])
    BY DEF ChainOK, RestOK
  <2>2. base'[t] \in Held(t)' /\ ~InTransit(base[t])'
    BY <2>1 DEF Held, InTransit
  <2>3. PICK C \in SUBSET Held(t) : cur[t] \in C /\ Linked(C, base[t])
    BY DEF ChainOK, RestOK
  <2>4. Linked(C, base[t])'
    BY <2>3 DEF Linked, Held, InTransit
  <2> QED BY <2>2, <2>3, <2>4, <1>1 DEF RestOK
<1>7. LocksOK(t)'
  BY SMTT(30), ZenonT(30) DEF ChainOK, LocksOK, Owned, Owning, Labels
<1> QED BY <1>4, <1>5, <1>6, <1>7 DEF ChainOK

-----------------------------------------------------------------------------
(***************************************************************************)
(* A step of a thread touches no port that another has locked, and none of *)
(* the other's own variables.                                              *)
(***************************************************************************)
Untouched(t) ==
  /\ \A u \in Threads \ {t} :
       /\ pc'[u] = pc[u] /\ port'[u] = port[u] /\ to'[u] = to[u]
       /\ base'[u] = base[u] /\ cur'[u] = cur[u]
  /\ \A p \in Ports : lock[p] \notin {None, t} =>
       lock'[p] = lock[p] /\ where'[p] = where[p] /\ dest'[p] = dest[p]

LEMMA StepTouches ==
  ASSUME TypeOK, Owned, NEW t \in Threads, ChainOK(t), Step(t)
  PROVE  Untouched(t)
<1> USE DEF Untouched, TypeOK, Goto, graph, locals
<1>1. CASE LockPort(t)
  BY <1>1 DEF LockPort, Acquire
<1>2. CASE TryDest(t)
  BY <1>2 DEF TryDest, Acquire
<1>3. CASE TryFails(t)
  BY <1>3 DEF TryFails, Unlock, ChainOK, LocksOK
<1>4. CASE Further(t)
  BY <1>4 DEF Further, ChainOK, LocksOK
<1>5. CASE MultipleLock(t)
  BY <1>5 DEF MultipleLock
<1>6. CASE Walk(t)
  BY <1>6 DEF Walk, Acquire
<1>7. CASE WalkEnds(t)
  BY <1>7 DEF WalkEnds, Acquire
<1>8. CASE LockLast(t)
  BY <1>8 DEF LockLast, Acquire
<1>9. CASE Enter(t)
  BY <1>9 DEF Enter, ChainOK, LocksOK
<1>10. CASE UnlockChain(t)
  BY <1>10 DEF UnlockChain, Unlock, ChainOK, RestOK, Held
<1>11. CASE Detected(t)
  BY <1>11 DEF Detected
<1>12. CASE UndoChain(t)
  BY <1>12 DEF UndoChain, Unlock, ChainOK, RestOK, Held
<1>13. CASE Refused(t)
  BY <1>13 DEF Refused
<1> QED BY <1>1, <1>2, <1>3, <1>4, <1>5, <1>6, <1>7, <1>8, <1>9, <1>10,
           <1>11, <1>12, <1>13 DEF Step

LEMMA OthersKeep ==
  ASSUME TypeOK, Owned, NEW t \in Threads, Untouched(t), None \notin Threads,
         NEW u \in Threads \ {t}, ChainOK(u)
  PROVE  ChainOK(u)'
<1>1. \A p \in Ports : lock[p] = u =>
        lock'[p] = u /\ where'[p] = where[p] /\ dest'[p] = dest[p]
  BY DEF Untouched
<1>2. /\ pc'[u] = pc[u] /\ port'[u] = port[u] /\ to'[u] = to[u]
      /\ base'[u] = base[u] /\ cur'[u] = cur[u]
  BY DEF Untouched
<1> QED BY <1>1, <1>2, Kept

(***************************************************************************)
(* The types.                                                              *)
(***************************************************************************)
LEMMA TypeKept ==
  ASSUME TypeOK, Owned, \A t \in Threads : ChainOK(t), Next
  PROVE  TypeOK'
<1> USE CircularityAssumption DEF TypeOK, Goto, graph, locals, Labels, InTransit
<1>1. ASSUME NEW t \in Threads, Step(t) PROVE TypeOK'
  <2> USE <1>1
  <2>1. CASE LockPort(t)
    BY <2>1, ZenonT(30) DEF LockPort, Acquire
  <2>2. CASE TryDest(t)
    BY <2>2, ZenonT(30) DEF TryDest, Acquire
  <2>3. CASE TryFails(t)
    BY <2>3, ZenonT(30) DEF TryFails, Unlock
  <2>4. CASE Further(t)
    BY <2>4, ZenonT(30) DEF Further
  <2>5. CASE MultipleLock(t)
    BY <2>5 DEF MultipleLock
  <2>6. CASE Walk(t)
    BY <2>6 DEF Walk, Acquire, Owned, Owning
  <2>7. CASE WalkEnds(t)
    BY <2>7, ZenonT(30) DEF WalkEnds, Acquire
  <2>8. CASE LockLast(t)
    BY <2>8, ZenonT(30) DEF LockLast, Acquire
  <2>9. CASE Enter(t)
    BY <2>9 DEF Enter, Owned, Owning
  <2>10. CASE UnlockChain(t)
    BY <2>10 DEF UnlockChain, Unlock, ChainOK, RestOK, Held
  <2>11. CASE Detected(t)
    BY <2>11 DEF Detected
  <2>12. CASE UndoChain(t)
    BY <2>12 DEF UndoChain, Unlock, ChainOK, RestOK, Held
  <2>13. CASE Refused(t)
    BY <2>13, ZenonT(30) DEF Refused
  <2> QED BY <2>1, <2>2, <2>3, <2>4, <2>5, <2>6, <2>7, <2>8, <2>9, <2>10,
             <2>11, <2>12, <2>13 DEF Step
<1>2. ASSUME NEW t \in Threads, NEW p \in Ports, NEW d \in Ports, Take(t, p, d)
      PROVE  TypeOK'
  BY <1>2 DEF Take
<1>3. ASSUME NEW p \in Ports, Receive(p) \/ Destroy(p) PROVE TypeOK'
  BY <1>3 DEF Receive, Destroy
<1> QED BY <1>1, <1>2, <1>3, SMTT(30), ZenonT(30) DEF Next

(***************************************************************************)
(* The owners of the receive rights in limbo.                              *)
(***************************************************************************)
LEMMA OwnedKept ==
  ASSUME TypeOK, Owned, \A t \in Threads : ChainOK(t), Next
  PROVE  Owned'
<1> USE DEF TypeOK, Owned, Owning, Labels, Goto, graph, locals, InTransit
<1>1. ASSUME NEW t \in Threads, Step(t) PROVE Owned'
  <2> USE <1>1
  <2>1. CASE LockPort(t)
    BY <2>1, SMTT(30), ZenonT(30) DEF LockPort
  <2>2. CASE TryDest(t)
    BY <2>2, SMTT(30), ZenonT(30) DEF TryDest
  <2>3. CASE TryFails(t)
    BY <2>3, SMTT(30), ZenonT(30) DEF TryFails
  <2>4. CASE Further(t)
    BY <2>4, SMTT(30), ZenonT(30) DEF Further
  <2>5. CASE MultipleLock(t)
    BY <2>5, SMTT(30), ZenonT(30) DEF MultipleLock
  <2>6. CASE Walk(t)
    BY <2>6, SMTT(30), ZenonT(30) DEF Walk
  <2>7. CASE WalkEnds(t)
    BY <2>7, SMTT(30), ZenonT(30) DEF WalkEnds
  <2>8. CASE LockLast(t)
    BY <2>8, SMTT(30), ZenonT(30) DEF LockLast
  <2>9. CASE Enter(t)
    BY <2>9, SMTT(30), ZenonT(30) DEF Enter
  <2>10. CASE UnlockChain(t)
    BY <2>10, SMTT(30), ZenonT(30) DEF UnlockChain
  <2>11. CASE Detected(t)
    BY <2>11, SMTT(30), ZenonT(30) DEF Detected
  <2>12. CASE UndoChain(t)
    BY <2>12, SMTT(30), ZenonT(30) DEF UndoChain
  <2>13. CASE Refused(t)
    BY <2>13, SMTT(30), ZenonT(30) DEF Refused
  <2> QED BY <2>1, <2>2, <2>3, <2>4, <2>5, <2>6, <2>7, <2>8, <2>9, <2>10,
             <2>11, <2>12, <2>13, ZenonT(30) DEF Step
<1>2. ASSUME NEW t \in Threads, NEW p \in Ports, NEW d \in Ports, Take(t, p, d)
      PROVE  Owned'
  BY <1>2, SMTT(30), ZenonT(30) DEF Take
<1>3. ASSUME NEW p \in Ports, Receive(p) \/ Destroy(p) PROVE Owned'
  BY <1>3, SMTT(30), ZenonT(30) DEF Receive, Destroy
<1> QED BY <1>1, <1>2, <1>3 DEF Next

-----------------------------------------------------------------------------
(***************************************************************************)
(* A step that puts no port in transit makes no circle.                    *)
(***************************************************************************)
LEMMA FewerEdges ==
  ASSUME NoCircle,
         \A p \in Ports : InTransit(p)' => InTransit(p) /\ dest'[p] = dest[p]
  PROVE  NoCircle'
BY DEF NoCircle

(***************************************************************************)
(* Nor does the one that does: a circle through port would hold the        *)
(* destination, so the whole chain up to base, which is not in transit.    *)
(***************************************************************************)
LEMMA EnterMakesNoCircle ==
  ASSUME TypeOK, Owned, NoCircle, NEW t \in Threads, ChainOK(t), Enter(t)
  PROVE  NoCircle'
<1>1. /\ port[t] \in Ports /\ base[t] # port[t]
      /\ where' = [where EXCEPT ![port[t]] = "transit"]
      /\ dest' = [dest EXCEPT ![port[t]] = to[t]]
  BY SMTT(30), ZenonT(30) DEF Enter, Owned, Owning, Labels, ChainOK, LocksOK
<1>2. ~InTransit(base[t]) /\ base[t] \in Ports
  BY DEF Enter, Owned, Owning, Labels, ChainOK, EndOK
<1>3. PICK C \in SUBSET Held(t) :
        /\ base[t] \in C /\ to[t] \in C
        /\ Linked(C, base[t]) /\ Leads(C, to[t], base[t])
  BY DEF Enter, ChainOK, EndOK
<1>4. \A p \in Ports : p # port[t] => where'[p] = where[p] /\ dest'[p] = dest[p]
  BY <1>1 DEF TypeOK
<1>5. dest'[port[t]] = to[t]
  BY <1>1 DEF TypeOK
<1> SUFFICES ASSUME NEW S \in SUBSET Ports, S # {},
                    \A p \in S : InTransit(p)' /\ dest'[p] \in S
             PROVE  FALSE
  BY DEF NoCircle
<1>6. CASE port[t] \notin S
  <2>1. \A p \in S : InTransit(p) /\ dest[p] \in S
    BY <1>4, <1>6 DEF InTransit
  <2> QED BY <2>1 DEF NoCircle
<1>7. CASE port[t] \in S
  <2>1. to[t] \in S
    BY <1>5, <1>7
  <2>2. base[t] \notin S
    BY <1>1, <1>2, <1>4, SMTT(30), ZenonT(30) DEF InTransit
  <2>3. port[t] \notin C \ {base[t]}
    BY <1>3, SMTT(30), ZenonT(30) DEF Linked, InTransit, Enter, Owned, Owning, Labels
  <2>4. \A q \in S \cap C : q # base[t] => dest[q] \in S
    BY <1>4, <2>3
  <2>5. base[t] \in S
    BY <1>3, <2>1, <2>4, EndInside
  <2> QED BY <2>2, <2>5
<1> QED BY <1>6, <1>7

LEMMA NoCircleKept ==
  ASSUME TypeOK, Owned, NoCircle, \A t \in Threads : ChainOK(t), Next
  PROVE  NoCircle'
<1>1. ASSUME NEW t \in Threads, Step(t), ~Enter(t) PROVE NoCircle'
  <2>1. UNCHANGED graph \/ Refused(t)
    BY <1>1, ZenonT(30) DEF Step, LockPort, TryDest, TryFails, Further, MultipleLock, Walk,
                WalkEnds, LockLast, UnlockChain, Detected, UndoChain, graph
  <2>2. \A p \in Ports : InTransit(p)' => InTransit(p) /\ dest'[p] = dest[p]
    BY <2>1 DEF Refused, graph, InTransit, TypeOK
  <2> QED BY <2>2, FewerEdges, SMTT(30), ZenonT(30)
<1>2. ASSUME NEW t \in Threads, NEW p \in Ports, NEW d \in Ports, Take(t, p, d)
      PROVE  NoCircle'
  <2>1. \A q \in Ports : InTransit(q)' => InTransit(q) /\ dest'[q] = dest[q]
    BY <1>2 DEF Take, InTransit, TypeOK
  <2> QED BY <2>1, FewerEdges
<1>3. ASSUME NEW p \in Ports, Receive(p) \/ Destroy(p) PROVE NoCircle'
  <2>1. \A q \in Ports : InTransit(q)' => InTransit(q) /\ dest'[q] = dest[q]
    BY <1>3, SMTT(30), ZenonT(30) DEF Receive, Destroy, InTransit, TypeOK
  <2> QED BY <2>1, FewerEdges
<1> QED BY <1>1, <1>2, <1>3, EnterMakesNoCircle DEF Next

-----------------------------------------------------------------------------
(***************************************************************************)
(* What the thread that takes the step knows of its chain afterwards.      *)
(***************************************************************************)
LEMMA QuickCheck ==
  ASSUME TypeOK, Owned, NEW t \in Threads, ChainOK(t),
         \/ LockPort(t) \/ TryDest(t) \/ TryFails(t) \/ Further(t)
         \/ MultipleLock(t) \/ Refused(t)
  PROVE  ChainOK(t)'
<1> USE DEF TypeOK, Goto, graph, locals, ChainOK, LocksOK
<1>1. CASE LockPort(t)
  BY <1>1, SMTT(30), ZenonT(30) DEF LockPort, Acquire, Owned, Owning, Labels, WalkOK, EndOK, RestOK
<1>2. CASE TryDest(t)
  <2> USE <1>2
  <2>1. /\ port[t] \in Ports /\ to[t] \in Ports /\ port[t] # to[t]
        /\ base[t] = to[t] /\ lock[port[t]] = t
        /\ lock' = [lock EXCEPT ![to[t]] = t]
        /\ pc' = [pc EXCEPT ![t] = IF InTransit(to[t]) THEN "further"
                                   ELSE "enter"]
        /\ UNCHANGED <<where, dest, port, to, base>>
    BY DEF TryDest, Acquire, Owned, Owning, Labels
  <2>2. LocksOK(t)'
    BY <2>1, SMTT(30), ZenonT(30)
  <2>3. WalkOK(t)' /\ RestOK(t)'
    BY <2>1, ZenonT(30) DEF WalkOK, RestOK
  <2>4. EndOK(t)'
    <3> SUFFICES ASSUME pc'[t] = "enter" PROVE EndOK(t)'
      BY <2>1 DEF EndOK
    <3> PICK d : d = to[t]
      OBVIOUS
    <3>1. ~InTransit(d) /\ {d} \in SUBSET Held(t)'
      BY <2>1, SMTT(30), ZenonT(30) DEF Held
    <3>2. Linked({d}, d)' /\ Leads({d}, d, d)'
      BY DEF Linked, Leads
    <3>3. \E D \in SUBSET Held(t)' :
            d \in D /\ Linked(D, d)' /\ Leads(D, d, d)'
      BY <3>1, <3>2
    <3>4. base'[t] = d /\ to'[t] = d /\ where' = where
      BY <2>1, SMTT(30), ZenonT(30)
    <3> HIDE DEF TypeOK, ChainOK, LocksOK
    <3> QED BY <3>1, <3>3, <3>4 DEF EndOK, Linked, Leads, InTransit
  <2> QED BY <2>2, <2>3, <2>4
<1>3. CASE TryFails(t)
  BY <1>3, ZenonT(30) DEF TryFails, WalkOK, EndOK, RestOK
<1>4. CASE Further(t)
  BY <1>4, SMTT(30), ZenonT(30) DEF Further, WalkOK, EndOK, RestOK
<1>5. CASE MultipleLock(t)
  <2> USE <1>5
  <2>1. base[t] = to[t] /\ pc'[t] = "walk" /\ UNCHANGED <<where, dest, to, base>>
    BY SMTT(30), ZenonT(30) DEF MultipleLock
  <2>2. LocksOK(t)' /\ EndOK(t)' /\ RestOK(t)'
    BY <2>1, ZenonT(30) DEF EndOK, RestOK
  <2>4. WalkOK(t)'
    <3> PICK d : d = to[t]
      OBVIOUS
    <3>1. {} \cup {d} = {d}
      BY SMTT(30), ZenonT(30)
    <3>2. Linked({} \cup {d}, d)' /\ Leads({} \cup {d}, d, d)'
      BY <3>1 DEF Linked, Leads
    <3>3. \E D \in SUBSET Held(t)' :
            d \in D \cup {d} /\ Linked(D \cup {d}, d)' /\ Leads(D \cup {d}, d, d)'
      BY <3>2, ZenonT(30)
    <3>4. base'[t] = d /\ to'[t] = d
      BY <2>1
    <3> HIDE DEF TypeOK, ChainOK, LocksOK
    <3> QED BY <3>3, <3>4 DEF WalkOK, Linked, Leads
  <2> QED BY <2>2, <2>4
<1>6. CASE Refused(t)
  BY <1>6 DEF Refused, WalkOK, EndOK, RestOK
<1> QED BY <1>1, <1>2, <1>3, <1>4, <1>5, <1>6, ZenonT(30)

LEMMA Search ==
  ASSUME TypeOK, Owned, NEW t \in Threads, ChainOK(t), Walk(t) \/ WalkEnds(t)
  PROVE  ChainOK(t)'
<1> PICK b : b = base[t]
  OBVIOUS
<1> PICK d : d = to[t]
  OBVIOUS
<1>1. /\ pc[t] = "walk" /\ b \in Ports /\ lock[b] = None
      /\ lock' = [lock EXCEPT ![b] = t]
      /\ UNCHANGED <<where, dest, port, to>>
  BY DEF Walk, WalkEnds, Acquire, Owned, Owning, Labels, graph, locals
<1>2. PICK C \in SUBSET Held(t) :
        /\ Linked(C \cup {b}, b) /\ d \in C \cup {b}
        /\ Leads(C \cup {b}, d, b)
  BY <1>1, SMTT(30), ZenonT(30) DEF ChainOK, WalkOK
<1>3. C \cup {b} \in SUBSET Held(t)'
  BY <1>1 DEF Held, TypeOK
<1>4. CASE Walk(t)
  <2> PICK e : e = dest[b]
    OBVIOUS
  <2>1. pc'[t] = "walk" /\ base'[t] = e /\ InTransit(b)
    BY <1>1, <1>4, SMTT(30), ZenonT(30) DEF Walk, TypeOK
  <2>2. Leads((C \cup {b}) \cup {e}, d, e)
    BY <1>2, LeadsFurther, SMTT(30), ZenonT(30)
  <2>3. Linked((C \cup {b}) \cup {e}, e)
    BY <1>2, <2>1 DEF Linked
  <2>4. WalkOK(t)'
    <3>1. PICK D : D = C \cup {b}
      BY ZenonT(30)
    <3>2. PICK X : X = D \cup {e}
      BY ZenonT(30)
    <3>3. Linked(X, e)'
      BY <2>3, <1>1, <3>1, <3>2 DEF Linked, InTransit
    <3>4. Leads(X, d, e)'
      BY <2>2, <1>1, <3>1, <3>2 DEF Leads
    <3>5. d \in X /\ D \in SUBSET Held(t)'
      BY <1>2, <1>3, <3>1, <3>2, SMTT(30), ZenonT(30)
    <3>6. base'[t] = e /\ to'[t] = d
      BY <1>1, <2>1, SMTT(30), ZenonT(30)
    <3> QED BY <3>2, <3>3, <3>4, <3>5, <3>6, WalkReached
  <2> QED BY <2>1, <2>4, ZenonT(30) DEF ChainOK, EndOK, RestOK, LocksOK
<1>5. CASE WalkEnds(t)
  <2>1. /\ pc'[t] = IF b = port[t] THEN "circular" ELSE "last"
        /\ base'[t] = b /\ ~InTransit(b)
    BY <1>5, SMTT(30), ZenonT(30) DEF WalkEnds, Goto, locals, TypeOK
  <2>2. LocksOK(t)' /\ WalkOK(t)' /\ RestOK(t)'
    BY <1>1, <2>1, SMTT(30), ZenonT(30) DEF LocksOK, WalkOK, RestOK
  <2>3. EndOK(t)'
    <3>1. Linked(C \cup {b}, b)' /\ Leads(C \cup {b}, d, b)'
      BY <1>1, <1>2, SMTT(30), ZenonT(30) DEF Linked, Leads, InTransit
    <3>2. base'[t] = b /\ to'[t] = d /\ ~InTransit(b)'
      BY <1>1, <2>1 DEF InTransit
    <3>3. b \in C \cup {b} /\ d \in C \cup {b}
      BY <1>2
    <3> QED BY <3>1, <3>2, <3>3, <1>3, EndReached, SMTT(30), ZenonT(30)
  <2> QED BY <2>2, <2>3 DEF ChainOK
<1> QED BY <1>4, <1>5

LEMMA EndOfSearch ==
  ASSUME TypeOK, Owned, NEW t \in Threads, ChainOK(t),
         LockLast(t) \/ Enter(t) \/ Detected(t)
  PROVE  ChainOK(t)'
<1> PICK b : b = base[t]
  OBVIOUS
<1> PICK d : d = to[t]
  BY SMTT(30), ZenonT(30)
<1>1. /\ pc[t] \in {"last", "enter", "circular"}
      /\ port[t] \in Ports /\ b \in Ports /\ ~InTransit(b)
      /\ where[port[t]] = "limbo"
      /\ UNCHANGED <<port, to, base>>
  BY SMTT(30), ZenonT(30) DEF LockLast, Enter, Detected, Owned, Owning, Labels, locals, ChainOK, EndOK
<1>2. PICK C \in SUBSET Held(t) :
        b \in C /\ d \in C /\ Linked(C, b) /\ Leads(C, d, b)
  BY <1>1, SMTT(30), ZenonT(30) DEF ChainOK, EndOK
<1>3. CASE LockLast(t)
  <2>1. /\ pc[t] = "last" /\ pc'[t] = "enter" /\ UNCHANGED <<where, dest>>
        /\ lock[port[t]] = None /\ lock' = [lock EXCEPT ![port[t]] = t]
    BY <1>3 DEF LockLast, Acquire, Goto, graph, TypeOK
  <2>2. C \in SUBSET Held(t)' /\ lock'[port[t]] = t
    BY <2>1, <1>1, SMTT(30), ZenonT(30) DEF Held, TypeOK
  <2>3. LocksOK(t)' /\ WalkOK(t)' /\ RestOK(t)'
    BY <2>1, <2>2, <1>1, ZenonT(30) DEF ChainOK, LocksOK, WalkOK, RestOK
  <2>4. Linked(C, b)' /\ Leads(C, d, b)'
    BY <1>2, <2>1, SMTT(30), ZenonT(30) DEF Linked, Leads, InTransit
  <2>5. EndOK(t)'
    <3>1. base'[t] = b /\ to'[t] = d /\ ~InTransit(b)'
      BY <1>1, <2>1, SMTT(30), ZenonT(30) DEF InTransit
    <3> QED BY <3>1, <1>2, <2>2, <2>4, EndReached, SMTT(30), ZenonT(30)
  <2> QED BY <2>3, <2>5 DEF ChainOK
<1>4. CASE Enter(t)
  <2> PICK p : p = port[t]
    OBVIOUS
  <2>1. /\ pc[t] = "enter" /\ pc'[t] = "unlock" /\ UNCHANGED lock
        /\ cur'[t] = p /\ lock[p] = t /\ b # p
        /\ where' = [where EXCEPT ![p] = "transit"]
        /\ dest' = [dest EXCEPT ![p] = d]
    BY <1>4 DEF Enter, Goto, TypeOK, ChainOK, LocksOK
  <2>2. C \cup {p} \in SUBSET Held(t)' /\ b \in Held(t)' /\ ~InTransit(b)'
    BY <2>1, <1>1, <1>2 DEF Held, TypeOK, InTransit
  <2>3. ASSUME NEW q \in C \cup {p}, q # b
        PROVE  InTransit(q)' /\ dest'[q] \in C \cup {p}
    <3>1. q \in Ports
      BY <1>1 DEF Held
    <3>2. CASE q = p
      BY <3>1, <3>2, <2>1, <1>2 DEF TypeOK, InTransit
    <3>3. CASE q # p
      BY <3>1, <3>3, <2>1, <2>3, <1>2 DEF TypeOK, InTransit, Linked
    <3> QED BY <3>2, <3>3
  <2>4. PICK D \in SUBSET Held(t)' : p \in D /\ Linked(D, b)'
    <3>1. Linked(C \cup {p}, b)'
      BY <2>3, SMTT(30), ZenonT(30) DEF Linked
    <3> QED BY <2>2, <3>1
  <2>5. base'[t] = b
    BY <1>1, ZenonT(30)
  <2>6. RestOK(t)'
    BY <2>1, <2>2, <2>4, <2>5, RestReached, SMTT(30), ZenonT(30)
  <2> QED BY <2>1, <2>6, ZenonT(30) DEF ChainOK, LocksOK, WalkOK, EndOK
<1>5. CASE Detected(t)
  <2>1. /\ pc[t] = "circular" /\ pc'[t] = "undo" /\ cur'[t] = d
        /\ UNCHANGED <<where, dest, lock>>
    BY <1>5 DEF Detected, Goto, graph, TypeOK
  <2>2. /\ b \in Held(t)' /\ ~InTransit(b)'
        /\ C \in SUBSET Held(t)' /\ Linked(C, b)' /\ base'[t] = b
    BY <2>1, <1>1, <1>2, SMTT(30), ZenonT(30) DEF Held, InTransit, Linked
  <2>3. RestOK(t)'
    BY <2>1, <2>2, <1>2, RestReached, SMTT(30), ZenonT(30)
  <2>4. LocksOK(t)'
    BY <2>1, <1>1, ZenonT(30) DEF ChainOK, LocksOK
  <2> QED BY <2>1, <2>3, <2>4, ZenonT(30) DEF ChainOK, WalkOK, EndOK
<1> QED BY <1>3, <1>4, <1>5

LEMMA UnlockOne ==
  ASSUME TypeOK, NoCircle, NEW t \in Threads, ChainOK(t),
         UnlockChain(t) \/ UndoChain(t)
  PROVE  ChainOK(t)'
<1> PICK b : b = base[t]
  OBVIOUS
<1> PICK c : c = cur[t]
  OBVIOUS
<1>1. /\ pc[t] \in {"unlock", "undo"} /\ b \in Held(t) /\ ~InTransit(b)
      /\ UNCHANGED <<where, dest, port, to, base>>
      /\ lock' = [lock EXCEPT ![c] = None]
      /\ cur'[t] = dest[c]
  BY SMTT(30), ZenonT(30) DEF UnlockChain, UndoChain, Unlock, graph, ChainOK, RestOK, TypeOK
<1>2. PICK C \in SUBSET Held(t) : c \in C /\ Linked(C, b)
  BY <1>1, ZenonT(30) DEF ChainOK, RestOK
<1>3. pc'[t] \in {"idle", "refused"} \/ (c # b /\ pc'[t] = pc[t])
  BY <1>1, SMTT(30), ZenonT(30) DEF UnlockChain, UndoChain, Goto, TypeOK
<1>4. CASE pc'[t] \in {"idle", "refused"}
  BY <1>4, ZenonT(30) DEF ChainOK, WalkOK, EndOK, RestOK, LocksOK
<1>5. CASE c # b /\ pc'[t] = pc[t]
  <2>1. C \in SUBSET Ports /\ b \in Ports
    BY <1>1, ZenonT(30) DEF Held
  <2>2. PICK D \in SUBSET (C \ {c}) : dest[c] \in D /\ Linked(D, b)
    BY <2>1, <1>1, <1>2, <1>5, RestOfChain, ZenonT(30)
  <2>3. D \in SUBSET Held(t)' /\ b \in Held(t)'
    BY <1>1, <1>5, SMTT(30), ZenonT(30) DEF Held, TypeOK
  <2>4. ~InTransit(b)' /\ Linked(D, b)'
    BY <2>2, <1>1, SMTT(30), ZenonT(30) DEF InTransit, Linked
  <2>5. RestOK(t)'
    <3>1. base'[t] = b /\ cur'[t] = dest[c]
      BY <1>1, SMTT(30), ZenonT(30)
    <3> QED BY <2>2, <2>3, <2>4, <3>1, RestReached
  <2>6. LocksOK(t)'
    BY <1>1, <1>5 DEF ChainOK, LocksOK
  <2> QED BY <1>1, <1>5, <2>5, <2>6, ZenonT(30) DEF ChainOK, WalkOK, EndOK
<1> QED BY <1>3, <1>4, <1>5

-----------------------------------------------------------------------------
(***************************************************************************)
(* What every thread knows of its chain is kept by every step.             *)
(***************************************************************************)
LEMMA ChainKept ==
  ASSUME IInv, Next
  PROVE  \A u \in Threads : ChainOK(u)'
<1> USE CircularityAssumption
<1>0. TypeOK /\ Owned /\ NoCircle /\ \A u \in Threads : ChainOK(u)
  BY DEF IInv
<1>1. ASSUME NEW t \in Threads, Step(t), NEW u \in Threads PROVE ChainOK(u)'
  <2>1. CASE u = t
    BY <1>0, <1>1, <2>1, QuickCheck, Search, EndOfSearch, UnlockOne DEF Step
  <2>2. CASE u # t
    <3>1. Untouched(t)
      BY <1>0, <1>1, StepTouches
    <3> QED BY <1>0, <1>1, <2>2, <3>1, OthersKeep
  <2> QED BY <2>1, <2>2
<1>2. ASSUME NEW t \in Threads, NEW p \in Ports, NEW d \in Ports, Take(t, p, d),
             NEW u \in Threads
      PROVE  ChainOK(u)'
  <2>1. CASE u = t
    BY <1>0, <1>2, <2>1
       DEF Take, Goto, TypeOK, ChainOK, WalkOK, EndOK, RestOK, LocksOK
  <2>2. CASE u # t
    <3>1. Untouched(t)
      BY <1>0, <1>2, SMTT(30), ZenonT(30) DEF Take, Goto, TypeOK, Untouched
    <3> QED BY <1>0, <2>2, <3>1, OthersKeep
  <2> QED BY <2>1, <2>2, SMTT(30), ZenonT(30)
<1>3. ASSUME NEW p \in Ports, Receive(p) \/ Destroy(p), NEW u \in Threads
      PROVE  ChainOK(u)'
  <2>1. \A q \in Ports : lock[q] = u =>
          lock'[q] = u /\ where'[q] = where[q] /\ dest'[q] = dest[q]
    BY <1>0, <1>3, SMTT(30), ZenonT(30) DEF Receive, Destroy, TypeOK
  <2>2. UNCHANGED <<pc, port, to, base, cur>>
    BY <1>3 DEF Receive, Destroy, locals
  <2> QED BY <1>0, <2>1, <2>2, Kept, ZenonT(30)
<1> QED BY <1>1, <1>2, <1>3 DEF Next

(***************************************************************************)
(* IInv is an inductive invariant.                                         *)
(***************************************************************************)
LEMMA Initially == Init => IInv
<1> SUFFICES ASSUME Init PROVE IInv
  OBVIOUS
<1> USE CircularityAssumption
<1>1. TypeOK
  BY DEF Init, TypeOK, Labels, InTransit
<1>2. Owned
  BY DEF Init, Owned, Owning
<1>3. NoCircle
  BY DEF Init, NoCircle, InTransit
<1>4. \A t \in Threads : ChainOK(t)
  BY DEF Init, ChainOK, WalkOK, EndOK, RestOK, LocksOK
<1> QED BY <1>1, <1>2, <1>3, <1>4 DEF IInv

LEMMA Inductive == IInv /\ [Next]_vars => IInv'
<1> SUFFICES ASSUME IInv, [Next]_vars PROVE IInv'
  OBVIOUS
<1>1. CASE Next
  BY <1>1, TypeKept, OwnedKept, NoCircleKept, ChainKept DEF IInv
<1>2. CASE UNCHANGED vars
  <2>0. Owned'
    BY <1>2, ZenonT(30) DEF vars, IInv, Owned
  <2>1. TypeOK'
    BY <1>2 DEF vars, IInv, TypeOK, InTransit
  <2>2. NoCircle'
    BY <1>2 DEF vars, IInv, NoCircle, InTransit
  <2>3. ASSUME NEW t \in Threads PROVE ChainOK(t)'
    <3>1. ChainOK(t)
      BY DEF IInv
    <3>2. WalkOK(t)'
      BY <1>2, <3>1, SMTT(30), ZenonT(30) DEF vars, ChainOK, WalkOK, Held, Linked, Leads, InTransit
    <3>3. EndOK(t)'
      BY <1>2, <3>1, ZenonT(30) DEF vars, ChainOK, EndOK, Held, Linked, Leads, InTransit
    <3>4. RestOK(t)'
      BY <1>2, <3>1, SMTT(30), ZenonT(30) DEF vars, ChainOK, RestOK, Held, Linked, InTransit
    <3>5. LocksOK(t)'
      BY <1>2, <3>1 DEF vars, ChainOK, LocksOK
    <3> QED BY <3>2, <3>3, <3>4, <3>5 DEF ChainOK
  <2> QED BY <2>0, <2>1, <2>2, <2>3, SMTT(30), ZenonT(30) DEF IInv
<1> QED BY <1>1, <1>2

(***************************************************************************)
(* Every variable keeps its type; in particular a port in transit always   *)
(* has a destination.                                                      *)
(***************************************************************************)
THEOREM TypeCorrect == Spec => []TypeOK
<1>1. IInv => TypeOK
  BY DEF IInv
<1> QED BY <1>1, Initially, Inductive, PTL DEF Spec

(***************************************************************************)
(* ipc_port_check_circularity does what it is for: whatever others send,   *)
(* receive and destroy meanwhile, no circle of ports in transit comes to   *)
(* be.                                                                     *)
(***************************************************************************)
THEOREM NeverACircle == Spec => []NoCircle
<1>1. IInv => NoCircle
  BY SMTT(30), ZenonT(30) DEF IInv
<1> QED BY <1>1, Initially, Inductive, PTL DEF Spec

(***************************************************************************)
(* The assertions of ipc_port_check_circularity never fail: a port it puts *)
(* in transit is in limbo, and the chain it unlocks is locked by this      *)
(* thread and in transit up to base.                                       *)
(***************************************************************************)
THEOREM AssertionsHold == Spec => []Asserts
<1>1. IInv => Asserts
  <2> SUFFICES ASSUME IInv, NEW t \in Threads
               PROVE  /\ pc[t] \in {"enter", "circular"} => where[port[t]] = "limbo"
                      /\ pc[t] = "unlock" =>
                           /\ lock[cur[t]] = t
                           /\ InTransit(cur[t]) <=> cur[t] # base[t]
                      /\ pc[t] = "undo" =>
                           /\ lock[cur[t]] = t
                           /\ where[cur[t]] = IF cur[t] = base[t] THEN "limbo"
                                              ELSE "transit"
    BY SMTT(30), ZenonT(30) DEF Asserts
  <2>1. pc[t] \in Owning => where[port[t]] = "limbo"
    BY DEF IInv, Owned
  <2>2. ChainOK(t)
    BY DEF IInv
  <2>3. pc[t] \in {"unlock", "undo"} =>
          /\ lock[cur[t]] = t
          /\ InTransit(cur[t]) <=> cur[t] # base[t]
    BY <2>2 DEF ChainOK, RestOK, Held, Linked
  <2> QED BY <2>1, <2>2, <2>3, SMTT(30), ZenonT(30) DEF Owning, Labels, ChainOK, LocksOK, InTransit
<1> QED BY <1>1, Initially, Inductive, PTL DEF Spec

(***************************************************************************)
(* A port is refused only if its message would have closed a circle: the   *)
(* walk ends at port itself only if every port on the way from dest is in  *)
(* transit to the next.                                                    *)
(***************************************************************************)
THEOREM RefusalJustified == Spec => RefusedIfCircular
<1>1. ASSUME IInv, Next, NEW t \in Threads, pc[t] = "walk", pc'[t] = "circular"
      PROVE  WouldCircle(port[t], to[t])
  <2>1. base[t] = port[t]
    <3>1. ASSUME NEW u \in Threads, Step(u) PROVE u = t
      <4>1. Untouched(u)
        BY <1>1, <3>1, StepTouches DEF IInv
      <4> QED BY <4>1, <1>1 DEF Untouched
    <3>2. ASSUME NEW u \in Threads, NEW p \in Ports, NEW d \in Ports,
                 Take(u, p, d)
          PROVE  FALSE
      BY <1>1, <3>2 DEF Take, Goto, IInv, TypeOK
    <3>3. ASSUME NEW p \in Ports, Receive(p) \/ Destroy(p) PROVE FALSE
      BY <1>1, <3>3, SMTT(30), ZenonT(30) DEF Receive, Destroy
    <3>4. Step(t)
      BY <1>1, <3>1, <3>2, <3>3, SMTT(30), ZenonT(30) DEF Next
    <3>5. WalkEnds(t)
      BY <3>4, <1>1, ZenonT(30)
         DEF Step, LockPort, TryDest, TryFails, Further, MultipleLock, Walk,
             LockLast, Enter, UnlockChain, Detected, UndoChain, Refused
    <3> QED BY <3>5, <1>1 DEF WalkEnds, Goto, IInv, TypeOK
  <2>2. PICK C \in SUBSET Held(t) :
          /\ Linked(C \cup {base[t]}, base[t])
          /\ to[t] \in C \cup {base[t]}
          /\ Leads(C \cup {base[t]}, to[t], base[t])
    BY <1>1, ZenonT(30) DEF IInv, ChainOK, WalkOK
  <2> SUFFICES ASSUME NEW S \in SUBSET Ports, to[t] \in S,
                      \A q \in S : InTransit(q) => dest[q] \in S
               PROVE  port[t] \in S
    BY ZenonT(30) DEF WouldCircle
  <2>3. PICK D, b, d : D = C \cup {base[t]} /\ b = base[t] /\ d = to[t]
    BY ZenonT(30)
  <2>4. d \in D /\ Linked(D, b) /\ Leads(D, d, b) /\ d \in S
    BY <2>2, <2>3
  <2>5. \A q \in S \cap D : q # b => dest[q] \in S
    BY <2>4 DEF Linked
  <2>6. b \in S
    BY <2>4, <2>5, EndInside
  <2> QED BY <2>1, <2>3, <2>6
<1>2. IInv /\ [Next]_vars =>
        [\A t \in Threads : pc[t] = "walk" /\ pc'[t] = "circular"
           => WouldCircle(port[t], to[t])]_vars
  BY <1>1
<1> QED BY <1>2, Initially, Inductive, PTL DEF Spec, RefusedIfCircular
=============================================================================
