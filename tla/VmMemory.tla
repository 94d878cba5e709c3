----------------------------- MODULE VmMemory -------------------------------
(***************************************************************************)
(* What virtual memory promises the tasks that use it, with none of the    *)
(* objects, pages and mappings that implement it: one word of memory in    *)
(* each address map.  Maps that share the word are in one region.          *)
(***************************************************************************)
EXTENDS Naturals

CONSTANTS Entries, Values

VARIABLES
  region,   \* the region each map has the word in, 0 if it has none
  value,    \* the value a load finds
  lapsed    \* the promise is broken: nothing more is said

vars == <<region, value, lapsed>>

Init == /\ region \in [Entries -> {0} \cup Entries]
        /\ value = [e \in Entries |-> 0]
        /\ lapsed = FALSE

(***************************************************************************)
(* A store is seen by every map that shares the region, and by no other.   *)
(***************************************************************************)
Store(e, v) ==
  /\ region[e] # 0
  /\ value' = [f \in Entries |-> IF region[f] = region[e] THEN v ELSE value[f]]
  /\ UNCHANGED region

Unused == {r \in Entries : \A e \in Entries : region[e] # r}

(***************************************************************************)
(* A fork: the new map has a copy of the word, or the word itself.         *)
(***************************************************************************)
Fork(e, f, share) ==
  /\ region[e] # 0 /\ region[f] = 0
  /\ \E r \in IF share THEN {region[e]} ELSE Unused :
       region' = [region EXCEPT ![f] = r]
  /\ value' = [value EXCEPT ![f] = value[e]]

Unmap(e) ==
  /\ region[e] # 0
  /\ region' = [region EXCEPT ![e] = 0]
  /\ value' = [value EXCEPT ![e] = 0]

Next ==
  \/ /\ ~lapsed
     /\ \/ \E e \in Entries, v \in Values : Store(e, v)
        \/ \E e, f \in Entries, share \in BOOLEAN : Fork(e, f, share)
        \/ \E e \in Entries : Unmap(e)
     /\ lapsed' \in BOOLEAN
  \/ lapsed'

Spec == Init /\ [][Next]_vars
=============================================================================
