------------------------------ MODULE VmObject ------------------------------
(***************************************************************************)
(* Virtual memory objects (vm/vm_object.c), reduced to one page each: what *)
(* an object holds, the chain of objects that shadow one another, and the  *)
(* operations that build, shorten and cut the chain.  All objects are      *)
(* temporary and internal: their pager is the default pager.               *)
(*                                                                         *)
(* An object is a number, 0 is VM_OBJECT_NULL.  The page of an object is   *)
(* named by the object it is in.                                           *)
(***************************************************************************)
EXTENDS Naturals, FiniteSets, FiniteSetsExt

CONSTANTS
  MaxObjects,   \* bound on the objects that exist together
  Nothing       \* what the default pager holds for a page it never got

Objects == 1..MaxObjects

VARIABLES
  obj,     \* the fields of each object, see FreeObject
  pmap     \* each map's physical map: the page mapped, 0 if none, writable?

(***************************************************************************)
(* kind  none, fict (fictitious: a placeholder), absent (waiting for the   *)
(*       pager) or real                                                    *)
(* dirty m->dirty, or the modify bit of the page frame                     *)
(***************************************************************************)
NoPage == [kind |-> "none", busy |-> FALSE, dirty |-> FALSE, data |-> 0]

Placeholder == [NoPage EXCEPT !.kind = "fict", !.busy = TRUE]

(***************************************************************************)
(* pager  none, making (pager_created), ready (pager_initialized as well)  *)
(* disk   what the default pager holds for the page; existence_info says   *)
(*        whether there is anything                                        *)
(***************************************************************************)
FreeObject ==
  [state |-> "free", ref |-> 0, shadow |-> 0, copy |-> 0,
   shared |-> FALSE,                 \* use_shared_copy
   shadowed |-> FALSE, pager |-> "none", disk |-> Nothing,
   paging |-> 0,                     \* paging_in_progress
   page |-> NoPage]

Free == {o \in Objects : obj[o].state = "free"}

(* vm_object_allocate *)
NewObject == [FreeObject EXCEPT !.state = "alive", !.ref = 1]

(* vm_object_shadow: the reference to source moves into the new object *)
Shadowing(source) == [NewObject EXCEPT !.shadow = source]

HasPage(o) == obj[o].page.kind # "none"

(***************************************************************************)
(* pmap_page_protect, on every map that has the page mapped.               *)
(***************************************************************************)
Unmapped(o) ==
  [e \in DOMAIN pmap |-> IF pmap[e].page = o THEN [page |-> 0, write |-> FALSE]
                                             ELSE pmap[e]]

(* Mutant: who reads the original through a copy goes on doing so. *)
MutFlushed(o) == pmap

(***************************************************************************)
(* A fault has copied the page.  Of the maps that have the original mapped *)
(* it cannot tell which want the copy: none keeps it.                      *)
(***************************************************************************)
Flushed(o) == Unmapped(o)

(* Mutant: the pages of the source keep their write permission. *)
MutReadOnly(o) == pmap

ReadOnly(o) ==
  [e \in DOMAIN pmap |-> IF pmap[e].page = o THEN [pmap[e] EXCEPT !.write = FALSE]
                                             ELSE pmap[e]]

-----------------------------------------------------------------------------
(***************************************************************************)
(* vm_object_copy_delayed: the asymmetric copy of a shared object.         *)
(***************************************************************************)
ReusesCopy(src) ==
  LET old == obj[src].copy IN
  old # 0 /\ ~HasPage(old) /\ obj[old].pager = "none"

(* the old copy object, if any, shadows the new one instead of src *)
CopiedDelayed(src, new) ==
  LET old == obj[src].copy
      copy == [Shadowing(src) EXCEPT !.shadowed = TRUE,
                                     !.ref = IF old = 0 THEN 1 ELSE 2]
  IN [o \in Objects |->
        CASE o = new -> copy
          [] o = old -> [obj[o] EXCEPT !.shadow = new]
          [] o = src -> [obj[o] EXCEPT !.copy = new,
                                       !.ref = IF old = 0 THEN @ + 1 ELSE @]
          [] OTHER -> obj[o]]

(* the assertion about the old copy object *)
CopyAsserts(src) == obj[src].copy # 0 => obj[obj[src].copy].shadow = src

-----------------------------------------------------------------------------
(***************************************************************************)
(* One iteration of vm_object_collapse(object), with object and its        *)
(* backing object locked: it stops, merges the backing object into object, *)
(* or lets object shadow the next object in the chain.                     *)
(***************************************************************************)
(* Mutant: paging_in_progress of the backing object is not looked at. *)
MutCollapseEligible(o) ==
  LET b == obj[o].shadow IN
  /\ obj[o].pager = "none"
  /\ obj[o].paging = 0
  /\ obj[o].page.kind # "absent"
  /\ b # 0
  /\ obj[b].shadow # 0 => obj[obj[b].shadow].copy = 0

CollapseEligible(o) ==
  LET b == obj[o].shadow IN
  /\ obj[o].pager = "none"
  /\ obj[o].paging = 0
  /\ obj[o].page.kind # "absent"
  /\ b # 0
  /\ obj[b].paging = 0
  /\ obj[b].shadow # 0 => obj[obj[b].shadow].copy = 0   \* not a copy object

CanMerge(o) == CollapseEligible(o) /\ obj[obj[o].shadow].ref = 1

CanBypass(o) ==
  LET b == obj[o].shadow IN
  /\ CollapseEligible(o)
  /\ obj[b].ref # 1
  /\ obj[b].pager = "none"
  /\ HasPage(b) => HasPage(o)

(* the assertion on the backing object's page, and the panic *)
MergeAsserts(o) ==
  LET b == obj[o].shadow IN
  /\ ~obj[b].page.busy \/ obj[b].page.kind = "absent"
  /\ obj[b].shadow # 0 => obj[obj[b].shadow].copy = 0

Merged(o) ==
  LET b == obj[o].shadow IN
  [obj EXCEPT
    ![o].page   = IF HasPage(o) THEN @ ELSE obj[b].page,
    ![o].pager  = obj[b].pager,
    ![o].disk   = obj[b].disk,
    ![o].shadow = obj[b].shadow,
    ![b]        = FreeObject]

(* vm_page_rename takes the mappings of the page along *)
MergedPmap(o) ==
  LET b == obj[o].shadow IN
  IF HasPage(o) THEN pmap
  ELSE [e \in DOMAIN pmap |-> IF pmap[e].page = b THEN [pmap[e] EXCEPT !.page = o]
                                                  ELSE pmap[e]]

(* Mutant: the next object gets no reference for its new shadow. *)
MutBypassed(o) ==
  LET b == obj[o].shadow
  IN [x \in Objects |->
        CASE x = o -> [obj[o] EXCEPT !.shadow = obj[b].shadow]
          [] x = b -> [obj[b] EXCEPT !.ref = @ - 1,
                                     !.copy = IF @ = o THEN 0 ELSE @]
          [] OTHER -> obj[x]]

Bypassed(o) ==
  LET b == obj[o].shadow
      next == obj[b].shadow
  IN [x \in Objects |->
        CASE x = o -> [obj[o] EXCEPT !.shadow = next]
          [] x = b -> [obj[b] EXCEPT !.ref = @ - 1,
                                     !.copy = IF @ = o THEN 0 ELSE @]
          [] x = next -> [obj[x] EXCEPT !.ref = @ + 1]
          [] OTHER -> obj[x]]

-----------------------------------------------------------------------------
(***************************************************************************)
(* vm_object_deallocate and vm_object_terminate: the last reference goes;  *)
(* the object is no longer alive, and no longer its shadow's copy object.  *)
(***************************************************************************)
Dying(o) ==
  [x \in Objects |->
     CASE x = o -> [obj[o] EXCEPT !.ref = 0, !.state = "dying"]
       [] x = obj[o].shadow -> [obj[x] EXCEPT !.copy = 0]
       [] OTHER -> obj[x]]

DyingAsserts(o) == obj[o].shadow # 0 => obj[obj[o].shadow].copy \in {o, 0}

-----------------------------------------------------------------------------
(***************************************************************************)
(* The chain that starts at object o, and the data a fault would find in   *)
(* it: a page, or what the pager has, or zero at its end.                  *)
(***************************************************************************)
Found(o) ==
  LET has(x) == obj[x].page.kind = "real" \/ obj[x].disk # Nothing
      walk[n \in 0..MaxObjects, x \in 0..MaxObjects] ==
        IF n = 0 \/ x = 0 THEN 0
        ELSE IF has(x) THEN x
        ELSE walk[n - 1, obj[x].shadow]
  IN walk[MaxObjects, o]

Data(o) ==
  LET x == Found(o) IN
  IF x = 0 THEN 0
  ELSE IF obj[x].page.kind = "real" THEN obj[x].page.data
  ELSE obj[x].disk

(***************************************************************************)
(* The page of o is not what a fault would find if it were thrown away, or *)
(* the object it copies is written because the copy has the page.          *)
(***************************************************************************)
OnlyHere(o) ==
  LET source == obj[o].shadow IN
  /\ obj[o].disk = Nothing
  /\ \/ obj[o].page.data # Data(source)
     \/ source # 0 /\ obj[source].copy = o /\ HasPage(source)
=============================================================================
