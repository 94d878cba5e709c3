------------------------------ MODULE VmFault -------------------------------
(***************************************************************************)
(* Copy-on-write memory at work: page faults (vm/vm_fault.c), the calls    *)
(* that copy, share and unmap memory (vm/vm_map.c), and the pageout daemon *)
(* (vm/vm_pageout.c), over the objects of VmObject.                        *)
(*                                                                         *)
(* Every address map has one entry of one page.  A step is what a thread   *)
(* does while it keeps an object or a map locked; where it keeps the lock  *)
(* of an object from one step to the next, its pc says so (Holding).       *)
(***************************************************************************)
EXTENDS VmObject

CONSTANTS
  Threads, Entries,
  Copies,       \* the maps with a copy, when the others share memory at first
  Values,       \* what tasks store, besides the zeros memory starts with
  MaxPages,     \* page frames
  MaxCalls      \* bound on the faults, the forks and unmappings, and the pages
                \* the daemon takes while none is wanted, together

ASSUME VmAssumption ==
  /\ MaxObjects \in Nat /\ MaxPages \in Nat \ {0}
  /\ MaxCalls \in Nat
  /\ Entries \subseteq Nat \ {0}
  /\ Copies \subseteq Entries /\ Copies # Entries
  /\ MaxObjects > 1
  /\ Values \subseteq Nat \ {0} /\ Nothing \notin Values \cup {0}

VARIABLES
  entry,    \* the entry of each map
  th,       \* what each thread is at, see Idle
  daemon,   \* what the pageout daemon is at
  calls,    \* how many of MaxCalls there were
  panic,    \* an assertion failed, or panic was called
  region,   \* history: the maps in one region share their memory
  hole      \* history: how the promise of VmMemory was broken

kernel == <<obj, pmap, entry, th, daemon, panic>>
vars == <<kernel, calls, region, hole>>

(***************************************************************************)
(* pc, for a fault:                                                        *)
(*   lookup         vm_map_lookup                                          *)
(*   look, relook   the search down the chain, with and without the lock   *)
(*   wait, restart  waiting for a busy page, and told to start again       *)
(*   zero           at the end of the chain, back to the first object      *)
(*   copied, insert the page is copied, the copy goes into first           *)
(*   collapse, recollapse   vm_object_collapse(first), with, without lock  *)
(*   push, repush   the copy object, with and without the lock of cur      *)
(*   pushout        the pushed page is on its way to the copy's pager      *)
(*   backwait       waiting for the copy object's page                     *)
(*   verify, enter, finish   vm_map_verify, PMAP_ENTER, and the end        *)
(*   cleantop       the placeholder goes                                   *)
(*   shortage       VM_PAGE_WAIT                                           *)
(* and for any call: dealloc, dterm (vm_object_deallocate).                *)
(***************************************************************************)
Idle == [pc |-> "idle", e |-> 0,
         w |-> FALSE,          \* fault_type & VM_PROT_WRITE
         first |-> 0, cur |-> 0,   \* first_object, object
         top |-> FALSE,        \* first_m is in first
         prot |-> FALSE,       \* prot & VM_PROT_WRITE
         same |-> FALSE,       \* the map's timestamp is still version
         old |-> 0,            \* old_copy_object
         late |-> FALSE,       \* history: there is a new copy object since
         data |-> 0,           \* what copy_m holds
         event |-> 0,          \* whose page it waits for
         dobj |-> 0,           \* the object to deallocate, or pushed to
         after |-> "idle"]     \* what follows vm_object_deallocate

Holding == {"look", "collapse", "push"}

CanLock(o) ==
  /\ \A t \in Threads : ~(th[t].pc \in Holding /\ th[t].cur = o)
  /\ ~(daemon.pc = "collapse" /\ daemon.obj = o)

ReadLocked(e) == \E t \in Threads : th[t].e = e /\ th[t].pc \in {"enter", "finish"}

(* vm_map_lock bumps the timestamp of the map *)
Bumped(T, e) == [t \in Threads |-> IF T[t].e = e THEN [T[t] EXCEPT !.same = FALSE]
                                                 ELSE T[t]]

FramesUsed ==
  Cardinality({o \in Objects : obj[o].page.kind \in {"absent", "real"}})
  + Cardinality({t \in Threads : th[t].pc \in {"copied", "insert", "pushout"}})
  + (IF daemon.pc = "sent" THEN 1 ELSE 0)

FrameFree == FramesUsed < MaxPages

(***************************************************************************)
(* UNLOCK_AND_DEALLOCATE after the paging reference of cur is gone.        *)
(***************************************************************************)
Leaving(r, after) ==
  [r EXCEPT !.pc = IF r.top THEN "cleantop" ELSE "dealloc",
            !.dobj = r.first, !.after = after]

(* what a thread starts with when its fault is to be retried *)
Again(r, pc) == IF pc = "idle" THEN Idle
                ELSE [Idle EXCEPT !.pc = pc, !.e = r.e, !.w = r.w]

(***************************************************************************)
(* PAGE_WAKEUP of o's page: AWAKENED, or the RESTART a push gives.         *)
(***************************************************************************)
Woken(T, o, how) ==
  [t \in Threads |->
     LET r == T[t] IN
     IF r.event # o THEN r
     ELSE IF r.pc = "wait"
     THEN [r EXCEPT !.event = 0, !.pc = IF how = "awakened" THEN "relook" ELSE "restart"]
     ELSE [r EXCEPT !.event = 0, !.pc = "dealloc", !.dobj = r.first,
                    !.after = IF how = "awakened" THEN "lookup" ELSE "idle"]]

Wakes(t, r, o) == th' = Woken([th EXCEPT ![t] = r], o, "awakened")

Goes(t, r) == th' = [th EXCEPT ![t] = r]

-----------------------------------------------------------------------------
NoEntry == [mapped |-> FALSE, obj |-> 0, needs_copy |-> FALSE, is_shared |-> FALSE]

(* one map, whose memory nobody touched *)
Fresh ==
  /\ obj = [o \in Objects |-> FreeObject]
  /\ entry = [e \in Entries |-> [NoEntry EXCEPT !.mapped = e = Min(Entries)]]
  /\ region = [e \in Entries |-> IF e = Min(Entries) THEN e ELSE 0]
  /\ calls = 0

(***************************************************************************)
(* vm_map_fork shared the memory with other maps, and copied it to some.   *)
(* It is untouched, or zeros were stored since and paged out.              *)
(***************************************************************************)
Shared ==
  LET sharers == Entries \ Copies
      copied == Copies # {}
      source == [NewObject EXCEPT !.shared = TRUE,
                                  !.ref = Cardinality(sharers) + IF copied THEN 1 ELSE 0,
                                  !.copy = IF copied THEN 2 ELSE 0]
      copy == [Shadowing(1) EXCEPT !.shadowed = TRUE, !.ref = Cardinality(Copies)]
      out(x) == [x EXCEPT !.pager = "ready", !.disk = 0]
  IN /\ \E paged \in BOOLEAN :
          obj = [o \in Objects |->
                   CASE o = 1 -> IF paged THEN out(source) ELSE source
                     [] o = 2 /\ copied -> IF paged THEN out(copy) ELSE copy
                     [] OTHER -> FreeObject]
     /\ entry = [e \in Entries |->
                   IF e \in Copies
                   THEN [NoEntry EXCEPT !.mapped = TRUE, !.obj = 2, !.needs_copy = TRUE]
                   ELSE [NoEntry EXCEPT !.mapped = TRUE, !.obj = 1, !.is_shared = TRUE]]
     /\ region = [e \in Entries |-> IF e \in Copies THEN e ELSE Min(sharers)]
     /\ calls = 1

Init ==
  /\ Fresh \/ Shared
  /\ pmap = [e \in Entries |-> [page |-> 0, write |-> FALSE]]
  /\ th = [t \in Threads |-> Idle]
  /\ daemon = [pc |-> "idle", obj |-> 0]
  /\ panic = "none" /\ hole = {}

Counted == calls < MaxCalls /\ calls' = calls + 1

Same == UNCHANGED <<calls, region, hole>>

(* what no step of a fault but its lookup and its end touches *)
Rest == Same /\ UNCHANGED <<entry, daemon, panic>>

vm_map_lookup(t, r) ==
  LET n == entry[r.e]
      shadow == r.w /\ n.needs_copy
      new == shadow \/ n.obj = 0
      o == IF new THEN Min(Free) ELSE n.obj
      base == IF shadow THEN Shadowing(n.obj)
              ELSE IF new THEN NewObject ELSE obj[o]
  IN /\ \/ /\ ~n.mapped            \* KERN_INVALID_ADDRESS
           /\ Goes(t, Idle)
           /\ UNCHANGED <<obj, entry>>
        \/ /\ n.mapped
           /\ IF new THEN ~ReadLocked(r.e) /\ Free # {} ELSE CanLock(n.obj)
           /\ obj' = [obj EXCEPT ![o] = [base EXCEPT !.ref = @ + 1,
                                                     !.paging = @ + 1]]
           /\ entry' = [entry EXCEPT ![r.e].obj = o,
                                     ![r.e].needs_copy = @ /\ ~shadow]
           /\ th' = [(IF new THEN Bumped(th, r.e) ELSE th) EXCEPT
                       ![t] = [r EXCEPT !.pc = "look", !.first = o, !.cur = o,
                                        !.prot = r.w \/ ~n.needs_copy,
                                        !.same = TRUE]]
     /\ UNCHANGED <<pmap, daemon, panic, region, hole>>

(***************************************************************************)
(* A thread faults, the mapping being missing or read-only.                *)
(***************************************************************************)
vm_fault(t) ==
  /\ th[t].pc = "idle"
  /\ Counted
  /\ \E e \in Entries, w \in BOOLEAN :
       /\ pmap[e].page = 0 \/ (w /\ ~pmap[e].write)
       /\ vm_map_lookup(t, [Idle EXCEPT !.e = e, !.w = w])

RetryFault(t) ==
  th[t].pc = "lookup" /\ vm_map_lookup(t, th[t]) /\ UNCHANGED calls

-----------------------------------------------------------------------------
(***************************************************************************)
(* vm_fault_page: the search for the page, one object after the other.     *)
(***************************************************************************)
Looking(t) == \/ th[t].pc = "look"
              \/ th[t].pc = "relook" /\ CanLock(th[t].cur)

LookWait(t) ==
  /\ Looking(t)
  /\ obj[th[t].cur].page.busy
  /\ Goes(t, [th[t] EXCEPT !.pc = "wait", !.event = th[t].cur])
  /\ Rest /\ UNCHANGED <<obj, pmap>>

(* the search ends without a page frame *)
Short(t, r, o) ==
  /\ ~FrameFree
  /\ obj' = [obj EXCEPT ![o].paging = @ - 1]
  /\ Goes(t, Leaving(r, "shortage"))

LookFound(t) ==
  LET r == th[t] IN
  /\ Looking(t)
  /\ obj[r.cur].page.kind = "real" /\ ~obj[r.cur].page.busy
  /\ IF r.w /\ r.cur # r.first
     THEN \/ Short(t, r, r.cur)
          \/ /\ FrameFree
             /\ obj' = [obj EXCEPT ![r.cur].page.busy = TRUE]
             /\ Goes(t, [r EXCEPT !.pc = "copied", !.data = obj[r.cur].page.data])
     ELSE /\ obj' = [obj EXCEPT ![r.cur].page.busy = TRUE]
          /\ Goes(t, [r EXCEPT !.pc = "push", !.prot = @ /\ r.cur = r.first])
  /\ Rest /\ UNCHANGED pmap

(* the pager has the page: memory_object_data_request *)
LookPagein(t) ==
  LET r == th[t] IN
  /\ Looking(t)
  /\ ~HasPage(r.cur) /\ obj[r.cur].disk # Nothing
  /\ \/ Short(t, r, r.cur)
     \/ /\ FrameFree
        /\ obj' = [obj EXCEPT ![r.cur].page = [Placeholder EXCEPT !.kind = "absent"]]
        /\ Goes(t, [r EXCEPT !.pc = "relook"])
  /\ Rest /\ UNCHANGED pmap

(* on to the next object, with a placeholder left in the first *)
LookDown(t) ==
  LET r == th[t]
      next == obj[r.cur].shadow
  IN /\ Looking(t)
     /\ ~HasPage(r.cur) /\ obj[r.cur].disk = Nothing
     /\ next # 0 /\ CanLock(next)
     /\ obj' = [obj EXCEPT
                  ![r.cur].page = IF r.cur = r.first THEN Placeholder ELSE @,
                  ![r.cur].paging = IF r.cur = r.first THEN @ ELSE @ - 1,
                  ![next].paging = @ + 1]
     /\ Goes(t, [r EXCEPT !.pc = "look", !.cur = next, !.top = TRUE])
     /\ Rest /\ UNCHANGED pmap

ZeroPage == [NoPage EXCEPT !.kind = "real", !.busy = TRUE]

(* the end of the chain: a page of zeros in the first object *)
LookBottom(t) ==
  LET r == th[t] IN
  /\ Looking(t)
  /\ ~HasPage(r.cur) /\ obj[r.cur].disk = Nothing
  /\ obj[r.cur].shadow = 0
  /\ \/ /\ r.cur # r.first
        /\ obj' = [obj EXCEPT ![r.cur].paging = @ - 1]
        /\ Goes(t, [r EXCEPT !.pc = "zero", !.cur = r.first])
     \/ r.cur = r.first /\ Short(t, r, r.cur)
     \/ /\ r.cur = r.first /\ FrameFree
        /\ obj' = [obj EXCEPT ![r.cur].page = ZeroPage]
        /\ Goes(t, [r EXCEPT !.pc = "repush"])
  /\ Rest /\ UNCHANGED pmap

Zero(t) ==
  LET r == [th[t] EXCEPT !.top = FALSE] IN
  /\ r.pc = "zero" /\ CanLock(r.first)
  /\ \/ /\ FrameFree
        /\ obj' = [obj EXCEPT ![r.first].page = ZeroPage]
        /\ Goes(t, [r EXCEPT !.pc = "repush"])
     \/ /\ ~FrameFree
        /\ obj' = [obj EXCEPT ![r.first].page = NoPage, ![r.first].paging = @ - 1]
        /\ Wakes(t, Leaving(r, "shortage"), r.first)
  /\ Rest /\ UNCHANGED pmap

(* a push changed the chain above the page waited for: VM_FAULT_RETRY *)
Restart(t) ==
  LET r == th[t] IN
  /\ r.pc = "restart" /\ CanLock(r.cur)
  /\ obj' = [obj EXCEPT ![r.cur].paging = @ - 1]
  /\ Goes(t, Leaving(r, "lookup"))
  /\ Rest /\ UNCHANGED pmap

-----------------------------------------------------------------------------
(***************************************************************************)
(* The page is copied into the first object.                               *)
(***************************************************************************)
Copied(t) ==
  LET r == th[t] IN
  /\ r.pc = "copied" /\ CanLock(r.cur)
  /\ pmap' = Flushed(r.cur)
  /\ obj' = [obj EXCEPT ![r.cur].page.busy = FALSE, ![r.cur].paging = @ - 1]
  /\ Wakes(t, [r EXCEPT !.pc = "insert"], r.cur)
  /\ Rest

(* The modify bit of copy_m's frame is what its last user left there. *)
Insert(t) ==
  LET r == th[t] IN
  /\ r.pc = "insert" /\ CanLock(r.first)
  /\ \E dirty \in BOOLEAN :
       obj' = [obj EXCEPT
                 ![r.first].page = [kind |-> "real", busy |-> TRUE,
                                    dirty |-> dirty, data |-> r.data],
                 ![r.first].paging = @ - 1]
  /\ Wakes(t, [r EXCEPT !.pc = "collapse", !.cur = r.first, !.top = FALSE,
                        !.data = 0], r.first)
  /\ Rest /\ UNCHANGED pmap

(***************************************************************************)
(* vm_object_collapse, up to where it unlocks the object or returns.  It   *)
(* gives up if the cache lock is taken, as vm_object_deallocate takes it.  *)
(***************************************************************************)
CollapseLocks(o) ==
  LET b == obj[o].shadow IN
  b # 0 => CanLock(b) /\ (obj[b].shadow # 0 => CanLock(obj[b].shadow))

CacheBusy == \E t \in Threads : th[t].pc = "dealloc"

CollapseStops(o) ==
  \/ ~CanMerge(o) /\ ~CanBypass(o)
  \/ CanMerge(o) /\ CacheBusy

(* The daemon collapses objects it has no reference to. *)
Unreferenced(o) == daemon = [pc |-> "recollapse", obj |-> o]

Panic(o, why) == panic' = IF Unreferenced(o) THEN "unreferenced" ELSE why

Merge(o) ==
  /\ CanMerge(o)
  /\ IF MergeAsserts(o) THEN UNCHANGED panic ELSE Panic(obj[o].shadow, "collapse")
  /\ obj' = Merged(o)
  /\ pmap' = MergedPmap(o)

Bypass(o) == CanBypass(o) /\ obj' = Bypassed(o) /\ UNCHANGED <<pmap, panic>>

FaultCollapse(t) ==
  LET r == th[t]
      o == r.first
  IN /\ \/ r.pc = "collapse"
        \/ r.pc = "recollapse" /\ CanLock(o)
     /\ CollapseLocks(o)
     /\ \/ /\ CollapseStops(o)
           /\ obj' = [obj EXCEPT ![o].paging = @ + 1]
           /\ Goes(t, [r EXCEPT !.pc = "push"])
           /\ UNCHANGED <<pmap, panic>>
        \/ Merge(o) /\ Goes(t, [r EXCEPT !.pc = "recollapse"])
        \/ Bypass(o) /\ Goes(t, [r EXCEPT !.pc = "collapse"])
     /\ Same /\ UNCHANGED <<entry, daemon>>

-----------------------------------------------------------------------------
(***************************************************************************)
(* The copy object of the first object must have the page before it is     *)
(* written.                                                                *)
(***************************************************************************)
Pushing(t) == \/ th[t].pc = "push"
              \/ th[t].pc = "repush" /\ CanLock(th[t].cur)

Success(r) == [r EXCEPT !.pc = "verify", !.old = obj[r.cur].copy, !.dobj = 0]

PushNone(t) ==
  LET r == th[t] IN
  /\ Pushing(t)
  /\ obj[r.first].copy = 0 \/ ~r.w
  /\ Goes(t, Success([r EXCEPT !.prot = @ /\ obj[r.first].copy = 0]))
  /\ Rest /\ UNCHANGED <<obj, pmap>>

(* vm_object_lock_try fails: let go and try again *)
PushPause(t) ==
  LET r == th[t] IN
  /\ r.pc = "push" /\ r.w
  /\ obj[r.first].copy # 0 /\ ~CanLock(obj[r.first].copy)
  /\ Goes(t, [r EXCEPT !.pc = "repush"])
  /\ Rest /\ UNCHANGED <<obj, pmap>>

(* RELEASE_PAGE of m, in the first object, and the paging reference *)
Released(o) == [obj EXCEPT ![o].page.busy = FALSE, ![o].paging = @ - 1]

PushWait(t) ==
  LET r == th[t]
      c == obj[r.first].copy
  IN /\ Pushing(t) /\ r.w /\ c # 0 /\ CanLock(c)
     /\ obj[c].page.busy
     /\ obj' = Released(r.first)
     /\ Wakes(t, [r EXCEPT !.pc = "backwait", !.event = c], r.first)
     /\ Rest /\ UNCHANGED pmap

PushThere(t) ==
  LET r == th[t]
      c == obj[r.first].copy
  IN /\ Pushing(t) /\ r.w /\ c # 0 /\ CanLock(c)
     /\ HasPage(c) /\ ~obj[c].page.busy
     /\ Goes(t, Success(r))
     /\ Rest /\ UNCHANGED <<obj, pmap>>

(***************************************************************************)
(* Faults that wait below the copy object are started again.  One that was *)
(* woken before, and has not locked the object yet, is missed: it will use *)
(* the page that is about to be written.                                   *)
(***************************************************************************)
Restarts(T, o) ==
  /\ th' = Woken(T, o, "restart")
  /\ hole' = IF \E u \in Threads : th[u].pc = "relook" /\ th[u].top /\ th[u].cur = o
             THEN hole \cup {"missed"} ELSE hole

(***************************************************************************)
(* The copy object gets the page, or its pager does: data_initialize has   *)
(* no effect on a pager that has the page already.                         *)
(***************************************************************************)
PushCopy(t) ==
  LET r == th[t]
      c == obj[r.first].copy
      data == obj[r.first].page.data
  IN /\ Pushing(t) /\ r.w /\ c # 0 /\ CanLock(c)
     /\ ~HasPage(c)
     /\ \/ /\ ~FrameFree
           /\ obj' = Released(r.first)
           /\ Wakes(t, Leaving(r, "shortage"), r.first)
           /\ UNCHANGED <<pmap, hole>>
        \/ /\ FrameFree /\ obj[c].pager = "none"
           /\ obj' = [obj EXCEPT ![c].page = [kind |-> "real", busy |-> FALSE,
                                              dirty |-> TRUE, data |-> data]]
           /\ pmap' = Flushed(r.first)
           /\ Restarts([th EXCEPT ![t] = Success(r)], r.first)
        \/ /\ FrameFree /\ obj[c].pager # "none"
           /\ obj' = [obj EXCEPT ![c].page = Placeholder,
                                 ![c].paging = @ + 1, ![c].ref = @ + 1,
                                 ![c].disk = IF @ = Nothing THEN data ELSE @]
           /\ pmap' = Flushed(r.first)
           /\ Goes(t, [r EXCEPT !.pc = "pushout", !.dobj = c])
           /\ UNCHANGED hole
     /\ UNCHANGED <<entry, daemon, panic, calls, region>>

PushDone(t) ==
  LET r == th[t]
      c == r.dobj
      hard == obj[c].shadow # r.first \/ obj[c].ref = 1
      sent == [obj[c] EXCEPT !.page = NoPage, !.paging = @ - 1]
  IN /\ r.pc = "pushout" /\ CanLock(c)
     /\ \/ /\ hard
           /\ obj' = [obj EXCEPT ![c] = sent]
           /\ Wakes(t, [r EXCEPT !.pc = "dealloc", !.after = "repush"], c)
           /\ UNCHANGED hole
        \/ /\ ~hard /\ CanLock(r.first)
           /\ obj' = [obj EXCEPT ![c] = [sent EXCEPT !.ref = @ - 1]]
           /\ Restarts(Woken([th EXCEPT ![t] = Success(r)], c, "awakened"), r.first)
     /\ UNCHANGED <<pmap, entry, daemon, panic, calls, region>>

-----------------------------------------------------------------------------
(***************************************************************************)
(* vm_fault, with the page: verify that the map is what it was, and enter  *)
(* the mapping while the map is locked.                                    *)
(***************************************************************************)
GivesUp(t, after) ==
  /\ obj' = Released(th[t].cur)
  /\ Wakes(t, Leaving(th[t], after), th[t].cur)

Verify(t) ==
  LET r == th[t]
      n == entry[r.e]
  IN /\ r.pc = "verify" /\ CanLock(r.cur)
     /\ \/ /\ r.same
           /\ Goes(t, [r EXCEPT !.pc = "enter",
                                !.prot = @ /\ obj[r.cur].copy = r.old])
           /\ UNCHANGED obj
        \/ ~r.same /\ ~n.mapped /\ GivesUp(t, "idle")
        \/ ~r.same /\ n.mapped /\ n.obj # r.first /\ GivesUp(t, "lookup")
        \/ /\ ~r.same /\ n.mapped /\ n.obj = r.first
           /\ Goes(t, [r EXCEPT !.same = TRUE, !.prot = @ /\ ~n.needs_copy])
           /\ UNCHANGED obj
     /\ Rest /\ UNCHANGED pmap

(***************************************************************************)
(* The object is not locked here.  If it got another copy object since     *)
(* Verify looked, or one at the address of the last, nothing takes the     *)
(* write permission away again.                                            *)
(***************************************************************************)
Enter(t) ==
  LET r == th[t] IN
  /\ r.pc = "enter"
  /\ pmap' = [pmap EXCEPT ![r.e] = [page |-> r.cur, write |-> r.prot]]
  /\ hole' = IF r.prot /\ r.late THEN hole \cup {"late"} ELSE hole
  /\ Goes(t, [r EXCEPT !.pc = "finish"])
  /\ UNCHANGED <<obj, entry, daemon, panic, calls, region>>

Finish(t) ==
  /\ th[t].pc = "finish" /\ CanLock(th[t].cur)
  /\ GivesUp(t, "idle")
  /\ Rest /\ UNCHANGED pmap

(* Mutant: who waits for the placeholder is not woken. *)
MutCleanTop(t) ==
  LET r == th[t] IN
  /\ r.pc = "cleantop" /\ CanLock(r.first)
  /\ obj' = [obj EXCEPT ![r.first].page = NoPage, ![r.first].paging = @ - 1]
  /\ Goes(t, [r EXCEPT !.pc = "dealloc"])
  /\ Rest /\ UNCHANGED pmap

(* the second half of vm_fault_cleanup *)
CleanTop(t) ==
  LET r == th[t] IN
  /\ r.pc = "cleantop" /\ CanLock(r.first)
  /\ obj' = [obj EXCEPT ![r.first].page = NoPage, ![r.first].paging = @ - 1]
  /\ Wakes(t, [r EXCEPT !.pc = "dealloc"], r.first)
  /\ Rest /\ UNCHANGED pmap

vm_page_wait(t) ==
  /\ th[t].pc = "shortage" /\ FrameFree
  /\ Goes(t, Again(th[t], "lookup"))
  /\ Rest /\ UNCHANGED <<obj, pmap>>

-----------------------------------------------------------------------------
(***************************************************************************)
(* vm_object_deallocate, by any thread: down the chain as long as the      *)
(* references that go are the last.                                        *)
(***************************************************************************)
Deallocated(r) == IF r.after = "repush" THEN [r EXCEPT !.pc = "repush", !.dobj = 0]
                  ELSE Again(r, r.after)

vm_object_deallocate(t) ==
  LET r == th[t]
      o == r.dobj
  IN /\ r.pc = "dealloc" /\ CanLock(o)
     /\ \/ /\ obj[o].ref > 1
           /\ obj' = [obj EXCEPT ![o].ref = @ - 1]
           /\ Goes(t, Deallocated(r))
           /\ UNCHANGED panic
        \/ /\ obj[o].ref = 1 /\ obj[o].pager # "making"
           /\ obj[o].shadow # 0 => CanLock(obj[o].shadow)
           /\ IF DyingAsserts(o) THEN UNCHANGED panic ELSE panic' = "terminate"
           /\ obj' = Dying(o)
           /\ Goes(t, [r EXCEPT !.pc = "dterm"])
     /\ Same /\ UNCHANGED <<pmap, entry, daemon>>

vm_object_terminate(t) ==
  LET r == th[t]
      o == r.dobj
      page == obj[o].page
  IN /\ r.pc = "dterm" /\ CanLock(o)
     /\ obj[o].paging = 0
     /\ IF page.busy /\ page.kind # "absent" THEN Panic(o, "terminate.2")
                                             ELSE UNCHANGED panic
     /\ obj' = [obj EXCEPT ![o] = FreeObject]
     /\ Wakes(t, IF obj[o].shadow = 0 THEN Deallocated(r)
                 ELSE [r EXCEPT !.pc = "dealloc", !.dobj = obj[o].shadow], o)
     /\ Same /\ UNCHANGED <<pmap, entry, daemon>>

-----------------------------------------------------------------------------
(***************************************************************************)
(* A task stores through a mapping it may write.                           *)
(***************************************************************************)
Store(e, v) ==
  LET o == pmap[e].page IN
  /\ entry[e].mapped /\ o # 0 /\ pmap[e].write
  /\ obj' = [obj EXCEPT ![o].page.data = v, ![o].page.dirty = TRUE]
  /\ UNCHANGED <<pmap, entry, th>> /\ Rest

(***************************************************************************)
(* vm_map_fork of map e, with its only entry inherited as a copy, or       *)
(* shared.  The new map gets the first number that no map has.             *)
(***************************************************************************)
NewMaps == {f \in Entries : ~entry[f].mapped /\ \A t \in Threads : th[t].e # f}

Forks(e, f) ==
  /\ Counted
  /\ entry[e].mapped /\ ~ReadLocked(e)
  /\ NewMaps # {} /\ f = Min(NewMaps)
  /\ entry[e].obj # 0 => CanLock(entry[e].obj)
  /\ UNCHANGED <<daemon, hole>>

Overtaken(T, o) ==
  [t \in Threads |-> IF T[t].pc \in {"verify", "enter"} /\ T[t].cur = o
                     THEN [T[t] EXCEPT !.late = TRUE] ELSE T[t]]

NewPmap(P, f) == [P EXCEPT ![f] = [page |-> 0, write |-> FALSE]]

(* vm_object_copy_temporary *)
ForkCopy(e, f) ==
  LET n == entry[e]
      o == n.obj
      new == Min(Free)
      child(x, needs) == [mapped |-> TRUE, obj |-> x, needs_copy |-> needs,
                          is_shared |-> FALSE]
  IN /\ Forks(e, f)
     /\ \/ /\ o = 0
           /\ entry' = [entry EXCEPT ![f] = child(0, FALSE)]
           /\ pmap' = NewPmap(pmap, f)
           /\ th' = Bumped(th, e)
           /\ UNCHANGED obj
        \/ /\ o # 0 /\ ~obj[o].shared
           /\ th' = Bumped(th, e)
           /\ obj' = [obj EXCEPT ![o].ref = @ + 1, ![o].shadowed = TRUE]
           /\ entry' = [entry EXCEPT ![e].needs_copy = TRUE, ![f] = child(o, TRUE)]
           /\ pmap' = NewPmap(IF n.needs_copy THEN pmap
                              ELSE IF n.is_shared THEN ReadOnly(o)
                              ELSE [pmap EXCEPT ![e].write = FALSE], f)
        \/ /\ o # 0 /\ obj[o].shared
           /\ obj[o].copy # 0 => CanLock(obj[o].copy)
           /\ \/ /\ ReusesCopy(o)
                 /\ obj' = [obj EXCEPT ![obj[o].copy].ref = @ + 1]
                 /\ entry' = [entry EXCEPT ![f] = child(obj[o].copy, TRUE)]
                 /\ pmap' = NewPmap(pmap, f)
                 /\ th' = Bumped(th, e)
              \/ /\ ~ReusesCopy(o) /\ Free # {}
                 /\ th' = Overtaken(Bumped(th, e), o)
                 /\ obj' = CopiedDelayed(o, new)
                 /\ entry' = [entry EXCEPT ![f] = child(new, TRUE)]
                 /\ pmap' = NewPmap(ReadOnly(o), f)
     /\ region' = [region EXCEPT ![f] =
                     CHOOSE r \in Entries : \A x \in Entries : region[x] # r]
     /\ panic' = IF o = 0 \/ CopyAsserts(o) THEN panic ELSE "copy"

ForkShare(e, f) ==
  LET n == entry[e]
      shadow == n.obj # 0 /\ (n.needs_copy \/ obj[n.obj].shadowed)
      new == shadow \/ n.obj = 0
      o == IF new THEN Min(Free) ELSE n.obj
      base == IF shadow THEN Shadowing(n.obj)
              ELSE IF new THEN NewObject ELSE obj[o]
      shared == [mapped |-> TRUE, obj |-> o, needs_copy |-> FALSE,
                 is_shared |-> TRUE]
  IN /\ Forks(e, f)
     /\ new => Free # {}
     /\ th' = Bumped(th, e)
     /\ panic' = IF shadow /\ obj[n.obj].shadowed /\ n.is_shared THEN "fork" ELSE panic
     /\ obj' = [obj EXCEPT ![o] = [base EXCEPT !.ref = @ + 1, !.shared = TRUE]]
     /\ entry' = [entry EXCEPT ![e] = shared, ![f] = shared]
     /\ pmap' = NewPmap(IF shadow /\ ~n.needs_copy
                        THEN [pmap EXCEPT ![e].write = FALSE] ELSE pmap, f)
     /\ region' = [region EXCEPT ![f] = region[e]]

(***************************************************************************)
(* vm_map_entry_delete.  For a shared entry only the pages of the object   *)
(* itself are removed from the physical maps.                              *)
(***************************************************************************)
vm_map_entry_delete(t, e) ==
  LET n == entry[e] IN
  /\ Counted
  /\ th[t].pc = "idle"
  /\ n.mapped /\ ~ReadLocked(e)
  /\ n.obj # 0 => CanLock(n.obj)
  /\ pmap' = IF n.is_shared THEN Unmapped(n.obj) ELSE NewPmap(pmap, e)
  /\ entry' = [entry EXCEPT ![e] = NoEntry]
  /\ th' = Bumped([th EXCEPT ![t] = IF n.obj = 0 THEN Idle
                                    ELSE [Idle EXCEPT !.pc = "dealloc", !.dobj = n.obj]],
                  e)
  /\ region' = [region EXCEPT ![e] = 0]
  /\ UNCHANGED <<obj, daemon, panic, hole>>

-----------------------------------------------------------------------------
(***************************************************************************)
(* The default pager answers: memory_object_data_supply.                   *)
(***************************************************************************)
Supply(o) ==
  /\ obj[o].page.kind = "absent" /\ CanLock(o)
  /\ obj' = [obj EXCEPT ![o].page = [kind |-> "real", busy |-> FALSE,
                                     dirty |-> FALSE, data |-> obj[o].disk]]
  /\ th' = Woken(th, o, "awakened")
  /\ UNCHANGED pmap /\ Rest

(***************************************************************************)
(* vm_pageout_scan, at the page of o.  It runs while pages are wanted, or  *)
(* fewer than vm_page_free_target are free.                                *)
(***************************************************************************)
Wanted == \E t \in Threads : th[t].pc = "shortage"

vm_pageout_scan(o) ==
  LET page == obj[o].page IN
  /\ daemon.pc = "idle"
  /\ IF Wanted THEN UNCHANGED calls ELSE Counted
  /\ obj[o].state = "alive" /\ CanLock(o)
  /\ page.kind = "real" /\ ~page.busy
  /\ pmap' = Unmapped(o)
  /\ \/ /\ ~page.dirty             \* it is clean, and freed
        /\ obj' = [obj EXCEPT ![o].page = NoPage]
        /\ hole' = IF OnlyHere(o) THEN hole \cup {"lost"} ELSE hole
        /\ UNCHANGED daemon
     \/ /\ page.dirty
        /\ obj' = [obj EXCEPT ![o].page.busy = TRUE]
        /\ daemon' = [pc |-> "collapse", obj |-> o]
        /\ UNCHANGED hole
  /\ UNCHANGED <<entry, th, panic, region>>

(***************************************************************************)
(* vm_pageout_page, flushing the page: a placeholder takes its place until *)
(* the pager has the data.  Messages to a pager are not reordered, so the  *)
(* pager has the data when it sees a later request.                        *)
(***************************************************************************)
Out(o) ==
  /\ obj' = [obj EXCEPT ![o].page = Placeholder, ![o].disk = obj[o].page.data,
                        ![o].pager = "ready",
                        ![o].paging = IF obj[o].pager = "making" THEN @ ELSE @ + 1]
  /\ th' = Woken(th, o, "awakened")
  /\ daemon' = [daemon EXCEPT !.pc = "sent"]

(* vm_object_collapse first, if there is no pager yet *)
ScanCollapse ==
  LET o == daemon.obj IN
  /\ \/ daemon.pc = "collapse"
     \/ daemon.pc = "recollapse" /\ CanLock(o)
  /\ CollapseLocks(o)
  /\ \/ /\ CollapseStops(o)
        /\ IF obj[o].pager # "none" THEN Out(o)
           ELSE /\ obj' = [obj EXCEPT ![o].pager = "making", ![o].paging = @ + 1]
                /\ daemon' = [daemon EXCEPT !.pc = "create"]
                /\ UNCHANGED th
        /\ UNCHANGED <<pmap, panic>>
     \/ Merge(o) /\ daemon' = [daemon EXCEPT !.pc = "recollapse"] /\ UNCHANGED th
     \/ Bypass(o) /\ daemon' = [daemon EXCEPT !.pc = "collapse"] /\ UNCHANGED th
  /\ UNCHANGED entry /\ Same

(* vm_object_pager_create is done *)
ScanCreated ==
  /\ daemon.pc = "create" /\ CanLock(daemon.obj)
  /\ Out(daemon.obj)
  /\ UNCHANGED <<pmap, entry, panic>> /\ Same

ScanSent ==
  LET o == daemon.obj IN
  /\ daemon.pc = "sent" /\ CanLock(o)
  /\ obj' = [obj EXCEPT ![o].page = NoPage, ![o].paging = @ - 1]
  /\ th' = Woken(th, o, "awakened")
  /\ daemon' = [pc |-> "idle", obj |-> 0]
  /\ UNCHANGED <<pmap, entry, panic>> /\ Same

-----------------------------------------------------------------------------
FaultStep(t) ==
  \/ vm_fault(t) \/ RetryFault(t)
  \/ LookWait(t) \/ LookFound(t) \/ LookPagein(t) \/ LookDown(t)
  \/ LookBottom(t) \/ Zero(t) \/ Restart(t)
  \/ Copied(t) \/ Insert(t) \/ FaultCollapse(t)
  \/ PushNone(t) \/ PushPause(t) \/ PushWait(t) \/ PushThere(t)
  \/ PushCopy(t) \/ PushDone(t)
  \/ Verify(t) \/ Enter(t) \/ Finish(t) \/ CleanTop(t)
  \/ vm_page_wait(t)

(* Everything may stop when no thread is inside the kernel, or it panics. *)
Stopped ==
  /\ panic # "none" \/ hole # {} \/ ((\A t \in Threads : th[t] = Idle) /\ daemon.pc = "idle")
  /\ UNCHANGED vars

Next ==
  \/ /\ panic = "none" /\ hole = {}
     /\ \/ \E t \in Threads : \/ FaultStep(t)
                              \/ vm_object_deallocate(t) \/ vm_object_terminate(t)
        \/ \E e \in Entries, v \in Values : Store(e, v)
        \/ \E e, f \in Entries : ForkCopy(e, f) \/ ForkShare(e, f)
        \/ \E t \in Threads, e \in Entries : vm_map_entry_delete(t, e)
        \/ \E o \in Objects : Supply(o) \/ vm_pageout_scan(o)
        \/ ScanCollapse \/ ScanCreated \/ ScanSent
  \/ Stopped

Spec == Init /\ [][Next]_vars

-----------------------------------------------------------------------------
(* What a load in map e finds, by its mapping or by a fault. *)
Contents(e) ==
  IF ~entry[e].mapped THEN 0
  ELSE IF pmap[e].page # 0 THEN obj[pmap[e].page].page.data
  ELSE Data(entry[e].obj)

Memory == INSTANCE VmMemory WITH value <- [e \in Entries |-> Contents(e)],
                                 lapsed <- hole # {}

(***************************************************************************)
(* Faults, copies, collapses and pageouts are invisible: what a task reads *)
(* changes only by its own stores and those of the tasks it shares with,   *)
(* and a copy keeps the value it had when it was made - unless one of the  *)
(* holes opened that the code leaves (Enter, Restarts, vm_pageout_scan).   *)
(***************************************************************************)
Implements == Memory!Spec

(***************************************************************************)
(* What a map reads changes by stores only.  vm_map_lookup says of the     *)
(* copying a fault brings about that "the data referenced will remain the  *)
(* same", and vm_pageout_scan frees a page it takes to be clean because    *)
(* the data can be had again.                                              *)
(***************************************************************************)
DataStays ==
  [][\A e \in Entries :
       entry[e].mapped /\ entry'[e].mapped /\ Contents(e)' # Contents(e) =>
         \E f \in Entries, v \in Values : Store(f, v)]_vars

(***************************************************************************)
(* No assertion of vm_object_copy_delayed, vm_object_collapse or           *)
(* vm_object_terminate fails, and none of vm_map_fork - except on an       *)
(* object that the daemon works on without a reference.                    *)
(***************************************************************************)
NoPanic == panic \in {"none", "unreferenced"}

-----------------------------------------------------------------------------
(* a fault holds a reference to first_object until it deallocates it *)
FirstHeld == {"look", "relook", "wait", "restart", "zero", "copied", "insert",
              "collapse", "recollapse", "push", "repush", "pushout", "backwait",
              "verify", "enter", "finish", "cleantop"}

RefsHeld(o) ==
  Cardinality({e \in Entries : entry[e].mapped /\ entry[e].obj = o})
  + Cardinality({x \in Objects : obj[x].shadow = o})
  + Cardinality({t \in Threads : th[t].first = o
                   /\ (th[t].pc \in FirstHeld \/ th[t].after = "repush")})
  + Cardinality({t \in Threads : th[t].dobj = o /\ th[t].pc \in {"dealloc", "pushout"}})

(***************************************************************************)
(* ref_count of every object is what refers to it: the entries, the        *)
(* objects that shadow it, and the threads at work on it.  The copy field  *)
(* is not counted.                                                         *)
(***************************************************************************)
CountsRight ==
  \A o \in Objects : obj[o].state # "free" => obj[o].ref = RefsHeld(o)

(***************************************************************************)
(* A thread that waits for a busy page (PAGE_ASSERT_WAIT) is woken by      *)
(* whoever frees, renames or unbusies the page: nobody waits for a page    *)
(* that is not busy.                                                       *)
(***************************************************************************)
WaitersWake ==
  \A t \in Threads : th[t].event # 0 => obj[th[t].event].page.busy

(***************************************************************************)
(* A mapping that can be written is of the page of the entry's own object, *)
(* which the entry does not have to copy first; and if that object has a   *)
(* copy object, the copy has the data already.                             *)
(***************************************************************************)
WritersAlone ==
  hole = {} => \A e \in Entries :
    LET o == pmap[e].page IN
    entry[e].mapped /\ pmap[e].write =>
      /\ o = entry[e].obj /\ ~entry[e].needs_copy
      /\ obj[o].page.kind = "real"
      /\ obj[o].copy # 0 => HasPage(obj[o].copy) \/ obj[obj[o].copy].disk # Nothing
=============================================================================
