------------------------------- MODULE RWLock -------------------------------
(***************************************************************************)
(* The complex (reader/writer, upgradable, recursive, sleeping) lock of    *)
(* kern/lock.c, built for more than one processor (NCPUS > 1).             *)
(*                                                                         *)
(* Every section of the code between simple_lock(&l->interlock) and the    *)
(* next release of the interlock is one step.  A thread whose loop         *)
(* condition holds lets go of the interlock, spins lock_wait_time times    *)
(* and looks again (no state changes, so the spin is a stuttering step),   *)
(* or sleeps on the event l: thread_sleep asserts the wait before it       *)
(* releases the interlock, so no wakeup can fall in between.               *)
(*                                                                         *)
(* nread and nwrite are history variables: the read and write holds that   *)
(* the returned calls have given each thread.  The code never reads them;  *)
(* the properties compare them with what the lock's own fields say.        *)
(***************************************************************************)
EXTENDS Integers, FiniteSets

CONSTANTS
  Threads,    \* the threads that use this lock
  NoThread,   \* the value (struct thread * )-1 of l->thread
  MaxHolds    \* bound on the nested holds of one thread

(* The number of values of the two counters. *)
ReadCounts == 2^16
Depths     == 2^12

(***************************************************************************)
(* read_count is a field of 16 bits and recursion_depth one of 12 bits     *)
(* (kern/lock.h); the assumption keeps both from wrapping around.          *)
(***************************************************************************)
ASSUME RWLockAssumption ==
  /\ IsFiniteSet(Threads)
  /\ NoThread \notin Threads
  /\ MaxHolds \in Nat \ {0}
  /\ Cardinality(Threads) * MaxHolds < ReadCounts
  /\ MaxHolds < Depths

VARIABLES
  want_write, want_upgrade, waiting, can_sleep,  \* the flags of struct lock
  read_count, recursion_depth,                   \* its counters
  thread,                                        \* the recursive owner
  pc,       \* where each thread stands inside the lock package
  asleep,   \* the threads sleeping on the event l
  nread, nwrite

flags  == <<want_write, want_upgrade, can_sleep>>
counts == <<read_count, recursion_depth, thread>>
holds  == <<nread, nwrite>>
vars   == <<want_write, want_upgrade, waiting, can_sleep, read_count,
            recursion_depth, thread, pc, asleep, nread, nwrite>>

(***************************************************************************)
(* idle     not inside a lock routine (it may hold the lock)               *)
(* write    lock_write, first loop: waiting for the want_write bit         *)
(* drain    lock_write, second loop: has the bit, waiting for readers      *)
(* read     lock_read, waiting for writers and upgrades                    *)
(* upgrade  lock_read_to_write, has want_upgrade, waiting for readers      *)
(* tryupgr  the same loop in lock_try_read_to_write                        *)
(***************************************************************************)
PC == {"idle", "write", "drain", "read", "upgrade", "tryupgr"}

TypeOK ==
  /\ want_write \in BOOLEAN
  /\ want_upgrade \in BOOLEAN
  /\ waiting \in BOOLEAN
  /\ can_sleep \in BOOLEAN
  /\ read_count \in Nat /\ read_count < ReadCounts
  /\ recursion_depth \in Nat /\ recursion_depth < Depths
  /\ thread \in Threads \cup {NoThread}
  /\ pc \in [Threads -> PC]
  /\ asleep \in SUBSET Threads
  /\ nread \in [Threads -> 0..MaxHolds]
  /\ nwrite \in [Threads -> 0..MaxHolds]

(***************************************************************************)
(* lock_init leaves the lock free; its caller chooses can_sleep.           *)
(***************************************************************************)
Init ==
  /\ want_write = FALSE
  /\ want_upgrade = FALSE
  /\ waiting = FALSE
  /\ can_sleep \in BOOLEAN
  /\ read_count = 0
  /\ recursion_depth = 0
  /\ thread = NoThread
  /\ pc = [t \in Threads |-> "idle"]
  /\ asleep = {}
  /\ nread = [t \in Threads |-> 0]
  /\ nwrite = [t \in Threads |-> 0]

-----------------------------------------------------------------------------
Holds(t)   == nread[t] + nwrite[t]
Running(t) == pc[t] = "idle"
Awake(t, at) == pc[t] = at /\ t \notin asleep
Owner(t)   == thread = t

Goto(t, at) == pc' = [pc EXCEPT ![t] = at]

GainRead(t)  == nread' = [nread EXCEPT ![t] = @ + 1] /\ UNCHANGED nwrite
GainWrite(t) == nwrite' = [nwrite EXCEPT ![t] = @ + 1] /\ UNCHANGED nread
ReadBecomesWrite(t) == /\ nread' = [nread EXCEPT ![t] = @ - 1]
                       /\ nwrite' = [nwrite EXCEPT ![t] = @ + 1]
WriteBecomesRead(t) == /\ nread' = [nread EXCEPT ![t] = @ + 1]
                       /\ nwrite' = [nwrite EXCEPT ![t] = @ - 1]

(***************************************************************************)
(* if (l->waiting && cond) { l->waiting = FALSE; thread_wakeup(l); }       *)
(* thread_wakeup makes every thread that sleeps on the event runnable.     *)
(***************************************************************************)
MutWakeupIf(cond) ==
  IF waiting /\ cond
  THEN waiting' = FALSE /\ asleep' = asleep \ {CHOOSE t \in asleep : TRUE}
  ELSE UNCHANGED <<waiting, asleep>>

WakeupIf(cond) ==
  IF waiting /\ cond
  THEN waiting' = FALSE /\ asleep' = {}
  ELSE UNCHANGED <<waiting, asleep>>

(***************************************************************************)
(* What each waiting loop waits for, as a loop condition.                  *)
(***************************************************************************)
MutNotDrained    == read_count # 0
MutReadersBarred == want_write
MutReadersLeft   == read_count # 0 \/ want_write

BitTaken      == want_write
NotDrained    == read_count # 0 \/ want_upgrade
ReadersBarred == want_write \/ want_upgrade
ReadersLeft   == read_count # 0

LoopCondition(at) ==
  \/ at = "write" /\ BitTaken
  \/ at = "drain" /\ NotDrained
  \/ at = "read" /\ ReadersBarred
  \/ at \in {"upgrade", "tryupgr"} /\ ReadersLeft

(***************************************************************************)
(* The sleep branch of the loops.  lock_try_read_to_write sleeps without   *)
(* looking at can_sleep.                                                   *)
(***************************************************************************)
Sleep(t) ==
  /\ t \notin asleep
  /\ LoopCondition(pc[t])
  /\ can_sleep \/ pc[t] = "tryupgr"
  /\ waiting' = TRUE
  /\ asleep' = asleep \cup {t}
  /\ UNCHANGED <<flags, counts, pc, holds>>

-----------------------------------------------------------------------------
(***************************************************************************)
(* Which calls the clients make.  A thread that holds nothing may take the *)
(* lock.  A thread that already holds it takes it again only as recursive  *)
(* owner, and asks for more than a read hold only while it has a write     *)
(* hold (vm_map_pageable and vm_fault_unwire: set recursive under the      *)
(* write lock, recursive reads, clear recursive, unlock).  The owner       *)
(* clears its recursion before it gives up its last hold.                  *)
(***************************************************************************)
MayRead(t)    == Running(t) /\ Holds(t) < MaxHolds
                 /\ (Holds(t) = 0 \/ Owner(t))
MayWrite(t)   == Running(t) /\ Holds(t) < MaxHolds
                 /\ (Holds(t) = 0 \/ (Owner(t) /\ nwrite[t] > 0))
MayUpgrade(t) == Running(t) /\ nread[t] > 0
                 /\ (Owner(t) => nwrite[t] > 0)
                 /\ (~Owner(t) => Holds(t) = 1)
MayRelease(t) == Running(t) /\ Holds(t) > 0
                 /\ (Holds(t) = 1 => ~Owner(t))

-----------------------------------------------------------------------------
(* A thread other than the recursive owner starts to wait in a loop. *)
EnterLoop(t, at) ==
  /\ ~Owner(t)
  /\ Goto(t, at)
  /\ UNCHANGED <<flags, waiting, counts, asleep, holds>>

(* lock_write.  The recursive owner nests at once. *)

WriteAgain(t) ==
  /\ MayWrite(t)
  /\ Owner(t)
  /\ recursion_depth' = recursion_depth + 1
  /\ GainWrite(t)
  /\ UNCHANGED <<flags, waiting, read_count, thread, pc, asleep>>

lock_write(t) ==
  WriteAgain(t) \/ (MayWrite(t) /\ EnterLoop(t, "write"))

(* The first loop ends; the second is looked at in the same section. *)
TakeWriteBit(t) ==
  /\ Awake(t, "write")
  /\ ~BitTaken
  /\ want_write' = TRUE
  /\ IF NotDrained
     THEN Goto(t, "drain") /\ UNCHANGED holds
     ELSE Goto(t, "idle") /\ GainWrite(t)
  /\ UNCHANGED <<want_upgrade, can_sleep, counts, waiting, asleep>>

Drained(t) ==
  /\ Awake(t, "drain")
  /\ ~NotDrained
  /\ Goto(t, "idle")
  /\ GainWrite(t)
  /\ UNCHANGED <<flags, counts, waiting, asleep>>

(* lock_read.  The recursive owner passes waiting writers and upgrades. *)

ReadAgain(t) ==
  /\ MayRead(t)
  /\ Owner(t)
  /\ read_count' = read_count + 1
  /\ GainRead(t)
  /\ UNCHANGED <<flags, waiting, recursion_depth, thread, pc, asleep>>

lock_read(t) ==
  ReadAgain(t) \/ (MayRead(t) /\ EnterLoop(t, "read"))

AdmitReader(t) ==
  /\ Awake(t, "read")
  /\ ~ReadersBarred
  /\ read_count' = read_count + 1
  /\ Goto(t, "idle")
  /\ GainRead(t)
  /\ UNCHANGED <<flags, recursion_depth, thread, waiting, asleep>>

MutDropWrite ==
  \/ /\ want_upgrade
     /\ want_upgrade' = FALSE
     /\ UNCHANGED <<recursion_depth, want_write>>
  \/ /\ ~want_upgrade
     /\ want_write' = FALSE
     /\ UNCHANGED <<recursion_depth, want_upgrade>>

(***************************************************************************)
(* One write hold is taken off the fields: a nested one, else the one that *)
(* came from an upgrade, else the one that came from lock_write.           *)
(***************************************************************************)
DropWrite ==
  \/ /\ recursion_depth # 0
     /\ recursion_depth' = recursion_depth - 1
     /\ UNCHANGED <<want_upgrade, want_write>>
  \/ /\ recursion_depth = 0 /\ want_upgrade
     /\ want_upgrade' = FALSE
     /\ UNCHANGED <<recursion_depth, want_write>>
  \/ /\ recursion_depth = 0 /\ ~want_upgrade
     /\ want_write' = FALSE
     /\ UNCHANGED <<recursion_depth, want_upgrade>>

(***************************************************************************)
(* lock_done finds out from the fields which kind of hold is given back.   *)
(***************************************************************************)
lock_done(t) ==
  /\ MayRelease(t)
  /\ \/ /\ read_count # 0
        /\ read_count' = read_count - 1
        /\ UNCHANGED <<recursion_depth, want_upgrade, want_write>>
     \/ read_count = 0 /\ DropWrite /\ UNCHANGED read_count
  /\ WakeupIf(read_count' = 0)
  /\ IF nread[t] > 0
     THEN nread' = [nread EXCEPT ![t] = @ - 1] /\ UNCHANGED nwrite
     ELSE nwrite' = [nwrite EXCEPT ![t] = @ - 1] /\ UNCHANGED nread
  /\ UNCHANGED <<can_sleep, thread, pc>>

-----------------------------------------------------------------------------
(***************************************************************************)
(* The two upgrade routines.  Either gives up the caller's read hold; the  *)
(* recursive owner nests a write hold instead.                             *)
(***************************************************************************)
OwnerUpgrade(t) ==
  /\ MayUpgrade(t)
  /\ Owner(t)
  /\ read_count' = read_count - 1
  /\ recursion_depth' = recursion_depth + 1
  /\ ReadBecomesWrite(t)
  /\ UNCHANGED <<flags, waiting, thread, pc, asleep>>

(* The caller sets want_upgrade and, if readers are left, enters loop. *)
WinUpgrade(t, loop) ==
  /\ MayUpgrade(t)
  /\ ~Owner(t)
  /\ ~want_upgrade
  /\ read_count' = read_count - 1
  /\ want_upgrade' = TRUE
  /\ \/ /\ read_count' # 0
        /\ Goto(t, loop)
        /\ nread' = [nread EXCEPT ![t] = @ - 1]
        /\ UNCHANGED nwrite
     \/ /\ read_count' = 0
        /\ ReadBecomesWrite(t)
        /\ UNCHANGED pc
  /\ UNCHANGED <<want_write, can_sleep, waiting, recursion_depth, thread, asleep>>

(* Another upgrade is pending: the caller is left with nothing. *)
LoseUpgrade(t) ==
  /\ MayUpgrade(t)
  /\ ~Owner(t)
  /\ want_upgrade
  /\ read_count' = read_count - 1
  /\ nread' = [nread EXCEPT ![t] = @ - 1]
  /\ WakeupIf(read_count' = 0)
  /\ UNCHANGED <<flags, recursion_depth, thread, pc, nwrite>>

lock_read_to_write(t) ==
  OwnerUpgrade(t) \/ WinUpgrade(t, "upgrade") \/ LoseUpgrade(t)

(* A try that finds another upgrade pending keeps the read hold. *)
lock_try_read_to_write(t) ==
  OwnerUpgrade(t) \/ WinUpgrade(t, "tryupgr")

(* The loop of either upgrade routine ends. *)
Upgraded(t) ==
  /\ Awake(t, "upgrade") \/ Awake(t, "tryupgr")
  /\ ~ReadersLeft
  /\ Goto(t, "idle")
  /\ GainWrite(t)
  /\ UNCHANGED <<flags, counts, waiting, asleep>>

lock_write_to_read(t) ==
  /\ Running(t)
  /\ nwrite[t] > 0
  /\ read_count' = read_count + 1
  /\ DropWrite
  /\ WakeupIf(TRUE)
  /\ WriteBecomesRead(t)
  /\ UNCHANGED <<can_sleep, thread, pc>>

-----------------------------------------------------------------------------
(* The try routines; a failed try changes nothing. *)

MutTryWrite(t) ==
  /\ MayWrite(t)
  /\ ~want_write /\ ~want_upgrade /\ read_count = 0
  /\ GainWrite(t)
  /\ UNCHANGED <<flags, waiting, counts, pc, asleep>>

lock_try_write(t) ==
  \/ WriteAgain(t)
  \/ /\ MayWrite(t)
     /\ ~Owner(t)
     /\ ~want_write /\ ~want_upgrade /\ read_count = 0
     /\ want_write' = TRUE
     /\ GainWrite(t)
     /\ UNCHANGED <<want_upgrade, can_sleep, waiting, counts, pc, asleep>>

lock_try_read(t) ==
  \/ ReadAgain(t)
  \/ /\ MayRead(t)
     /\ ~Owner(t)
     /\ ~ReadersBarred
     /\ read_count' = read_count + 1
     /\ GainRead(t)
     /\ UNCHANGED <<flags, waiting, recursion_depth, thread, pc, asleep>>

-----------------------------------------------------------------------------
(***************************************************************************)
(* Recursion.  Only a thread that took the lock by lock_write, not by an   *)
(* upgrade, asks for it; lock_set_recursive panics when it finds           *)
(* want_write unset (see NoPanic).  The owner gives it up when it is back  *)
(* to one hold.                                                            *)
(***************************************************************************)
SetsRecursive(t) == Running(t) /\ nwrite[t] > 0 /\ ~want_upgrade

lock_set_recursive(t) ==
  /\ SetsRecursive(t)
  /\ want_write
  /\ thread' = t
  /\ UNCHANGED <<flags, waiting, read_count, recursion_depth, pc, asleep, holds>>

lock_clear_recursive(t) ==
  /\ Running(t)
  /\ Owner(t)
  /\ Holds(t) = 1
  /\ thread' = IF recursion_depth = 0 THEN NoThread ELSE thread
  /\ UNCHANGED <<flags, waiting, read_count, recursion_depth, pc, asleep, holds>>

lock_sleepable(b) ==
  /\ can_sleep # b
  /\ can_sleep' = b
  /\ UNCHANGED <<want_write, want_upgrade, waiting, counts, pc, asleep, holds>>

-----------------------------------------------------------------------------
(* The steps of a thread inside a lock routine, and its calls. *)
Inside(t) == TakeWriteBit(t) \/ Drained(t) \/ AdmitReader(t) \/ Upgraded(t)
             \/ Sleep(t)

Call(t) ==
  \/ lock_write(t) \/ lock_read(t) \/ lock_done(t)
  \/ lock_read_to_write(t) \/ lock_write_to_read(t)
  \/ lock_try_write(t) \/ lock_try_read(t) \/ lock_try_read_to_write(t)
  \/ lock_set_recursive(t) \/ lock_clear_recursive(t)

Next ==
  \/ \E t \in Threads : Inside(t) \/ Call(t)
  \/ \E b \in BOOLEAN : lock_sleepable(b)

Spec == Init /\ [][Next]_vars

-----------------------------------------------------------------------------
(***************************************************************************)
(* Safety.                                                                 *)
(***************************************************************************)

(* Exclusion: a thread given a write hold by lock_write, an upgrade or a   *)
(* try routine is the only thread that holds the lock in any way.          *)
Exclusion ==
  \A t \in Threads : nwrite[t] > 0 =>
    \A u \in Threads \ {t} : nread[u] = 0 /\ nwrite[u] = 0

(* The read holds counted by f, one element for each. *)
HoldsOf(f) == {p \in Threads \X (1..MaxHolds) : p[2] <= f[p[1]]}

(* FieldsMatchHolds: lock_done guesses from read_count and recursion_depth *)
(* which kind of hold its caller gives back.  The guess is right because   *)
(* read_count is the number of read holds of all threads and               *)
(* recursion_depth the number of write holds beyond the first.             *)
ReadsCounted == read_count = Cardinality(HoldsOf(nread))
DepthCounted ==
  /\ \A t \in Threads : nwrite[t] > 0 => recursion_depth = nwrite[t] - 1
  /\ (\A t \in Threads : nwrite[t] = 0) => recursion_depth = 0
FieldsMatchHolds == ReadsCounted /\ DepthCounted

(* NoLostWakeup: a thread sleeping on the lock still has to wait.  Every   *)
(* routine that makes a loop condition false wakes the sleepers in the     *)
(* same interlock section, and none forgets that someone is waiting.       *)
NoLostWakeup ==
  /\ asleep # {} => waiting
  /\ \A t \in asleep : LoopCondition(pc[t])

(* NoPanic: the panic of lock_set_recursive ("don't have write lock") is   *)
(* not reached by a thread that took the lock with lock_write.             *)
NoPanic == \A t \in Threads : SetsRecursive(t) => want_write

(***************************************************************************)
(* The lock implements RWLockAbstract.                                     *)
(***************************************************************************)
Upgraders == {t \in Threads : pc[t] \in {"upgrade", "tryupgr"}}

Abs == INSTANCE RWLockAbstract WITH upgrading <- Upgraders

(* Implements: every step of the lock package is a step the abstract lock  *)
(* allows; in particular nobody is admitted between the two halves of      *)
(* lock_read_to_write, and a failed upgrade only loses the read hold.      *)
Implements == Abs!Spec

-----------------------------------------------------------------------------
(***************************************************************************)
(* Liveness.  A thread inside a lock routine keeps running (WF: it is      *)
(* runnable and the interlock is held for a bounded time).  A client       *)
(* always unwinds: it does not stop with the lock held (WF), and when it   *)
(* comes back again and again to the point where it could clear its        *)
(* recursion or drop its k-th hold, it does so in the end (SF).            *)
(***************************************************************************)
Unwinds(t, k) == Holds(t) = k /\ lock_done(t)

Fairness ==
  \A t \in Threads : /\ WF_vars(Inside(t))
                     /\ WF_vars(lock_done(t))
                     /\ SF_vars(lock_clear_recursive(t))
                     /\ \A k \in 1..(MaxHolds - 1) : SF_vars(Unwinds(t, k))

FairSpec == Spec /\ Fairness

(* SleepersWake: no thread sleeps on the lock for ever.                    *)
SleepersWake == \A t \in Threads : t \in asleep ~> t \notin asleep

(* UpgradeCompletes: an upgrade that won want_upgrade gets the lock, also  *)
(* when a writer already has want_write and waits too.                     *)
UpgradeCompletes == \A t \in Threads : t \in Upgraders ~> nwrite[t] > 0

=============================================================================
