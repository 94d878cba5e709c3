-------------------------- MODULE RWLockRefinement --------------------------
(***************************************************************************)
(* The proof that the complex lock implements RWLockAbstract: under the    *)
(* inductive invariant each step is an abstract step or a stutter.         *)
(***************************************************************************)
EXTENDS RWLockProofs

(* The initial state is an abstract initial state. *)
LEMMA InitRefines == Init => Abs!Init
BY DEF Init, Abs!Init, Upgraders

USE DEF Running, Awake, Owner, Holds, Goto, GainRead, GainWrite, ReadBecomesWrite,
        WriteBecomesRead, flags, counts, holds,
        Abs!Others, Abs!NoOtherWriter, Abs!NoOtherHolder, Upgraders

(* What the invariant says of pending upgrades. *)
LEMMA NoUpgraders == ASSUME IInv, ~want_upgrade PROVE Upgraders = {}
BY DEF IInv, UpgradeBit, BehindUpgrade

(* Taking a read hold. *)
LEMMA ReadRefines ==
  ASSUME IInv, NEW t \in Threads,
         ReadAgain(t) \/ AdmitReader(t) \/ lock_try_read(t)
  PROVE  Abs!Read(t)
<1>1. /\ \A u \in Threads \ {t} : nwrite[u] = 0
      /\ Upgraders = {} \/ nread[t] > 0
  BY NoUpgraders DEF ReadAgain, AdmitReader, lock_try_read, ReadersBarred, MayRead,
     IInv, TypeOK, Exclusion, Discipline, WriteBit, BehindWrite
<1>2. Upgraders' = Upgraders
  BY DEF ReadAgain, AdmitReader, lock_try_read, IInv, TypeOK
<1> QED
  BY <1>1, <1>2 DEF Abs!Read, ReadAgain, AdmitReader, lock_try_read

(* Taking a write hold other than by an upgrade. *)
LEMMA WriteRefines ==
  ASSUME IInv, NEW t \in Threads,
         \/ WriteAgain(t) \/ Drained(t) \/ lock_try_write(t)
         \/ TakeWriteBit(t) /\ ~NotDrained
  PROVE  Abs!Write(t)
<1>1. Upgraders = {}
  BY NoUpgraders DEF WriteAgain, Drained, lock_try_write, TakeWriteBit, NotDrained,
     MayWrite, IInv, Discipline
<1>2. \A u \in Threads \ {t} : nread[u] = 0 /\ nwrite[u] = 0
  BY ReadCount, SMTT(30), ZenonT(30) DEF WriteAgain, Drained, lock_try_write, TakeWriteBit, NotDrained,
     BitTaken, MayWrite, IInv, TypeOK, Exclusion, Discipline, WriteBit, BehindWrite
<1>3. Upgraders' = Upgraders
  BY DEF WriteAgain, Drained, lock_try_write, TakeWriteBit, IInv, TypeOK
<1> QED
  BY <1>1, <1>2, <1>3 DEF Abs!Write, WriteAgain, Drained, lock_try_write,
     TakeWriteBit, NotDrained

(* Giving a hold back. *)
LEMMA DoneRefines ==
  ASSUME IInv, NEW t \in Threads, lock_done(t)
  PROVE  Abs!ReleaseRead(t) \/ Abs!ReleaseWrite(t)
BY DEF lock_done, MayRelease, IInv, TypeOK, Abs!ReleaseRead, Abs!ReleaseWrite

(* The upgrade routines. *)
LEMMA UpgradeRefines ==
  ASSUME IInv, NEW t \in Threads, NEW loop \in {"upgrade", "tryupgr"},
         OwnerUpgrade(t) \/ WinUpgrade(t, loop) \/ LoseUpgrade(t)
  PROVE  Abs!Upgrade(t) \/ Abs!BeginUpgrade(t) \/ Abs!ReleaseRead(t)
<1>1. CASE OwnerUpgrade(t)
  <2>1. Upgraders = {} /\ Upgraders' = {}
    BY <1>1, NoUpgraders DEF OwnerUpgrade, MayUpgrade, IInv, Discipline
  <2>2. \A u \in Threads \ {t} : nread[u] = 0 /\ nwrite[u] = 0
    BY <1>1 DEF OwnerUpgrade, MayUpgrade, IInv, Exclusion
  <2> QED
    BY <1>1, <2>1, <2>2 DEF OwnerUpgrade, MayUpgrade, Abs!Upgrade
<1>2. CASE WinUpgrade(t, loop)
  <2>1. Upgraders = {} /\ nread[t] = 1 /\ nwrite[t] = 0
    BY <1>2, NoUpgraders DEF WinUpgrade, MayUpgrade, IInv, TypeOK
  <2>2. \A u \in Threads \ {t} : nwrite[u] = 0
    BY <2>1 DEF IInv, TypeOK, Exclusion
  <2>3. CASE read_count' # 0
    <3>1. Upgraders' = {t}
      BY <1>2, <2>1, <2>3 DEF WinUpgrade, IInv, TypeOK
    <3> QED
      BY <1>2, <2>1, <2>2, <2>3, <3>1 DEF WinUpgrade, Abs!BeginUpgrade
  <2>4. CASE read_count' = 0
    <3>1. \A u \in Threads \ {t} : nread[u] = 0
      <4>1. IInv'
        BY <1>2, WinUpgradeIInv
      <4>2. \A u \in Threads : nread'[u] = 0
        BY <2>4, <4>1, HoldsZero DEF IInv, TypeOK, FieldsMatchHolds, ReadsCounted
      <4> QED
        BY <1>2, <2>4, <4>2 DEF WinUpgrade, IInv, TypeOK
    <3>2. ReadBecomesWrite(t) /\ Upgraders' = Upgraders
      BY <1>2, <2>4, ZenonT(30) DEF WinUpgrade
    <3> QED
      BY <2>1, <2>2, <3>1, <3>2 DEF Abs!Upgrade
  <2> QED
    BY <2>3, <2>4
<1>3. CASE LoseUpgrade(t)
  BY <1>3 DEF LoseUpgrade, MayUpgrade, Abs!ReleaseRead
<1> QED
  BY <1>1, <1>2, <1>3

(* The end of an upgrade that had to wait. *)
LEMMA UpgradedRefines ==
  ASSUME IInv, NEW t \in Threads, Upgraded(t)
  PROVE  Abs!EndUpgrade(t)
<1>1. Upgraders = {t} /\ want_upgrade
  BY DEF Upgraded, IInv, UpgradeBit, BehindUpgrade
<1>2. \A u \in Threads \ {t} : nread[u] = 0 /\ nwrite[u] = 0
  BY <1>1, ReadCount DEF Upgraded, ReadersLeft, IInv, TypeOK, UpgradeBit, BehindUpgrade
<1>3. Upgraders' = {}
  BY <1>1 DEF Upgraded, IInv, TypeOK
<1> QED
  BY <1>1, <1>2, <1>3 DEF Upgraded, Abs!EndUpgrade

(* lock_write_to_read. *)
LEMMA DowngradeRefines ==
  ASSUME IInv, NEW t \in Threads, lock_write_to_read(t)
  PROVE  Abs!Downgrade(t)
BY DEF lock_write_to_read, Abs!Downgrade

(* The steps that only wait, sleep or mark recursion. *)
LEMMA StutterRefines ==
  ASSUME IInv, NEW t \in Threads,
         \/ \E at \in {"write", "read"} : Running(t) /\ EnterLoop(t, at)
         \/ TakeWriteBit(t) /\ NotDrained
         \/ Sleep(t) \/ lock_set_recursive(t) \/ lock_clear_recursive(t)
  PROVE  UNCHANGED Abs!absVars
<1>1. UNCHANGED <<nread, nwrite>>
  BY DEF EnterLoop, TakeWriteBit, NotDrained, Sleep, lock_set_recursive, lock_clear_recursive
<1>2. Upgraders' = Upgraders
  BY DEF EnterLoop, TakeWriteBit, NotDrained, Sleep, lock_set_recursive,
     lock_clear_recursive, IInv, TypeOK
<1> QED
  BY <1>1, <1>2 DEF Abs!absVars

(* Every step of the lock package is an abstract step or a stutter. *)
LEMMA NextRefines == IInv /\ [Next]_vars => [Abs!Next]_(Abs!absVars)
<1> SUFFICES ASSUME IInv, [Next]_vars PROVE Abs!Next \/ UNCHANGED Abs!absVars
  OBVIOUS
<1>1. ASSUME NEW t \in Threads, Inside(t) PROVE Abs!Next \/ UNCHANGED Abs!absVars
  BY <1>1, ReadRefines, WriteRefines, UpgradedRefines, StutterRefines DEF Inside, Abs!Next
<1>2. ASSUME NEW t \in Threads, lock_write(t) \/ lock_read(t)
      PROVE  Abs!Next \/ UNCHANGED Abs!absVars
  <2>1. CASE WriteAgain(t) \/ ReadAgain(t)
    BY <2>1, ReadRefines, WriteRefines DEF Abs!Next
  <2>2. CASE \E at \in {"write", "read"} : Running(t) /\ EnterLoop(t, at)
    BY <2>2, StutterRefines
  <2> QED
    BY <1>2, <2>1, <2>2 DEF lock_write, lock_read, MayWrite, MayRead
<1>3. ASSUME NEW t \in Threads, lock_read_to_write(t) \/ lock_try_read_to_write(t)
      PROVE  Abs!Next
  <2>1. \E loop \in {"upgrade", "tryupgr"} :
          OwnerUpgrade(t) \/ WinUpgrade(t, loop) \/ LoseUpgrade(t)
    BY <1>3 DEF lock_read_to_write, lock_try_read_to_write
  <2>2. Abs!Upgrade(t) \/ Abs!BeginUpgrade(t) \/ Abs!ReleaseRead(t)
    BY <2>1, UpgradeRefines
  <2> QED
    BY <2>2 DEF Abs!Next
<1>4. ASSUME NEW t \in Threads, Call(t) PROVE Abs!Next \/ UNCHANGED Abs!absVars
  <2>1. CASE lock_done(t) \/ lock_write_to_read(t)
    BY <2>1, DoneRefines, DowngradeRefines DEF Abs!Next
  <2>2. CASE lock_try_write(t) \/ lock_try_read(t)
    BY <2>2, ReadRefines, WriteRefines DEF Abs!Next
  <2>3. CASE lock_set_recursive(t) \/ lock_clear_recursive(t)
    BY <2>3, StutterRefines
  <2> QED
    BY <1>2, <1>3, <1>4, <2>1, <2>2, <2>3 DEF Call
<1>5. ASSUME NEW b \in BOOLEAN, lock_sleepable(b) PROVE UNCHANGED Abs!absVars
  BY <1>5 DEF lock_sleepable, Abs!absVars
<1>6. CASE UNCHANGED vars
  BY <1>6 DEF vars, Abs!absVars
<1> QED
  BY <1>1, <1>4, <1>5, <1>6 DEF Next

(* The complex lock implements its abstract specification. *)
THEOREM Refinement == Spec => Implements
<1>1. Init => Abs!Init
  BY InitRefines
<1>2. IInv /\ [Next]_vars => [Abs!Next]_(Abs!absVars)
  BY NextRefines
<1> QED
  BY <1>1, <1>2, Invariance, PTL DEF Spec, Implements, Abs!Spec

=============================================================================
