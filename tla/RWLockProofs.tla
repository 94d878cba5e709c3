---------------------------- MODULE RWLockProofs ----------------------------
(***************************************************************************)
(* Proofs about RWLock: the safety invariants and the refinement of        *)
(* RWLockAbstract, for every set of threads and every nesting bound.       *)
(***************************************************************************)
EXTENDS RWLock, FiniteSetTheorems, TLAPS

(***************************************************************************)
(* The strengthening.  WriteBit and UpgradeBit say who is behind the two   *)
(* flags: at most one thread each.  A write hold is behind want_upgrade    *)
(* while that is set (it came from an upgrade), else behind want_write.    *)
(***************************************************************************)
BehindWrite(t)   == pc[t] = "drain" \/ (nwrite[t] > 0 /\ ~want_upgrade)
BehindUpgrade(t) == pc[t] \in {"upgrade", "tryupgr"} \/ (nwrite[t] > 0 /\ want_upgrade)

WriteBit ==
  \A t \in Threads : BehindWrite(t) =>
    /\ want_write
    /\ \A u \in Threads : BehindWrite(u) => u = t

UpgradeBit ==
  \A t \in Threads : BehindUpgrade(t) =>
    /\ want_upgrade
    /\ \A u \in Threads : BehindUpgrade(u) => u = t

(* What the client discipline and the loops guarantee of one thread. *)
Discipline ==
  \A t \in Threads :
    /\ pc[t] # "idle" => nread[t] = 0 /\ nwrite[t] = 0
    /\ thread = t => pc[t] = "idle" /\ nread[t] + nwrite[t] > 0
    /\ thread = t /\ nwrite[t] > 0 => ~want_upgrade
    /\ nread[t] + nwrite[t] > 1 => thread = t
    /\ nread[t] + nwrite[t] <= MaxHolds

IInv == /\ TypeOK
        /\ Exclusion
        /\ FieldsMatchHolds
        /\ NoLostWakeup
        /\ WriteBit
        /\ UpgradeBit
        /\ Discipline

-----------------------------------------------------------------------------
(***************************************************************************)
(* Counting the read holds.                                                *)
(***************************************************************************)

(* The numbers of values of the two fields are natural numbers. *)
LEMMA Widths == ReadCounts \in Nat /\ Depths \in Nat
BY SMTT(90) DEF ReadCounts, Depths

(* The read holds are finitely many, no more than the nesting bound allows *)
(* (so the 16 bits of read_count are enough).                              *)
LEMMA HoldsFinite ==
  ASSUME NEW f
  PROVE  /\ IsFiniteSet(HoldsOf(f))
         /\ Cardinality(HoldsOf(f)) \in Nat
         /\ Cardinality(HoldsOf(f)) < ReadCounts
<1>1. IsFiniteSet(1..MaxHolds) /\ Cardinality(1..MaxHolds) = MaxHolds
  BY FS_Interval, RWLockAssumption
<1>2. /\ IsFiniteSet(Threads \X (1..MaxHolds))
      /\ Cardinality(Threads \X (1..MaxHolds)) = Cardinality(Threads) * MaxHolds
  BY <1>1, FS_Product, RWLockAssumption, ZenonT(30)
<1>3. HoldsOf(f) \in SUBSET (Threads \X (1..MaxHolds))
  BY DEF HoldsOf
<1>4. /\ IsFiniteSet(HoldsOf(f))
      /\ Cardinality(HoldsOf(f)) <= Cardinality(Threads) * MaxHolds
  BY <1>2, <1>3, FS_Subset
<1>5. Cardinality(Threads) \in Nat /\ Cardinality(HoldsOf(f)) \in Nat
  BY <1>4, FS_CardinalityType, RWLockAssumption
<1>6. Cardinality(Threads) * MaxHolds \in Nat
  BY <1>5, RWLockAssumption
<1> QED
  BY <1>4, <1>5, <1>6, Widths, RWLockAssumption

(* One more read hold of one thread is one more element. *)
LEMMA HoldsUp ==
  ASSUME NEW f \in [Threads -> 0..MaxHolds], NEW g \in [Threads -> 0..MaxHolds],
         NEW t \in Threads,
         g[t] = f[t] + 1, \A u \in Threads \ {t} : g[u] = f[u]
  PROVE  Cardinality(HoldsOf(g)) = Cardinality(HoldsOf(f)) + 1
<1> DEFINE x == <<t, g[t]>>
<1>1. x \notin HoldsOf(f) /\ HoldsOf(g) = HoldsOf(f) \cup {x}
  BY RWLockAssumption DEF HoldsOf
<1>2. IsFiniteSet(HoldsOf(f))
  BY HoldsFinite
<1> HIDE DEF x
<1>3. Cardinality(HoldsOf(f) \cup {x}) = Cardinality(HoldsOf(f)) + 1
  BY <1>1, <1>2, FS_AddElement
<1> QED
  BY <1>1, <1>3

(* The count is zero exactly when no thread has a read hold. *)
LEMMA HoldsZero ==
  ASSUME NEW f \in [Threads -> 0..MaxHolds]
  PROVE  Cardinality(HoldsOf(f)) = 0 <=> \A t \in Threads : f[t] = 0
<1>1. ASSUME NEW t \in Threads, f[t] > 0 PROVE <<t, f[t]>> \in HoldsOf(f)
  BY <1>1, RWLockAssumption DEF HoldsOf
<1>2. HoldsOf(f) = {} <=> \A t \in Threads : f[t] = 0
  <2>1. ASSUME HoldsOf(f) = {}, NEW t \in Threads PROVE f[t] = 0
    BY <1>1, <2>1, RWLockAssumption
  <2>2. ASSUME \A t \in Threads : f[t] = 0 PROVE HoldsOf(f) = {}
    BY <2>2, RWLockAssumption DEF HoldsOf
  <2> QED
    BY <2>1, <2>2
<1> QED
  BY <1>2, HoldsFinite, FS_EmptySet

(* The nesting bound keeps recursion_depth within its 12 bits. *)
LEMMA DepthFits ==
  ASSUME NEW d, NEW w \in [Threads -> 0..MaxHolds],
         \A t \in Threads : w[t] > 0 => d = w[t] - 1,
         (\A t \in Threads : w[t] = 0) => d = 0
  PROVE  d \in Nat /\ d < Depths
<1>1. CASE \A t \in Threads : w[t] = 0
  BY <1>1, Widths, RWLockAssumption
<1>2. CASE \E t \in Threads : w[t] > 0
  BY <1>2, Widths, RWLockAssumption
<1> QED
  BY <1>1, <1>2, RWLockAssumption

-----------------------------------------------------------------------------
(* The initial state satisfies the inductive invariant. *)
LEMMA InitIInv == Init => IInv
<1> SUFFICES ASSUME Init PROVE IInv
  OBVIOUS
<1>1. Cardinality(HoldsOf(nread)) = 0
  BY HoldsZero, RWLockAssumption DEF Init
<1>2. TypeOK
  <2>1. pc \in [Threads -> PC]
    BY DEF Init, PC
  <2>2. /\ nread \in [Threads -> 0..MaxHolds]
        /\ nwrite \in [Threads -> 0..MaxHolds]
    BY RWLockAssumption DEF Init
  <2>3. read_count < ReadCounts /\ recursion_depth < Depths
    BY <1>1, HoldsFinite, Widths, RWLockAssumption DEF Init
  <2> QED
    BY <2>1, <2>2, <2>3, ZenonT(30) DEF Init, TypeOK
<1> QED
  BY <1>1, <1>2, RWLockAssumption
  DEF Init, IInv, Exclusion, FieldsMatchHolds, ReadsCounted, DepthCounted, NoLostWakeup, WriteBit,
      UpgradeBit, Discipline, BehindWrite, BehindUpgrade

(* What the invariant says of read_count. *)
LEMMA ReadCount ==
  ASSUME IInv
  PROVE  read_count = 0 <=> \A t \in Threads : nread[t] = 0
BY HoldsZero DEF IInv, TypeOK, FieldsMatchHolds, ReadsCounted

(* A step that changes the read holds of one thread by at most one, and    *)
(* read_count by as much, keeps the count right.                           *)
LEMMA CountReads ==
  ASSUME IInv, NEW t \in Threads,
         nread' \in [Threads -> 0..MaxHolds],
         \A u \in Threads \ {t} : nread'[u] = nread[u],
         \/ nread'[t] = nread[t] /\ read_count' = read_count
         \/ nread'[t] = nread[t] + 1 /\ read_count' = read_count + 1
         \/ nread'[t] = nread[t] - 1 /\ read_count' = read_count - 1
  PROVE  /\ ReadsCounted'
         /\ read_count' \in Nat /\ read_count' < ReadCounts
         /\ read_count' = 0 <=> \A u \in Threads : nread'[u] = 0
<1>1. /\ nread \in [Threads -> 0..MaxHolds]
      /\ read_count = Cardinality(HoldsOf(nread))
  BY DEF IInv, TypeOK, FieldsMatchHolds, ReadsCounted
<1>2. /\ Cardinality(HoldsOf(nread)) \in Nat
      /\ Cardinality(HoldsOf(nread')) \in Nat
      /\ Cardinality(HoldsOf(nread')) < ReadCounts
  BY HoldsFinite
<1>3. CASE nread'[t] = nread[t] /\ read_count' = read_count
  <2>1. nread' = nread
    BY <1>1, <1>3
  <2> QED
    BY <1>1, <1>2, <1>3, <2>1, HoldsZero DEF ReadsCounted
<1>4. CASE nread'[t] = nread[t] + 1 /\ read_count' = read_count + 1
  <2>1. Cardinality(HoldsOf(nread')) = Cardinality(HoldsOf(nread)) + 1
    BY <1>1, <1>4, HoldsUp
  <2> QED
    BY <1>1, <1>2, <1>4, <2>1, HoldsZero DEF ReadsCounted
<1>5. CASE nread'[t] = nread[t] - 1 /\ read_count' = read_count - 1
  <2>1. nread[t] = nread'[t] + 1 /\ \A u \in Threads \ {t} : nread[u] = nread'[u]
    BY <1>1, <1>5
  <2>2. Cardinality(HoldsOf(nread)) = Cardinality(HoldsOf(nread')) + 1
    BY <1>1, <2>1, HoldsUp
  <2> QED
    BY <1>1, <1>2, <1>5, <2>2, HoldsZero DEF ReadsCounted
<1> QED
  BY <1>3, <1>4, <1>5

-----------------------------------------------------------------------------
(***************************************************************************)
(* The steps. Each preserves the invariant.                                 *)
(***************************************************************************)
USE DEF Running, Awake, Owner, Holds, Goto, GainRead, GainWrite,
        ReadBecomesWrite, WriteBecomesRead, flags, counts, holds

(* WriteAgain preserves the invariant. *)
LEMMA WriteAgainIInv == ASSUME IInv, NEW t \in Threads, WriteAgain(t) PROVE IInv'
<1> USE RWLockAssumption DEF WriteAgain, MayWrite
<1>1. /\ nread' \in [Threads -> 0..MaxHolds]
      /\ nwrite' \in [Threads -> 0..MaxHolds]
      /\ pc' \in [Threads -> PC]
  BY SMTT(90) DEF IInv, TypeOK
<1>2. /\ ReadsCounted' /\ read_count' \in Nat /\ read_count' < ReadCounts
      /\ read_count' = 0 <=> \A u \in Threads : nread'[u] = 0
  BY CountReads DEF IInv, TypeOK
<1>3. Exclusion'
  BY SMTT(90) DEF IInv, Exclusion, Discipline
<1>4. DepthCounted'
  BY SMTT(90) DEF IInv, TypeOK, FieldsMatchHolds, DepthCounted, Discipline, WriteBit,
     BehindWrite
<1>5. recursion_depth' \in Nat /\ recursion_depth' < Depths
  BY <1>1, <1>4, DepthFits, ZenonT(30) DEF DepthCounted
<1>6. /\ want_write' \in BOOLEAN /\ want_upgrade' \in BOOLEAN
      /\ waiting' \in BOOLEAN /\ can_sleep' \in BOOLEAN
      /\ thread' \in Threads \cup {NoThread}
      /\ asleep' \in SUBSET Threads
  BY Zenon DEF IInv, TypeOK
<1>10. TypeOK'
  BY <1>1, <1>2, <1>5, <1>6 DEF TypeOK
<1>7. WriteBit' /\ UpgradeBit'
  BY SMTT(90) DEF IInv, Discipline, WriteBit, UpgradeBit, BehindWrite, BehindUpgrade
<1>8. NoLostWakeup'
  BY SMTT(90) DEF IInv, NoLostWakeup, LoopCondition, BitTaken, NotDrained,
     ReadersBarred, ReadersLeft
<1>9. Discipline'
  BY SMTT(90) DEF IInv, TypeOK, Discipline
<1> QED
  BY <1>2, <1>3, <1>4, <1>10, <1>7, <1>8, <1>9 DEF IInv, FieldsMatchHolds

(* EnterLoop preserves the invariant. *)
LEMMA EnterLoopIInv == ASSUME IInv, NEW t \in Threads, NEW at \in {"write", "read"}, Running(t), Holds(t) = 0, EnterLoop(t, at) PROVE IInv'
<1> USE RWLockAssumption DEF EnterLoop
<1>1. /\ nread' \in [Threads -> 0..MaxHolds]
      /\ nwrite' \in [Threads -> 0..MaxHolds]
      /\ pc' \in [Threads -> PC]
  BY SMTT(90) DEF IInv, TypeOK, PC
<1>2. /\ ReadsCounted' /\ read_count' \in Nat /\ read_count' < ReadCounts
      /\ read_count' = 0 <=> \A u \in Threads : nread'[u] = 0
  BY CountReads DEF IInv, TypeOK
<1>3. Exclusion'
  BY SMTT(90) DEF IInv, Exclusion
<1>4. DepthCounted'
  BY SMTT(90) DEF IInv, FieldsMatchHolds, DepthCounted
<1>5. recursion_depth' \in Nat /\ recursion_depth' < Depths
  BY <1>1, <1>4, DepthFits DEF DepthCounted
<1>6. /\ want_write' \in BOOLEAN /\ want_upgrade' \in BOOLEAN
      /\ waiting' \in BOOLEAN /\ can_sleep' \in BOOLEAN
      /\ thread' \in Threads \cup {NoThread}
      /\ asleep' \in SUBSET Threads
  BY Zenon DEF IInv, TypeOK
<1>10. TypeOK'
  BY <1>1, <1>2, <1>5, <1>6 DEF TypeOK
<1>7. WriteBit' /\ UpgradeBit'
  BY SMTT(90) DEF IInv, WriteBit, UpgradeBit, BehindWrite, BehindUpgrade
<1>8. NoLostWakeup'
  BY SMTT(90) DEF IInv, NoLostWakeup, LoopCondition, BitTaken, NotDrained,
     ReadersBarred, ReadersLeft
<1>9. Discipline'
  BY SMTT(90) DEF IInv, TypeOK, Discipline
<1> QED
  BY <1>2, <1>3, <1>4, <1>10, <1>7, <1>8, <1>9 DEF IInv, FieldsMatchHolds

(* TakeWriteBit preserves the invariant. *)
LEMMA TakeWriteBitIInv == ASSUME IInv, NEW t \in Threads, TakeWriteBit(t) PROVE IInv'
<1> USE RWLockAssumption DEF TakeWriteBit, BitTaken, NotDrained
<1>1. /\ nread' \in [Threads -> 0..MaxHolds]
      /\ nwrite' \in [Threads -> 0..MaxHolds]
      /\ pc' \in [Threads -> PC]
  BY ReadCount DEF IInv, TypeOK, Exclusion, FieldsMatchHolds, Discipline, PC
<1>2. /\ ReadsCounted' /\ read_count' \in Nat /\ read_count' < ReadCounts
      /\ read_count' = 0 <=> \A u \in Threads : nread'[u] = 0
  BY CountReads DEF IInv, TypeOK
<1>3. Exclusion'
  BY ReadCount DEF IInv, TypeOK, Exclusion, WriteBit, BehindWrite
<1>4. DepthCounted'
  BY SMTT(90) DEF IInv, TypeOK, Exclusion, FieldsMatchHolds, DepthCounted, WriteBit,
     BehindWrite
<1>5. recursion_depth' \in Nat /\ recursion_depth' < Depths
  BY <1>1, <1>4, DepthFits DEF DepthCounted
<1>6. /\ want_write' \in BOOLEAN /\ want_upgrade' \in BOOLEAN
      /\ waiting' \in BOOLEAN /\ can_sleep' \in BOOLEAN
      /\ thread' \in Threads \cup {NoThread}
      /\ asleep' \in SUBSET Threads
  BY Zenon DEF IInv, TypeOK
<1>10. TypeOK'
  BY <1>1, <1>2, <1>5, <1>6 DEF TypeOK
<1>7. WriteBit' /\ UpgradeBit'
  BY <1>2 DEF IInv, TypeOK, WriteBit, UpgradeBit, BehindWrite, BehindUpgrade
<1>8. NoLostWakeup'
  BY SMTT(90) DEF IInv, TypeOK, NoLostWakeup, LoopCondition, ReadersBarred, ReadersLeft
<1>9. Discipline'
  BY SMTT(90) DEF IInv, TypeOK, Discipline, FieldsMatchHolds, DepthCounted
<1> QED
  BY <1>2, <1>3, <1>4, <1>10, <1>7, <1>8, <1>9 DEF IInv, FieldsMatchHolds

(* Drained preserves the invariant. *)
LEMMA DrainedIInv == ASSUME IInv, NEW t \in Threads, Drained(t) PROVE IInv'
<1> USE RWLockAssumption DEF Drained, NotDrained
<1>0. /\ pc[t] = "drain" /\ nread[t] = 0 /\ nwrite[t] = 0 /\ thread # t
  BY SMTT(90) DEF IInv, Discipline
<1>1. /\ nread' \in [Threads -> 0..MaxHolds]
      /\ nwrite' \in [Threads -> 0..MaxHolds]
      /\ pc' \in [Threads -> PC]
  BY SMTT(90) DEF IInv, TypeOK, Discipline, PC
<1>2. /\ ReadsCounted' /\ read_count' \in Nat /\ read_count' < ReadCounts
      /\ read_count' = 0 <=> \A u \in Threads : nread'[u] = 0
  BY CountReads DEF IInv, TypeOK
<1>3. Exclusion'
  BY <1>2 DEF IInv, TypeOK, Exclusion, WriteBit, BehindWrite
<1>4. DepthCounted'
  BY ReadCount DEF IInv, TypeOK, FieldsMatchHolds, DepthCounted, Discipline,
     WriteBit, UpgradeBit, BehindWrite
<1>5. recursion_depth' \in Nat /\ recursion_depth' < Depths
  BY <1>0, <1>1, <1>4, DepthFits DEF DepthCounted
<1>6. /\ want_write' \in BOOLEAN /\ want_upgrade' \in BOOLEAN
      /\ waiting' \in BOOLEAN /\ can_sleep' \in BOOLEAN
      /\ thread' \in Threads \cup {NoThread}
      /\ asleep' \in SUBSET Threads
  BY <1>0, Zenon DEF IInv, TypeOK
<1>10. TypeOK'
  BY <1>1, <1>2, <1>5, <1>6 DEF TypeOK
<1>7. WriteBit' /\ UpgradeBit'
  BY SMTT(90) DEF IInv, WriteBit, UpgradeBit, BehindWrite, BehindUpgrade
<1>8. NoLostWakeup'
  BY SMTT(90) DEF IInv, NoLostWakeup, LoopCondition, BitTaken, ReadersBarred,
     ReadersLeft
<1>9. Discipline'
  BY <1>0 DEF IInv, TypeOK, Discipline
<1> QED
  BY <1>2, <1>3, <1>4, <1>10, <1>7, <1>8, <1>9 DEF IInv, FieldsMatchHolds

(* ReadAgain preserves the invariant. *)
LEMMA ReadAgainIInv == ASSUME IInv, NEW t \in Threads, ReadAgain(t) PROVE IInv'
<1> USE RWLockAssumption DEF ReadAgain, MayRead
<1>1. /\ nread' \in [Threads -> 0..MaxHolds]
      /\ nwrite' \in [Threads -> 0..MaxHolds]
      /\ pc' \in [Threads -> PC]
  BY SMTT(90) DEF IInv, TypeOK
<1>2. /\ ReadsCounted' /\ read_count' \in Nat /\ read_count' < ReadCounts
      /\ read_count' = 0 <=> \A u \in Threads : nread'[u] = 0
  BY <1>1, CountReads
<1>3. Exclusion'
  BY SMTT(90) DEF IInv, Exclusion, Discipline
<1>4. DepthCounted'
  BY SMTT(90) DEF IInv, FieldsMatchHolds, DepthCounted
<1>5. recursion_depth' \in Nat /\ recursion_depth' < Depths
  BY <1>1, <1>4, DepthFits, ZenonT(30) DEF DepthCounted
<1>6. /\ want_write' \in BOOLEAN /\ want_upgrade' \in BOOLEAN
      /\ waiting' \in BOOLEAN /\ can_sleep' \in BOOLEAN
      /\ thread' \in Threads \cup {NoThread}
      /\ asleep' \in SUBSET Threads
  BY Zenon DEF IInv, TypeOK
<1>10. TypeOK'
  BY <1>1, <1>2, <1>5, <1>6 DEF TypeOK
<1>7. WriteBit' /\ UpgradeBit'
  BY SMTT(90) DEF IInv, WriteBit, UpgradeBit, BehindWrite, BehindUpgrade
<1>8. NoLostWakeup'
  BY SMTT(90) DEF IInv, TypeOK, NoLostWakeup, LoopCondition, BitTaken, NotDrained,
     ReadersBarred, ReadersLeft
<1>9. Discipline'
  BY SMTT(90) DEF IInv, TypeOK, Discipline
<1> QED
  BY <1>2, <1>3, <1>4, <1>10, <1>7, <1>8, <1>9 DEF IInv, FieldsMatchHolds

(* AdmitReader preserves the invariant. *)
LEMMA AdmitReaderIInv == ASSUME IInv, NEW t \in Threads, AdmitReader(t) PROVE IInv'
<1> USE RWLockAssumption DEF AdmitReader, ReadersBarred
<1>1. /\ nread' \in [Threads -> 0..MaxHolds]
      /\ nwrite' \in [Threads -> 0..MaxHolds]
      /\ pc' \in [Threads -> PC]
  BY SMTT(90) DEF IInv, TypeOK, Discipline, PC
<1>2. /\ ReadsCounted' /\ read_count' \in Nat /\ read_count' < ReadCounts
      /\ read_count' = 0 <=> \A u \in Threads : nread'[u] = 0
  BY CountReads DEF IInv, TypeOK, Discipline
<1>3. Exclusion'
  BY SMTT(90) DEF IInv, Exclusion, WriteBit, BehindWrite
<1>4. DepthCounted'
  BY SMTT(90) DEF IInv, FieldsMatchHolds, DepthCounted
<1>5. recursion_depth' \in Nat /\ recursion_depth' < Depths
  BY <1>1, <1>4, DepthFits, ZenonT(30) DEF DepthCounted
<1>6. /\ want_write' \in BOOLEAN /\ want_upgrade' \in BOOLEAN
      /\ waiting' \in BOOLEAN /\ can_sleep' \in BOOLEAN
      /\ thread' \in Threads \cup {NoThread}
      /\ asleep' \in SUBSET Threads
  BY Zenon DEF IInv, TypeOK
<1>10. TypeOK'
  BY <1>1, <1>2, <1>5, <1>6 DEF TypeOK
<1>7. WriteBit' /\ UpgradeBit'
  BY SMTT(90) DEF IInv, WriteBit, UpgradeBit, BehindWrite, BehindUpgrade
<1>8. NoLostWakeup'
  BY SMTT(90) DEF IInv, TypeOK, NoLostWakeup, LoopCondition, BitTaken, NotDrained,
     ReadersLeft
<1>9. Discipline'
  BY SMTT(90) DEF IInv, TypeOK, Discipline
<1> QED
  BY <1>2, <1>3, <1>4, <1>10, <1>7, <1>8, <1>9 DEF IInv, FieldsMatchHolds

(* lock_done preserves the invariant. *)
LEMMA lock_doneIInv == ASSUME IInv, NEW t \in Threads, lock_done(t) PROVE IInv'
<1> USE RWLockAssumption DEF lock_done, MayRelease, DropWrite, WakeupIf
<1>1. /\ nread' \in [Threads -> 0..MaxHolds]
      /\ nwrite' \in [Threads -> 0..MaxHolds]
      /\ pc' \in [Threads -> PC]
  BY SMTT(90) DEF IInv, TypeOK
<1>2. /\ ReadsCounted' /\ read_count' \in Nat /\ read_count' < ReadCounts
      /\ read_count' = 0 <=> \A u \in Threads : nread'[u] = 0
  BY <1>1, CountReads, ReadCount DEF IInv, TypeOK, Exclusion
<1>3. Exclusion'
  BY SMTT(90) DEF IInv, TypeOK, Exclusion
<1>4. DepthCounted'
  BY <1>1, <1>2, ReadCount DEF IInv, TypeOK, Exclusion, FieldsMatchHolds,
     DepthCounted
<1>5. recursion_depth' \in Nat /\ recursion_depth' < Depths
  BY <1>1, <1>4, DepthFits, ZenonT(30) DEF DepthCounted
<1>6. /\ want_write' \in BOOLEAN /\ want_upgrade' \in BOOLEAN
      /\ waiting' \in BOOLEAN /\ can_sleep' \in BOOLEAN
      /\ thread' \in Threads \cup {NoThread}
      /\ asleep' \in SUBSET Threads
  BY Zenon DEF IInv, TypeOK
<1>10. TypeOK'
  BY <1>1, <1>2, <1>5, <1>6 DEF TypeOK
<1>7. WriteBit' /\ UpgradeBit'
  <2>1. CASE read_count # 0
    <3>1. nread[t] > 0 /\ UNCHANGED <<want_write, want_upgrade, nwrite, pc>>
      BY <2>1, ReadCount DEF IInv, TypeOK, Exclusion
    <3> QED
      BY <3>1 DEF IInv, WriteBit, UpgradeBit, BehindWrite, BehindUpgrade
  <2>2. CASE read_count = 0
    <3>1. nread[t] = 0 /\ nwrite[t] > 0 /\ pc[t] = "idle" /\ pc' = pc
          /\ nwrite' = [nwrite EXCEPT ![t] = @ - 1]
          /\ recursion_depth = nwrite[t] - 1
      BY <2>2, ReadCount DEF IInv, TypeOK, FieldsMatchHolds, DepthCounted
    <3>2. DropWrite
      BY <2>2
    <3> QED
      BY <3>1, <3>2 DEF IInv, TypeOK, WriteBit, UpgradeBit, BehindWrite,
         BehindUpgrade
  <2> QED
    BY <2>1, <2>2
<1>8. NoLostWakeup'
  BY SMTT(90) DEF IInv, NoLostWakeup, LoopCondition, BitTaken, NotDrained,
     ReadersBarred, ReadersLeft
<1>9. Discipline'
  BY ReadCount, SMTT(30), ZenonT(30) DEF IInv, TypeOK, Discipline
<1> QED
  BY <1>2, <1>3, <1>4, <1>10, <1>7, <1>8, <1>9 DEF IInv, FieldsMatchHolds

(* OwnerUpgrade preserves the invariant. *)
LEMMA OwnerUpgradeIInv == ASSUME IInv, NEW t \in Threads, OwnerUpgrade(t) PROVE IInv'
<1> USE RWLockAssumption DEF OwnerUpgrade, MayUpgrade
<1>1. /\ nread' \in [Threads -> 0..MaxHolds]
      /\ nwrite' \in [Threads -> 0..MaxHolds]
      /\ pc' \in [Threads -> PC]
  BY SMTT(90) DEF IInv, TypeOK, Discipline
<1>2. /\ ReadsCounted' /\ read_count' \in Nat /\ read_count' < ReadCounts
      /\ read_count' = 0 <=> \A u \in Threads : nread'[u] = 0
  BY CountReads DEF IInv, TypeOK
<1>3. Exclusion'
  BY SMTT(90) DEF IInv, Exclusion
<1>4. DepthCounted'
  BY SMTT(90) DEF IInv, TypeOK, FieldsMatchHolds, DepthCounted, WriteBit, UpgradeBit,
     BehindWrite, BehindUpgrade
<1>5. recursion_depth' \in Nat /\ recursion_depth' < Depths
  BY <1>1, <1>4, DepthFits, ZenonT(30) DEF DepthCounted
<1>6. /\ want_write' \in BOOLEAN /\ want_upgrade' \in BOOLEAN
      /\ waiting' \in BOOLEAN /\ can_sleep' \in BOOLEAN
      /\ thread' \in Threads \cup {NoThread}
      /\ asleep' \in SUBSET Threads
  BY Zenon DEF IInv, TypeOK
<1>10. TypeOK'
  BY <1>1, <1>2, <1>5, <1>6 DEF TypeOK
<1>7. WriteBit' /\ UpgradeBit'
  BY SMTT(90) DEF IInv, WriteBit, UpgradeBit, BehindWrite, BehindUpgrade
<1>8. NoLostWakeup'
  BY SMTT(90) DEF IInv, TypeOK, WriteBit, UpgradeBit, BehindWrite, BehindUpgrade,
     NoLostWakeup, LoopCondition, BitTaken, NotDrained, ReadersBarred
<1>9. Discipline'
  BY SMTT(90) DEF IInv, TypeOK, Discipline
<1> QED
  BY <1>2, <1>3, <1>4, <1>10, <1>7, <1>8, <1>9 DEF IInv, FieldsMatchHolds

(* WinUpgrade preserves the invariant. *)
LEMMA WinUpgradeIInv == ASSUME IInv, NEW t \in Threads, NEW loop \in {"upgrade", "tryupgr"}, WinUpgrade(t, loop) PROVE IInv'
<1> USE RWLockAssumption DEF WinUpgrade, MayUpgrade
<1>0. /\ pc[t] = "idle" /\ thread # t /\ t \notin asleep
      /\ nread[t] = 1 /\ nwrite[t] = 0
      /\ \A u \in Threads : nwrite[u] = 0 /\ pc[u] \notin {"upgrade", "tryupgr"}
      /\ want_upgrade' = TRUE /\ read_count' = read_count - 1
      /\ UNCHANGED <<want_write, can_sleep, waiting, recursion_depth, thread, asleep>>
  BY ReadCount DEF IInv, TypeOK, Exclusion, NoLostWakeup, LoopCondition,
     UpgradeBit, BehindUpgrade
<1>a. /\ nread' = [nread EXCEPT ![t] = 0]
      /\ nread' \in [Threads -> 0..MaxHolds]
      /\ nread'[t] = nread[t] - 1 /\ \A u \in Threads \ {t} : nread'[u] = nread[u]
  BY <1>0, SMTT(90) DEF IInv, TypeOK
<1>b. /\ ReadsCounted' /\ read_count' \in Nat /\ read_count' < ReadCounts
      /\ read_count' = 0 <=> \A u \in Threads : nread'[u] = 0
  BY <1>0, <1>a, CountReads
<1> HIDE DEF WinUpgrade, MayUpgrade
<1>1. CASE read_count' # 0
  <2>0. nwrite' = nwrite /\ pc' = [pc EXCEPT ![t] = loop]
    BY <1>0, <1>1 DEF WinUpgrade, IInv, TypeOK
  <2>1. /\ nread' \in [Threads -> 0..MaxHolds]
        /\ nwrite' \in [Threads -> 0..MaxHolds]
        /\ pc' \in [Threads -> PC]
    BY <1>a, <2>0 DEF IInv, TypeOK, PC
  <2>3. Exclusion'
    BY <1>a, <2>0 DEF IInv, Exclusion
  <2>4. DepthCounted'
    BY <1>0, <2>0 DEF IInv, FieldsMatchHolds, DepthCounted
  <2>5. recursion_depth' \in Nat /\ recursion_depth' < Depths
    BY <1>0, <1>a, <1>1, <2>0, <2>1, <2>4, DepthFits DEF DepthCounted
  <2>6. /\ want_write' \in BOOLEAN /\ want_upgrade' \in BOOLEAN
        /\ waiting' \in BOOLEAN /\ can_sleep' \in BOOLEAN
        /\ thread' \in Threads \cup {NoThread}
        /\ asleep' \in SUBSET Threads
    BY <1>0, <1>a, <1>1, <2>0, Zenon DEF IInv, TypeOK
  <2>10. TypeOK'
    BY <2>1, <1>b, <2>5, <2>6 DEF TypeOK
  <2>7. WriteBit' /\ UpgradeBit'
    BY <1>0, <2>0 DEF IInv, WriteBit, UpgradeBit, BehindWrite, BehindUpgrade
  <2>8. NoLostWakeup'
    BY <1>0, <2>0 DEF IInv, TypeOK, NoLostWakeup, LoopCondition, BitTaken,
       NotDrained, ReadersBarred
  <2>9. Discipline'
    BY <1>0, <1>a, <2>0, SMTT(30), ZenonT(30) DEF IInv, Discipline
  <2> QED
    BY <1>b, <2>3, <2>4, <2>10, <2>7, <2>8, <2>9 DEF IInv, FieldsMatchHolds
<1>2. CASE read_count' = 0
  <2>0. nwrite' = [nwrite EXCEPT ![t] = 1] /\ pc' = pc
    BY <1>0, <1>2 DEF WinUpgrade, IInv, TypeOK
  <2>1. /\ nread' \in [Threads -> 0..MaxHolds]
        /\ nwrite' \in [Threads -> 0..MaxHolds]
        /\ pc' \in [Threads -> PC]
    BY <1>a, <2>0 DEF IInv, TypeOK
  <2>3. Exclusion'
    BY <1>a, <1>2, <2>0, <1>b, SMTT(30), ZenonT(30) DEF IInv, TypeOK, Exclusion
  <2>4. DepthCounted'
    BY <1>0, <2>0 DEF IInv, FieldsMatchHolds, DepthCounted
  <2>5. recursion_depth' \in Nat /\ recursion_depth' < Depths
    BY <1>0, <1>a, <1>2, <2>0, <2>1, <2>4, DepthFits DEF DepthCounted
  <2>6. /\ want_write' \in BOOLEAN /\ want_upgrade' \in BOOLEAN
        /\ waiting' \in BOOLEAN /\ can_sleep' \in BOOLEAN
        /\ thread' \in Threads \cup {NoThread}
        /\ asleep' \in SUBSET Threads
    BY <1>0, <1>a, <1>2, <2>0, Zenon DEF IInv, TypeOK
  <2>10. TypeOK'
    BY <2>1, <1>b, <2>5, <2>6 DEF TypeOK
  <2>7. WriteBit' /\ UpgradeBit'
    BY <1>0, <2>0 DEF IInv, WriteBit, UpgradeBit, BehindWrite, BehindUpgrade
  <2>8. NoLostWakeup'
    BY <1>0, <2>0 DEF IInv, TypeOK, NoLostWakeup, LoopCondition, BitTaken,
       NotDrained, ReadersBarred
  <2>9. Discipline'
    BY <1>0, <1>a, <2>0, SMTT(30), ZenonT(30) DEF IInv, Discipline
  <2> QED
    BY <1>b, <2>3, <2>4, <2>10, <2>7, <2>8, <2>9 DEF IInv, FieldsMatchHolds
<1> QED
  BY <1>0, <1>a, <1>1, <1>2

(* LoseUpgrade preserves the invariant. *)
LEMMA LoseUpgradeIInv == ASSUME IInv, NEW t \in Threads, LoseUpgrade(t) PROVE IInv'
<1> USE RWLockAssumption DEF LoseUpgrade, MayUpgrade, WakeupIf
<1>1. /\ nread' \in [Threads -> 0..MaxHolds]
      /\ nwrite' \in [Threads -> 0..MaxHolds]
      /\ pc' \in [Threads -> PC]
  BY SMTT(90) DEF IInv, TypeOK
<1>2. /\ ReadsCounted' /\ read_count' \in Nat /\ read_count' < ReadCounts
      /\ read_count' = 0 <=> \A u \in Threads : nread'[u] = 0
  BY CountReads, SMTT(30), ZenonT(30) DEF IInv, TypeOK
<1>3. Exclusion'
  BY SMTT(90) DEF IInv, Exclusion
<1>4. DepthCounted'
  BY SMTT(90) DEF IInv, FieldsMatchHolds, DepthCounted
<1>5. recursion_depth' \in Nat /\ recursion_depth' < Depths
  BY <1>1, <1>4, DepthFits, SMTT(30), ZenonT(30) DEF DepthCounted
<1>6. /\ want_write' \in BOOLEAN /\ want_upgrade' \in BOOLEAN
      /\ waiting' \in BOOLEAN /\ can_sleep' \in BOOLEAN
      /\ thread' \in Threads \cup {NoThread}
      /\ asleep' \in SUBSET Threads
  BY Zenon DEF IInv, TypeOK
<1>10. TypeOK'
  BY <1>1, <1>2, <1>5, <1>6 DEF TypeOK
<1>7. WriteBit' /\ UpgradeBit'
  BY SMTT(90) DEF IInv, WriteBit, UpgradeBit, BehindWrite, BehindUpgrade
<1>8. NoLostWakeup'
  BY SMTT(90) DEF IInv, NoLostWakeup, LoopCondition, BitTaken, NotDrained,
     ReadersBarred, ReadersLeft
<1>9. Discipline'
  BY SMTT(90) DEF IInv, TypeOK, Discipline
<1> QED
  BY <1>2, <1>3, <1>4, <1>10, <1>7, <1>8, <1>9 DEF IInv, FieldsMatchHolds

(* Upgraded preserves the invariant. *)
LEMMA UpgradedIInv == ASSUME IInv, NEW t \in Threads, Upgraded(t) PROVE IInv'
<1> USE RWLockAssumption DEF Upgraded, ReadersLeft
<1>1. /\ nread' \in [Threads -> 0..MaxHolds]
      /\ nwrite' \in [Threads -> 0..MaxHolds]
      /\ pc' \in [Threads -> PC]
  BY SMTT(90) DEF IInv, TypeOK, Discipline, PC
<1>2. /\ ReadsCounted' /\ read_count' \in Nat /\ read_count' < ReadCounts
      /\ read_count' = 0 <=> \A u \in Threads : nread'[u] = 0
  BY CountReads DEF IInv, TypeOK
<1>3. Exclusion'
  BY ReadCount DEF IInv, TypeOK, Exclusion, UpgradeBit, BehindUpgrade
<1>4. DepthCounted'
  BY ReadCount DEF IInv, TypeOK, FieldsMatchHolds, DepthCounted, Discipline,
     UpgradeBit, BehindUpgrade
<1>5. recursion_depth' \in Nat /\ recursion_depth' < Depths
  BY <1>1, <1>4, DepthFits, ZenonT(30) DEF DepthCounted
<1>6. /\ want_write' \in BOOLEAN /\ want_upgrade' \in BOOLEAN
      /\ waiting' \in BOOLEAN /\ can_sleep' \in BOOLEAN
      /\ thread' \in Threads \cup {NoThread}
      /\ asleep' \in SUBSET Threads
  BY Zenon DEF IInv, TypeOK
<1>10. TypeOK'
  BY <1>1, <1>2, <1>5, <1>6 DEF TypeOK
<1>7. WriteBit' /\ UpgradeBit'
  BY SMTT(90) DEF IInv, WriteBit, UpgradeBit, BehindWrite, BehindUpgrade
<1>8. NoLostWakeup'
  BY SMTT(90) DEF IInv, NoLostWakeup, LoopCondition, BitTaken, NotDrained, ReadersBarred
<1>9. Discipline'
  BY ReadCount DEF IInv, TypeOK, Discipline
<1> QED
  BY <1>2, <1>3, <1>4, <1>10, <1>7, <1>8, <1>9 DEF IInv, FieldsMatchHolds

(* lock_write_to_read preserves the invariant. *)
LEMMA lock_write_to_readIInv == ASSUME IInv, NEW t \in Threads, lock_write_to_read(t) PROVE IInv'
<1> USE RWLockAssumption DEF lock_write_to_read, DropWrite, WakeupIf
<1>1. /\ nread' \in [Threads -> 0..MaxHolds]
      /\ nwrite' \in [Threads -> 0..MaxHolds]
      /\ pc' \in [Threads -> PC]
  BY SMTT(90) DEF IInv, TypeOK, Discipline
<1>2. /\ ReadsCounted' /\ read_count' \in Nat /\ read_count' < ReadCounts
      /\ read_count' = 0 <=> \A u \in Threads : nread'[u] = 0
  BY CountReads, SMTT(30), ZenonT(30) DEF IInv, TypeOK, Discipline
<1>3. Exclusion'
  BY SMTT(90) DEF IInv, Exclusion
<1>4. DepthCounted'
  BY SMTT(90) DEF IInv, TypeOK, FieldsMatchHolds, DepthCounted, WriteBit, UpgradeBit,
     BehindWrite, BehindUpgrade
<1>5. recursion_depth' \in Nat /\ recursion_depth' < Depths
  BY <1>1, <1>4, DepthFits, ZenonT(30) DEF DepthCounted
<1>6. /\ want_write' \in BOOLEAN /\ want_upgrade' \in BOOLEAN
      /\ waiting' \in BOOLEAN /\ can_sleep' \in BOOLEAN
      /\ thread' \in Threads \cup {NoThread}
      /\ asleep' \in SUBSET Threads
  BY Zenon DEF IInv, TypeOK
<1>10. TypeOK'
  BY <1>1, <1>2, <1>5, <1>6 DEF TypeOK
<1>7. WriteBit' /\ UpgradeBit'
  BY <1>2 DEF IInv, TypeOK, FieldsMatchHolds, DepthCounted, WriteBit, UpgradeBit,
     BehindWrite, BehindUpgrade
<1>8. NoLostWakeup'
  BY SMTT(90) DEF IInv, NoLostWakeup
<1>9. Discipline'
  BY ReadCount DEF IInv, TypeOK, Discipline
<1> QED
  BY <1>2, <1>3, <1>4, <1>10, <1>7, <1>8, <1>9 DEF IInv, FieldsMatchHolds

(* lock_try_write preserves the invariant. *)
LEMMA lock_try_writeIInv == ASSUME IInv, NEW t \in Threads, lock_try_write(t), ~Owner(t) PROVE IInv'
<1> USE RWLockAssumption DEF lock_try_write, MayWrite, WriteAgain
<1>1. /\ nread' \in [Threads -> 0..MaxHolds]
      /\ nwrite' \in [Threads -> 0..MaxHolds]
      /\ pc' \in [Threads -> PC]
  BY SMTT(90) DEF IInv, TypeOK
<1>2. /\ ReadsCounted' /\ read_count' \in Nat /\ read_count' < ReadCounts
      /\ read_count' = 0 <=> \A u \in Threads : nread'[u] = 0
  BY CountReads DEF IInv, TypeOK
<1>3. Exclusion'
  BY ReadCount DEF IInv, TypeOK, Exclusion, WriteBit, BehindWrite
<1>4. DepthCounted'
  BY SMTT(90) DEF IInv, TypeOK, FieldsMatchHolds, DepthCounted, WriteBit, BehindWrite
<1>5. recursion_depth' \in Nat /\ recursion_depth' < Depths
  BY <1>1, <1>4, DepthFits DEF DepthCounted
<1>6. /\ want_write' \in BOOLEAN /\ want_upgrade' \in BOOLEAN
      /\ waiting' \in BOOLEAN /\ can_sleep' \in BOOLEAN
      /\ thread' \in Threads \cup {NoThread}
      /\ asleep' \in SUBSET Threads
  BY Zenon DEF IInv, TypeOK
<1>10. TypeOK'
  BY <1>1, <1>2, <1>5, <1>6, SMTT(30), ZenonT(30) DEF TypeOK
<1>7. WriteBit' /\ UpgradeBit'
  BY ReadCount, SMTT(30), ZenonT(30) DEF IInv, TypeOK, WriteBit, UpgradeBit, BehindWrite, BehindUpgrade
<1>8. NoLostWakeup'
  BY SMTT(90) DEF IInv, NoLostWakeup, LoopCondition, BitTaken, NotDrained,
     ReadersBarred, ReadersLeft
<1>9. Discipline'
  BY SMTT(90) DEF IInv, TypeOK, Discipline
<1> QED
  BY <1>2, <1>3, <1>4, <1>10, <1>7, <1>8, <1>9, SMTT(30), ZenonT(30) DEF IInv, FieldsMatchHolds

(* lock_try_read preserves the invariant. *)
LEMMA lock_try_readIInv == ASSUME IInv, NEW t \in Threads, lock_try_read(t), ~Owner(t) PROVE IInv'
<1> USE RWLockAssumption DEF lock_try_read, MayRead, ReadersBarred, ReadAgain
<1>1. /\ nread' \in [Threads -> 0..MaxHolds]
      /\ nwrite' \in [Threads -> 0..MaxHolds]
      /\ pc' \in [Threads -> PC]
  BY SMTT(90) DEF IInv, TypeOK
<1>2. /\ ReadsCounted' /\ read_count' \in Nat /\ read_count' < ReadCounts
      /\ read_count' = 0 <=> \A u \in Threads : nread'[u] = 0
  BY <1>1, CountReads, SMTT(30), ZenonT(30)
<1>3. Exclusion'
  BY SMTT(90) DEF IInv, Exclusion, WriteBit, BehindWrite
<1>4. DepthCounted'
  BY SMTT(90) DEF IInv, FieldsMatchHolds, DepthCounted
<1>5. recursion_depth' \in Nat /\ recursion_depth' < Depths
  BY <1>1, <1>4, DepthFits DEF DepthCounted
<1>6. /\ want_write' \in BOOLEAN /\ want_upgrade' \in BOOLEAN
      /\ waiting' \in BOOLEAN /\ can_sleep' \in BOOLEAN
      /\ thread' \in Threads \cup {NoThread}
      /\ asleep' \in SUBSET Threads
  BY Zenon DEF IInv, TypeOK
<1>10. TypeOK'
  BY <1>1, <1>2, <1>5, <1>6, SMTT(30), ZenonT(30) DEF TypeOK
<1>7. WriteBit' /\ UpgradeBit'
  BY SMTT(90) DEF IInv, WriteBit, UpgradeBit, BehindWrite, BehindUpgrade
<1>8. NoLostWakeup'
  BY SMTT(90) DEF IInv, TypeOK, NoLostWakeup, LoopCondition, BitTaken, NotDrained,
     ReadersLeft
<1>9. Discipline'
  BY SMTT(90) DEF IInv, TypeOK, Discipline
<1> QED
  BY <1>2, <1>3, <1>4, <1>10, <1>7, <1>8, <1>9, SMTT(30), ZenonT(30) DEF IInv, FieldsMatchHolds

(* lock_set_recursive preserves the invariant. *)
LEMMA lock_set_recursiveIInv == ASSUME IInv, NEW t \in Threads, lock_set_recursive(t) PROVE IInv'
<1> USE RWLockAssumption DEF lock_set_recursive, SetsRecursive
<1>1. /\ nread' \in [Threads -> 0..MaxHolds]
      /\ nwrite' \in [Threads -> 0..MaxHolds]
      /\ pc' \in [Threads -> PC]
  BY SMTT(90) DEF IInv, TypeOK
<1>2. /\ ReadsCounted' /\ read_count' \in Nat /\ read_count' < ReadCounts
      /\ read_count' = 0 <=> \A u \in Threads : nread'[u] = 0
  BY CountReads, SMTT(30), ZenonT(30) DEF IInv, TypeOK
<1>3. Exclusion'
  <2>1. Exclusion /\ nread' = nread /\ nwrite' = nwrite
    BY Zenon DEF IInv
  <2> HIDE DEF lock_set_recursive, SetsRecursive
  <2> QED BY <2>1 DEF Exclusion
<1>4. DepthCounted'
  BY SMTT(90) DEF IInv, FieldsMatchHolds, DepthCounted
<1>5. recursion_depth' \in Nat /\ recursion_depth' < Depths
  BY <1>1, <1>4, DepthFits, ZenonT(30) DEF DepthCounted
<1>6. /\ want_write' \in BOOLEAN /\ want_upgrade' \in BOOLEAN
      /\ waiting' \in BOOLEAN /\ can_sleep' \in BOOLEAN
      /\ thread' \in Threads \cup {NoThread}
      /\ asleep' \in SUBSET Threads
  BY Zenon DEF IInv, TypeOK
<1>10. TypeOK'
  BY <1>1, <1>2, <1>5, <1>6 DEF TypeOK
<1>7. WriteBit' /\ UpgradeBit'
  BY SMTT(90) DEF IInv, WriteBit, UpgradeBit, BehindWrite, BehindUpgrade
<1>8. NoLostWakeup'
  BY SMTT(90) DEF IInv, NoLostWakeup, LoopCondition, BitTaken, NotDrained,
     ReadersBarred, ReadersLeft
<1>9. Discipline'
  BY ReadCount, SMTT(30), ZenonT(30) DEF IInv, TypeOK, Discipline, Exclusion
<1> QED
  BY <1>2, <1>3, <1>4, <1>10, <1>7, <1>8, <1>9, SMTT(30), ZenonT(30) DEF IInv, FieldsMatchHolds

(* lock_clear_recursive preserves the invariant. *)
LEMMA lock_clear_recursiveIInv == ASSUME IInv, NEW t \in Threads, lock_clear_recursive(t) PROVE IInv'
<1> USE RWLockAssumption DEF lock_clear_recursive
<1>1. /\ nread' \in [Threads -> 0..MaxHolds]
      /\ nwrite' \in [Threads -> 0..MaxHolds]
      /\ pc' \in [Threads -> PC]
  BY SMTT(90) DEF IInv, TypeOK
<1>2. /\ ReadsCounted' /\ read_count' \in Nat /\ read_count' < ReadCounts
      /\ read_count' = 0 <=> \A u \in Threads : nread'[u] = 0
  BY CountReads DEF IInv, TypeOK
<1>3. Exclusion'
  BY SMTT(90) DEF IInv, Exclusion
<1>4. DepthCounted'
  BY SMTT(90) DEF IInv, FieldsMatchHolds, DepthCounted
<1>5. recursion_depth' \in Nat /\ recursion_depth' < Depths
  BY <1>1, <1>4, DepthFits, SMTT(30), ZenonT(30) DEF DepthCounted
<1>6. /\ want_write' \in BOOLEAN /\ want_upgrade' \in BOOLEAN
      /\ waiting' \in BOOLEAN /\ can_sleep' \in BOOLEAN
      /\ thread' \in Threads \cup {NoThread}
      /\ asleep' \in SUBSET Threads
  BY Zenon DEF IInv, TypeOK
<1>10. TypeOK'
  BY <1>1, <1>2, <1>5, <1>6 DEF TypeOK
<1>7. WriteBit' /\ UpgradeBit'
  BY SMTT(90) DEF IInv, WriteBit, UpgradeBit, BehindWrite, BehindUpgrade
<1>8. NoLostWakeup'
  BY SMTT(90) DEF IInv, NoLostWakeup, LoopCondition, BitTaken, NotDrained,
     ReadersBarred, ReadersLeft
<1>9. Discipline'
  BY SMTT(90) DEF IInv, Discipline
<1> QED
  BY <1>2, <1>3, <1>4, <1>10, <1>7, <1>8, <1>9, ZenonT(30) DEF IInv, FieldsMatchHolds

(* Sleep preserves the invariant. *)
LEMMA SleepIInv == ASSUME IInv, NEW t \in Threads, Sleep(t) PROVE IInv'
<1> USE RWLockAssumption DEF Sleep, LoopCondition
<1>1. /\ nread' \in [Threads -> 0..MaxHolds]
      /\ nwrite' \in [Threads -> 0..MaxHolds]
      /\ pc' \in [Threads -> PC]
  BY SMTT(90) DEF IInv, TypeOK
<1>2. /\ ReadsCounted' /\ read_count' \in Nat /\ read_count' < ReadCounts
      /\ read_count' = 0 <=> \A u \in Threads : nread'[u] = 0
  BY CountReads DEF IInv, TypeOK
<1>3. Exclusion'
  BY SMTT(90) DEF IInv, Exclusion
<1>4. DepthCounted'
  BY SMTT(90) DEF IInv, FieldsMatchHolds, DepthCounted
<1>5. recursion_depth' \in Nat /\ recursion_depth' < Depths
  BY <1>1, <1>4, DepthFits, ZenonT(30) DEF DepthCounted
<1>6. /\ want_write' \in BOOLEAN /\ want_upgrade' \in BOOLEAN
      /\ waiting' \in BOOLEAN /\ can_sleep' \in BOOLEAN
      /\ thread' \in Threads \cup {NoThread}
      /\ asleep' \in SUBSET Threads
  BY Zenon DEF IInv, TypeOK
<1>10. TypeOK'
  BY <1>1, <1>2, <1>5, <1>6 DEF TypeOK
<1>7. WriteBit' /\ UpgradeBit'
  BY SMTT(90) DEF IInv, WriteBit, UpgradeBit, BehindWrite, BehindUpgrade
<1>8. NoLostWakeup'
  BY SMTT(90) DEF IInv, NoLostWakeup, BitTaken, NotDrained, ReadersBarred, ReadersLeft
<1>9. Discipline'
  BY SMTT(90) DEF IInv, Discipline
<1> QED
  BY <1>2, <1>3, <1>4, <1>10, <1>7, <1>8, <1>9, SMTT(30), ZenonT(30) DEF IInv, FieldsMatchHolds

(* lock_sleepable preserves the invariant. *)
LEMMA lock_sleepableIInv == ASSUME IInv, NEW b \in BOOLEAN, lock_sleepable(b) PROVE IInv'
BY DEF lock_sleepable, IInv, TypeOK, Exclusion, FieldsMatchHolds, ReadsCounted,
       DepthCounted, HoldsOf, WriteBit, UpgradeBit, BehindWrite, BehindUpgrade,
       Discipline, NoLostWakeup, LoopCondition, BitTaken, NotDrained, ReadersBarred,
       ReadersLeft

(* So does every step, and a step that changes nothing. *)
LEMMA NextIInv == IInv /\ [Next]_vars => IInv'
<1> SUFFICES ASSUME IInv, [Next]_vars PROVE IInv'
  OBVIOUS
<1>1. ASSUME NEW t \in Threads, Inside(t) PROVE IInv'
  BY <1>1, TakeWriteBitIInv, DrainedIInv, AdmitReaderIInv, UpgradedIInv, SleepIInv
  DEF Inside
<1>2. ASSUME NEW t \in Threads, lock_write(t) \/ lock_read(t) PROVE IInv'
  <2>1. CASE WriteAgain(t) \/ ReadAgain(t)
    BY <2>1, WriteAgainIInv, ReadAgainIInv
  <2>2. ASSUME NEW at \in {"write", "read"}, MayWrite(t) \/ MayRead(t), EnterLoop(t, at)
        PROVE  IInv'
    <3>1. Running(t) /\ Holds(t) = 0
      BY <2>2 DEF MayWrite, MayRead, EnterLoop
    <3> QED
      BY <2>2, <3>1, EnterLoopIInv
  <2> QED
    BY <1>2, <2>1, <2>2 DEF lock_write, lock_read
<1>3. ASSUME NEW t \in Threads, lock_read_to_write(t) \/ lock_try_read_to_write(t)
      PROVE  IInv'
  BY <1>3, OwnerUpgradeIInv, WinUpgradeIInv, LoseUpgradeIInv
  DEF lock_read_to_write, lock_try_read_to_write
<1>4. ASSUME NEW t \in Threads, lock_try_write(t) \/ lock_try_read(t) PROVE IInv'
  <2>1. CASE Owner(t)
    BY <1>4, <2>1, WriteAgainIInv, ReadAgainIInv DEF lock_try_write, lock_try_read
  <2> QED
    BY <1>4, <2>1, lock_try_writeIInv, lock_try_readIInv
<1>5. ASSUME NEW t \in Threads, Call(t) PROVE IInv'
  BY <1>2, <1>3, <1>4, <1>5, lock_doneIInv, lock_write_to_readIInv,
     lock_set_recursiveIInv, lock_clear_recursiveIInv, SMTT(30), ZenonT(30) DEF Call
<1>6. CASE UNCHANGED vars
  BY <1>6 DEF vars, IInv, TypeOK, Exclusion, FieldsMatchHolds, ReadsCounted,
     DepthCounted, HoldsOf, WriteBit, UpgradeBit, BehindWrite, BehindUpgrade,
     Discipline, NoLostWakeup, LoopCondition, BitTaken, NotDrained, ReadersBarred,
     ReadersLeft
<1> QED
  BY <1>1, <1>5, <1>6, lock_sleepableIInv DEF Next

-----------------------------------------------------------------------------
(* Every reachable state satisfies the inductive invariant. *)
THEOREM Invariance == Spec => []IInv
<1>1. Init => IInv
  BY InitIInv
<1>2. IInv /\ [Next]_vars => IInv'
  BY NextIInv
<1> QED
  BY <1>1, <1>2, PTL DEF Spec

(* The fields keep their types and widths: in particular read_count and    *)
(* recursion_depth never wrap around.                                      *)
THEOREM TypeCorrect == Spec => []TypeOK
<1>1. IInv => TypeOK
  BY DEF IInv
<1> QED
  BY <1>1, Invariance, PTL

(* A thread that holds the lock for writing is alone. *)
THEOREM MutualExclusion == Spec => []Exclusion
<1>1. IInv => Exclusion
  BY DEF IInv
<1> QED
  BY <1>1, Invariance, PTL

(* read_count and recursion_depth tell lock_done what its caller holds. *)
THEOREM FieldsCorrect == Spec => []FieldsMatchHolds
<1>1. IInv => FieldsMatchHolds
  BY DEF IInv
<1> QED
  BY <1>1, Invariance, PTL

(* No thread sleeps on a lock it no longer has to wait for. *)
THEOREM WakeupsNotLost == Spec => []NoLostWakeup
<1>1. IInv => NoLostWakeup
  BY DEF IInv
<1> QED
  BY <1>1, Invariance, PTL

(* lock_set_recursive does not panic. *)
THEOREM PanicFree == Spec => []NoPanic
<1>1. IInv => NoPanic
  BY DEF IInv, NoPanic, SetsRecursive, WriteBit, BehindWrite
<1> QED
  BY <1>1, Invariance, PTL

=============================================================================
