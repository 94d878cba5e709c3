--------------------------- MODULE FoldInduction ----------------------------
(* Induction over the subsets of a finite set, and the function by which a *)
(* fold over the set is defined.                                           *)
EXTENDS FiniteSetTheorems, TLAPS

(***************************************************************************)
(* Induction over the subsets of S: F holds the sets for which the claim   *)
(* is true. It rests on the strict subset ordering being well founded.     *)
(***************************************************************************)
LEMMA SubsetInduction ==
  ASSUME NEW S, IsFiniteSet(S), NEW F,
         \A T \in SUBSET S : (\A U \in SUBSET T : U # T => U \in F) => T \in F
  PROVE  \A T \in SUBSET S : T \in F
<1> DEFINE Bad == {T \in SUBSET S : T \notin F}
<1> SUFFICES ASSUME Bad # {} PROVE FALSE
  OBVIOUS
<1>1. IsWellFoundedOn(StrictSubsetOrdering(S), FiniteSubsetsOf(S))
  BY FS_StrictSubsetOrderingWellFounded
<1>2. FiniteSubsetsOf(S) = SUBSET S
  BY FS_FiniteSubsetsOfFinite
<1>3. Bad \subseteq FiniteSubsetsOf(S)
  BY <1>2
<1>4. PICK T \in Bad : \A U \in Bad : ~(<<U, T>> \in StrictSubsetOrdering(S))
  <2> HIDE DEF Bad
  <2> QED BY <1>1, <1>3, WFMin
<1>5. ASSUME NEW U \in SUBSET T, U # T PROVE U \in F
  BY <1>4, <1>5 DEF StrictSubsetOrdering
<1> QED BY <1>4, <1>5

One(T) == CHOOSE x \in T : TRUE

(* The element the fold takes next. *)
LEMMA OneIn == ASSUME NEW T, T # {} PROVE One(T) \in T
  BY DEF One

(* f folds the function op over the subsets of T, from base. *)
FoldsOver(f, op, base, T) ==
  /\ DOMAIN f = SUBSET T
  /\ f = [U \in SUBSET T |->
            IF U = {} THEN base ELSE op[One(U), f[U \ {One(U)}]]]

(* There is one such function at most ... *)
LEMMA FoldsUnique ==
  ASSUME NEW S, IsFiniteSet(S), NEW op, NEW base,
         NEW T \in SUBSET S, NEW V \in SUBSET S, NEW f, NEW g,
         FoldsOver(f, op, base, T), FoldsOver(g, op, base, V)
  PROVE  \A U \in SUBSET (T \cap V) : f[U] = g[U]
<1> DEFINE F == {U \in SUBSET S : U \subseteq T \cap V => f[U] = g[U]}
<1>1. ASSUME NEW U \in SUBSET S, \A W \in SUBSET U : W # U => W \in F
      PROVE  U \in F
  <2> SUFFICES ASSUME U \subseteq T \cap V PROVE f[U] = g[U]
    OBVIOUS
  <2>1. CASE U = {}
    BY <2>1 DEF FoldsOver
  <2>2. CASE U # {}
    <3>1. PICK W : W = U \ {One(U)}
      OBVIOUS
    <3>2. W \in SUBSET U /\ W # U
      BY <2>2, <3>1, OneIn
    <3>3. f[W] = g[W]
      BY <1>1, <3>2
    <3>4. f[U] = op[One(U), f[W]]
      BY <2>2, <3>1 DEF FoldsOver
    <3>5. g[U] = op[One(U), g[W]]
      BY <2>2, <3>1 DEF FoldsOver
    <3> QED BY <3>3, <3>4, <3>5
  <2> QED BY <2>1, <2>2
<1> HIDE DEF F
<1>2. \A U \in SUBSET S : U \in F
  BY <1>1, SubsetInduction
<1> QED BY <1>2 DEF F

(* ... and there is one. *)
LEMMA FoldsExists ==
  ASSUME NEW S, IsFiniteSet(S), NEW op, NEW base
  PROVE  \E f : FoldsOver(f, op, base, S)
<1> DEFINE F == {T \in SUBSET S : \E f : FoldsOver(f, op, base, T)}
<1> DEFINE h(T) == CHOOSE f : FoldsOver(f, op, base, T)
<1>1. ASSUME NEW T \in SUBSET S, \A U \in SUBSET T : U # T => U \in F
      PROVE  T \in F
  <2>1. ASSUME NEW U \in SUBSET T, U # T PROVE FoldsOver(h(U), op, base, U)
    BY <1>1, <2>1
  <2> HIDE DEF h
  <2> DEFINE W(U) == U \ {One(U)}
  <2>2. PICK g : g = [U \in SUBSET T |->
                        IF U = {} THEN base ELSE op[One(U), h(W(U))[W(U)]]]
    OBVIOUS
  <2>3. ASSUME NEW U \in SUBSET T, U # {}
        PROVE  W(U) \in SUBSET T /\ W(U) # T /\ W(U) \subseteq U
    BY <2>3, OneIn
  <2>4. ASSUME NEW U \in SUBSET T, U # T PROVE g[U] = h(U)[U]
    <3>1. CASE U = {}
      BY <2>1, <2>2, <2>4, <3>1 DEF FoldsOver
    <3>2. CASE U # {}
      <4>1. PICK V : V = W(U)
        OBVIOUS
      <4>2. V \in SUBSET T /\ V # T /\ V \subseteq U
        BY <2>3, <3>2, <4>1
      <4>3. g[U] = op[One(U), h(V)[V]]
        BY <2>2, <3>2, <4>1
      <4>4. FoldsOver(h(U), op, base, U) /\ FoldsOver(h(V), op, base, V)
        BY <2>1, <2>4, <4>2
      <4>5. h(U)[U] = op[One(U), h(U)[V]]
        BY <3>2, <4>1, <4>4 DEF FoldsOver
      <4>6. h(U)[V] = h(V)[V]
        <5>1. U \in SUBSET S /\ V \in SUBSET S /\ V \in SUBSET (U \cap V)
          BY <4>2
        <5> QED BY <4>4, <5>1, FoldsUnique
      <4> QED BY <4>3, <4>5, <4>6
    <3> QED BY <3>1, <3>2
  <2>5. ASSUME NEW U \in SUBSET T
        PROVE  g[U] = IF U = {} THEN base ELSE op[One(U), g[U \ {One(U)}]]
    <3>1. CASE U = {}
      BY <2>2, <3>1
    <3>2. CASE U # {}
      <4>1. PICK V : V = W(U)
        OBVIOUS
      <4>2. V \in SUBSET T /\ V # T
        BY <2>3, <3>2, <4>1
      <4> QED BY <2>2, <2>4, <3>2, <4>1, <4>2
    <3> QED BY <3>1, <3>2
  <2>6. DOMAIN g = SUBSET T
    BY <2>2
  <2>7. FoldsOver(g, op, base, T)
    BY <2>2, <2>5, <2>6 DEF FoldsOver
  <2> QED BY <2>7
<1> HIDE DEF F
<1>2. \A T \in SUBSET S : T \in F
  BY <1>1, SubsetInduction
<1> QED BY <1>2 DEF F
=============================================================================
