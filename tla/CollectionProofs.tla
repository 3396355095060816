-------------------------- MODULE CollectionProofs ---------------------------
(***************************************************************************)
(* What the models' proofs need of finite collections.                     *)
(*                                                                         *)
(* Sums. The models sum with MapThenSumSet, a fold that takes its elements *)
(* in an order nobody knows; SumOf is that fold for a function. For every  *)
(* finite set, it is an integer, the order does not matter, and sums split *)
(* over disjoint sets, follow a renaming, and group by key.                *)
(*                                                                         *)
(* Sequences. SetToSeq and SortedSeq list a finite set, each element once, *)
(* the latter in order; FlattenSeq joins sequences.                        *)
(*                                                                         *)
(* Induction is by a smallest counterexample (WFMin): the sets that have   *)
(* the property are themselves a set.                                      *)
(***************************************************************************)
EXTENDS Integers, Sequences, FiniteSets, SequencesExt, FiniteSetsExt, Sorting,
        FiniteSetTheorems, SequenceTheorems, TLAPS

\* The element a fold takes next.
Pick(s) == CHOOSE x \in s : TRUE

\* g sums v over every subset of S.
SumSol(v, S, g) ==
    g = [s \in SUBSET S |-> IF s = {} THEN 0 ELSE v[Pick(s)] + g[s \ {Pick(s)}]]

SumOf(v, S) == (CHOOSE g : SumSol(v, S, g))[S]

-----------------------------------------------------------------------------
\* A set of subsets that has every subset whose strict subsets it has, has them all.
LEMMA FiniteInduction ==
    ASSUME NEW S, IsFiniteSet(S), NEW B,
           \A T \in SUBSET S : (\A U \in SUBSET T : U # T => U \in B) => T \in B
    PROVE  \A T \in SUBSET S : T \in B
<1> DEFINE Bad == {T \in SUBSET S : T \notin B}
<1> SUFFICES ASSUME Bad # {} PROVE FALSE
  OBVIOUS
<1>1. IsWellFoundedOn(StrictSubsetOrdering(S), SUBSET S)
  <2>1. FiniteSubsetsOf(S) = SUBSET S
    BY FS_FiniteSubsetsOfFinite
  <2>2. IsWellFoundedOn(StrictSubsetOrdering(S), FiniteSubsetsOf(S))
    BY FS_StrictSubsetOrderingWellFounded
  <2> QED
    BY <2>1, <2>2
<1>2. \E T \in Bad : \A U \in Bad : <<U, T>> \notin StrictSubsetOrdering(S)
  <2>1. Bad \subseteq SUBSET S
    OBVIOUS
  <2> HIDE DEF Bad
  <2> QED
    BY <1>1, <2>1, WFMin
<1>3. PICK T \in Bad : \A U \in Bad : <<U, T>> \notin StrictSubsetOrdering(S)
  BY <1>2
<1>4. \A U \in SUBSET T : U # T => U \in B
  BY <1>3 DEF StrictSubsetOrdering
<1> QED
  BY <1>3, <1>4

\* The element a fold takes is one of the set.
LEMMA PickFacts == \A s : s # {} => Pick(s) \in s
BY DEF Pick

\* Two functions that sum v agree where both are defined.
LEMMA SumUnique ==
    ASSUME NEW S, IsFiniteSet(S), NEW T \in SUBSET S, NEW v, NEW g, NEW h,
           SumSol(v, S, g), SumSol(v, T, h)
    PROVE  \A s \in SUBSET T : g[s] = h[s]
<1> DEFINE B == {s \in SUBSET T : g[s] = h[s]}
<1>1. ASSUME NEW s \in SUBSET T, \A u \in SUBSET s : u # s => u \in B
      PROVE  s \in B
  <2>1. CASE s = {}
    BY <2>1 DEF SumSol
  <2>2. CASE s # {}
    <3>1. Pick(s) \in s
      BY <2>2, PickFacts
    <3>2. s \ {Pick(s)} \in B
      BY <1>1, <3>1
    <3>3. /\ g[s] = v[Pick(s)] + g[s \ {Pick(s)}]
          /\ h[s] = v[Pick(s)] + h[s \ {Pick(s)}]
      BY <2>2, <3>1 DEF SumSol
    <3> QED
      BY <3>2, <3>3
  <2> QED
    BY <2>1, <2>2
<1>2. IsFiniteSet(T)
  BY FS_Subset
<1> HIDE DEF B
<1>3. \A s \in SUBSET T : s \in B
  BY <1>1, <1>2, FiniteInduction
<1> QED
  BY <1>3 DEF B

\* Where there is such a function, CHOOSE finds one.
LEMMA SumChosen ==
    ASSUME NEW v, NEW S, \E g : SumSol(v, S, g)
    PROVE  SumSol(v, S, CHOOSE g : SumSol(v, S, g))
BY Zenon

\* There is one for every finite set.
LEMMA SumExists ==
    ASSUME NEW S, IsFiniteSet(S), NEW v
    PROVE  \A T \in SUBSET S : \E g : SumSol(v, T, g)
<1> DEFINE B == {T \in SUBSET S : \E g : SumSol(v, T, g)}
<1>1. ASSUME NEW T \in SUBSET S, \A U \in SUBSET T : U # T => U \in B
      PROVE  T \in B
  <2> DEFINE h == [s \in SUBSET T |->
                     IF s # T THEN SumOf(v, s)
                     ELSE IF T = {} THEN 0 ELSE v[Pick(T)] + SumOf(v, T \ {Pick(T)})]
  <2>1. ASSUME NEW s \in SUBSET T
        PROVE  h[s] = IF s = {} THEN 0 ELSE v[Pick(s)] + h[s \ {Pick(s)}]
    <3>1. CASE s = T
      <4>1. CASE T = {}
        BY <3>1, <4>1
      <4>2. CASE T # {}
        <5>1. Pick(T) \in T /\ T \ {Pick(T)} # T /\ T \ {Pick(T)} \in SUBSET T
          BY <4>2, PickFacts
        <5> QED
          BY <3>1, <4>2, <5>1
      <4> QED
        BY <4>1, <4>2
    <3>2. CASE s # T
      <4>1. h[s] = SumOf(v, s)
        BY <3>2
      <4>2. SumSol(v, s, CHOOSE g : SumSol(v, s, g))
        BY <1>1, <3>2, SumChosen
      <4>3. CASE s = {}
        BY <4>1, <4>2, <4>3 DEF SumOf, SumSol
      <4>4. CASE s # {}
        <5> DEFINE u == s \ {Pick(s)}
        <5>1. Pick(s) \in s /\ u \in SUBSET s /\ u # T /\ u \in SUBSET T
          BY <4>4, <3>2, PickFacts
        <5>2. SumSol(v, u, CHOOSE g : SumSol(v, u, g))
          BY <1>1, <5>1, SumChosen
        <5>3. IsFiniteSet(s)
          BY FS_Subset
        <5>4. (CHOOSE g : SumSol(v, s, g))[u] = (CHOOSE g : SumSol(v, u, g))[u]
          BY <5>1, <5>2, <5>3, <4>2, SumUnique
        <5>5. SumOf(v, s) = v[Pick(s)] + (CHOOSE g : SumSol(v, s, g))[u]
          BY <4>2, <4>4, <5>1 DEF SumOf, SumSol
        <5>6. h[u] = SumOf(v, u)
          BY <5>1
        <5> QED
          BY <4>1, <4>4, <5>4, <5>5, <5>6 DEF SumOf
      <4> QED
        BY <4>3, <4>4
    <3> QED
      BY <3>1, <3>2
  <2> HIDE DEF h
  <2>2. h = [s \in SUBSET T |-> h[s]]
    BY DEF h
  <2>3. SumSol(v, T, h)
    BY <2>1, <2>2 DEF SumSol
  <2> QED
    BY <2>3
<1> HIDE DEF B
<1>2. \A T \in SUBSET S : T \in B
  BY <1>1, FiniteInduction
<1> QED
  BY <1>2 DEF B

-----------------------------------------------------------------------------
(* What a sum is. *)

\* The sum of nothing is zero; any other takes one element and sums the rest.
LEMMA SumRec ==
    ASSUME NEW S, IsFiniteSet(S), NEW v
    PROVE  /\ SumOf(v, {}) = 0
           /\ S # {} => SumOf(v, S) = v[Pick(S)] + SumOf(v, S \ {Pick(S)})
<1>1. \A T \in SUBSET S : SumSol(v, T, CHOOSE g : SumSol(v, T, g))
  BY SumExists, SumChosen
<1>2. SumOf(v, {}) = 0
  <2>1. SumSol(v, {}, CHOOSE g : SumSol(v, {}, g))
    BY <1>1
  <2> QED
    BY <2>1 DEF SumOf, SumSol
<1>3. ASSUME S # {} PROVE SumOf(v, S) = v[Pick(S)] + SumOf(v, S \ {Pick(S)})
  <2> DEFINE u == S \ {Pick(S)}
  <2>1. u \in SUBSET S
    OBVIOUS
  <2>2. SumSol(v, S, CHOOSE g : SumSol(v, S, g)) /\ SumSol(v, u, CHOOSE g : SumSol(v, u, g))
    BY <1>1, <2>1
  <2>3. (CHOOSE g : SumSol(v, S, g))[u] = (CHOOSE g : SumSol(v, u, g))[u]
    BY <2>1, <2>2, SumUnique
  <2>4. SumOf(v, S) = v[Pick(S)] + (CHOOSE g : SumSol(v, S, g))[u]
    BY <1>3, <2>2 DEF SumOf, SumSol
  <2> QED
    BY <2>3, <2>4 DEF SumOf
<1> QED
  BY <1>2, <1>3

\* The sum of nothing.
LEMMA SumEmpty == \A v : SumOf(v, {}) = 0
BY SumRec, FS_EmptySet

\* A sum of integers is an integer.
LEMMA SumType ==
    ASSUME NEW S, IsFiniteSet(S), NEW v, \A x \in S : v[x] \in Int
    PROVE  SumOf(v, S) \in Int
<1> DEFINE B == {T \in SUBSET S : SumOf(v, T) \in Int}
<1>1. ASSUME NEW T \in SUBSET S, \A U \in SUBSET T : U # T => U \in B
      PROVE  T \in B
  <2>1. CASE T = {}
    BY <2>1, SumEmpty
  <2>2. CASE T # {}
    <3>1. IsFiniteSet(T) /\ Pick(T) \in T
      BY <2>2, PickFacts, FS_Subset
    <3>2. T \ {Pick(T)} \in B
      BY <1>1, <3>1
    <3>3. SumOf(v, T) = v[Pick(T)] + SumOf(v, T \ {Pick(T)})
      BY <2>2, <3>1, SumRec
    <3> QED
      BY <3>1, <3>2, <3>3
  <2> QED
    BY <2>1, <2>2
<1> HIDE DEF B
<1>2. S \in B
  BY <1>1, FiniteInduction
<1> QED
  BY <1>2 DEF B

\* ... and one of non-negative integers is not negative.
LEMMA SumNonNegative ==
    ASSUME NEW S, IsFiniteSet(S), NEW v, \A x \in S : v[x] \in Int /\ v[x] >= 0
    PROVE  SumOf(v, S) >= 0
<1> DEFINE B == {T \in SUBSET S : SumOf(v, T) \in Int /\ SumOf(v, T) >= 0}
<1>1. ASSUME NEW T \in SUBSET S, \A U \in SUBSET T : U # T => U \in B
      PROVE  T \in B
  <2>1. CASE T = {}
    BY <2>1, SumEmpty
  <2>2. CASE T # {}
    <3>1. IsFiniteSet(T)
      BY FS_Subset
    <3>2. Pick(T) \in T /\ SumOf(v, T) = v[Pick(T)] + SumOf(v, T \ {Pick(T)})
      BY <2>2, <3>1, SumRec, PickFacts
    <3>3. T \ {Pick(T)} \in B
      BY <1>1, <3>2
    <3> QED
      BY <3>2, <3>3
  <2> QED
    BY <2>1, <2>2
<1>2. S \in B
  <2> HIDE DEF B
  <2> QED
    BY <1>1, FiniteInduction
<1> QED
  BY <1>2

\* The order does not matter: any element may be taken first.
LEMMA SumRemove ==
    ASSUME NEW S, IsFiniteSet(S), NEW v, \A x \in S : v[x] \in Int, NEW y \in S
    PROVE  SumOf(v, S) = v[y] + SumOf(v, S \ {y})
<1> DEFINE B == {T \in SUBSET S : \A x \in T : SumOf(v, T) = v[x] + SumOf(v, T \ {x})}
<1>1. ASSUME NEW T \in SUBSET S, \A U \in SUBSET T : U # T => U \in B, NEW x \in T
      PROVE  SumOf(v, T) = v[x] + SumOf(v, T \ {x})
  <2> DEFINE p == Pick(T)
  <2>1. IsFiniteSet(T) /\ p \in T
    BY PickFacts, FS_Subset
  <2>2. SumOf(v, T) = v[p] + SumOf(v, T \ {p})
    BY <2>1, SumRec
  <2>3. CASE x = p
    BY <2>2, <2>3
  <2>4. CASE x # p
    <3>1. SumOf(v, T \ {p}) = v[x] + SumOf(v, (T \ {p}) \ {x})
      BY <1>1, <2>1, <2>4
    <3>2. SumOf(v, T \ {x}) = v[p] + SumOf(v, (T \ {x}) \ {p})
      BY <1>1, <2>1, <2>4
    <3>3. (T \ {p}) \ {x} = (T \ {x}) \ {p}
      OBVIOUS
    <3>4. IsFiniteSet((T \ {x}) \ {p})
      BY <2>1, FS_Subset
    <3>5. SumOf(v, (T \ {x}) \ {p}) \in Int
      BY <3>4, SumType
    <3>6. v[p] \in Int /\ v[x] \in Int
      BY <2>1
    <3>7. SumOf(v, (T \ {p}) \ {x}) = SumOf(v, (T \ {x}) \ {p})
      BY <3>3
    <3> DEFINE st == SumOf(v, T)
               sp == SumOf(v, T \ {p})
               sx == SumOf(v, T \ {x})
               sr == SumOf(v, (T \ {x}) \ {p})
    <3>8. st = v[p] + sp /\ sp = v[x] + sr /\ sx = v[p] + sr /\ sr \in Int
      BY <2>2, <3>1, <3>2, <3>5, <3>7
    <3> HIDE DEF p, st, sp, sx, sr
    <3>9. st = v[x] + sx
      BY <3>6, <3>8
    <3> QED
      BY <3>9 DEF st, sx
  <2> QED
    BY <2>3, <2>4
<1>2. \A T \in SUBSET S : (\A U \in SUBSET T : U # T => U \in B) => T \in B
  BY <1>1
<1>3. S \in B
  <2> HIDE DEF B
  <2> QED
    BY <1>2, FiniteInduction
<1> QED
  BY <1>3

\* Adding one element adds its value.
LEMMA SumAdd ==
    ASSUME NEW S, IsFiniteSet(S), NEW y, y \notin S, NEW v, \A x \in S \cup {y} : v[x] \in Int
    PROVE  SumOf(v, S \cup {y}) = v[y] + SumOf(v, S)
<1>1. IsFiniteSet(S \cup {y})
  BY FS_AddElement
<1>2. (S \cup {y}) \ {y} = S
  OBVIOUS
<1> QED
  BY <1>1, <1>2, SumRemove

\* Sums of functions that agree on the set are the same.
LEMMA SumSame ==
    ASSUME NEW S, IsFiniteSet(S), NEW v, NEW w, \A x \in S : v[x] = w[x]
    PROVE  SumOf(v, S) = SumOf(w, S)
<1> DEFINE B == {T \in SUBSET S : SumOf(v, T) = SumOf(w, T)}
<1>1. ASSUME NEW T \in SUBSET S, \A U \in SUBSET T : U # T => U \in B
      PROVE  T \in B
  <2>1. CASE T = {}
    BY <2>1, SumEmpty
  <2>2. CASE T # {}
    <3>1. IsFiniteSet(T) /\ Pick(T) \in T
      BY <2>2, PickFacts, FS_Subset
    <3>2. T \ {Pick(T)} \in B
      BY <1>1, <3>1
    <3>3. /\ SumOf(v, T) = v[Pick(T)] + SumOf(v, T \ {Pick(T)})
          /\ SumOf(w, T) = w[Pick(T)] + SumOf(w, T \ {Pick(T)})
      BY <2>2, <3>1, SumRec
    <3> QED
      BY <3>1, <3>2, <3>3
  <2> QED
    BY <2>1, <2>2
<1> HIDE DEF B
<1>2. S \in B
  BY <1>1, FiniteInduction
<1> QED
  BY <1>2 DEF B

\* A sum splits over disjoint sets.
LEMMA SumDisjoint ==
    ASSUME NEW S, IsFiniteSet(S), NEW R, IsFiniteSet(R), S \cap R = {},
           NEW v, \A x \in S \cup R : v[x] \in Int
    PROVE  SumOf(v, S \cup R) = SumOf(v, S) + SumOf(v, R)
<1> DEFINE B == {T \in SUBSET S : SumOf(v, T \cup R) = SumOf(v, T) + SumOf(v, R)}
<1>0. SumOf(v, R) \in Int
  BY SumType
<1>1. ASSUME NEW T \in SUBSET S, \A U \in SUBSET T : U # T => U \in B
      PROVE  T \in B
  <2>1. CASE T = {}
    <3>1. T \cup R = R
      BY <2>1
    <3> QED
      BY <1>0, <2>1, <3>1, SumEmpty
  <2>2. CASE T # {}
    <3>1. PICK x \in T : TRUE
      BY <2>2
    <3>2. SumOf(v, (T \ {x}) \cup R) = SumOf(v, T \ {x}) + SumOf(v, R)
      BY <1>1, <3>1
    <3>3. IsFiniteSet(T) /\ IsFiniteSet(T \ {x})
      BY FS_Subset
    <3>4. IsFiniteSet(T \cup R)
      BY <3>3, FS_Union
    <3>5. (T \cup R) \ {x} = (T \ {x}) \cup R
      BY <3>1
    <3>6. SumOf(v, T \cup R) = v[x] + SumOf(v, (T \ {x}) \cup R)
      BY <3>1, <3>4, <3>5, SumRemove
    <3>7. SumOf(v, T) = v[x] + SumOf(v, T \ {x})
      BY <3>1, <3>3, SumRemove
    <3>8. SumOf(v, T \ {x}) \in Int /\ v[x] \in Int
      BY <3>3, SumType
    <3>9. SumOf(v, T \cup R) = SumOf(v, T) + SumOf(v, R)
      BY <1>0, <3>2, <3>6, <3>7, <3>8
    <3> QED
      BY <3>9
  <2> QED
    BY <2>1, <2>2
<1> HIDE DEF B
<1>2. S \in B
  BY <1>1, FiniteInduction
<1> QED
  BY <1>2 DEF B

\* A sum follows a renaming of its elements.
LEMMA SumRename ==
    ASSUME NEW S, IsFiniteSet(S), NEW b, \A x, y \in S : b[x] = b[y] => x = y,
           NEW v, NEW w, \A x \in S : v[x] \in Int /\ w[b[x]] = v[x]
    PROVE  SumOf(w, {b[x] : x \in S}) = SumOf(v, S)
<1> DEFINE Im(T) == {b[x] : x \in T}
<1> DEFINE B == {T \in SUBSET S : IsFiniteSet(Im(T)) /\ SumOf(w, Im(T)) = SumOf(v, T)}
<1>1. ASSUME NEW T \in SUBSET S, \A U \in SUBSET T : U # T => U \in B
      PROVE  T \in B
  <2>1. CASE T = {}
    <3>1. Im(T) = {}
      BY <2>1
    <3> QED
      BY <2>1, <3>1, SumEmpty, FS_EmptySet
  <2>2. CASE T # {}
    <3>1. PICK x \in T : TRUE
      BY <2>2
    <3>2. IsFiniteSet(Im(T \ {x})) /\ SumOf(w, Im(T \ {x})) = SumOf(v, T \ {x})
      BY <1>1, <3>1
    <3>3. Im(T) = Im(T \ {x}) \cup {b[x]}
      BY <3>1
    <3>4. b[x] \notin Im(T \ {x})
      BY <3>1
    <3>5. \A z \in Im(T \ {x}) \cup {b[x]} : w[z] \in Int
      BY <3>1
    <3>6. IsFiniteSet(Im(T))
      <4>1. IsFiniteSet(Im(T \ {x}) \cup {b[x]})
        <5> HIDE DEF Im
        <5> QED
          BY <3>2, FS_AddElement
      <4> QED
        BY <3>3, <4>1
    <3>7. IsFiniteSet(T)
      BY FS_Subset
    <3>8. SumOf(v, T) = v[x] + SumOf(v, T \ {x})
      BY <3>1, <3>7, SumRemove
    <3> HIDE DEF Im
    <3>9. SumOf(w, Im(T)) = w[b[x]] + SumOf(w, Im(T \ {x}))
      BY <3>2, <3>3, <3>4, <3>5, SumAdd
    <3>10. SumOf(w, Im(T)) = SumOf(v, T)
      BY <3>1, <3>2, <3>8, <3>9
    <3> QED
      BY <3>6, <3>10
  <2> QED
    BY <2>1, <2>2
<1> HIDE DEF B
<1>2. S \in B
  BY <1>1, FiniteInduction
<1> QED
  BY <1>2 DEF B

\* A sum of the sums of the groups is the sum of all: key[x] is x's group.
LEMMA SumByKey ==
    ASSUME NEW K, IsFiniteSet(K), NEW S, IsFiniteSet(S), NEW key, \A x \in S : key[x] \in K,
           NEW v, \A x \in S : v[x] \in Int,
           NEW total, \A k \in K : total[k] = SumOf(v, {x \in S : key[x] = k})
    PROVE  SumOf(total, K) = SumOf(v, S)
<1> DEFINE In(T) == {x \in S : key[x] \in T}
<1> DEFINE B == {T \in SUBSET K : SumOf(total, T) = SumOf(v, In(T))}
<1>1. ASSUME NEW T \in SUBSET K, \A U \in SUBSET T : U # T => U \in B
      PROVE  T \in B
  <2>1. CASE T = {}
    <3>1. In(T) = {}
      BY <2>1
    <3> QED
      BY <2>1, <3>1, SumEmpty
  <2>2. CASE T # {}
    <3>1. PICK k \in T : TRUE
      BY <2>2
    <3> DEFINE G == {x \in S : key[x] = k}
    <3>2. SumOf(total, T \ {k}) = SumOf(v, In(T \ {k}))
      BY <1>1, <3>1
    <3>3. /\ In(T) = G \cup In(T \ {k}) /\ G \cap In(T \ {k}) = {}
          /\ IsFiniteSet(G) /\ IsFiniteSet(In(T \ {k}))
          /\ \A x \in G \cup In(T \ {k}) : v[x] \in Int
      BY <3>1, FS_Subset
    <3>4. IsFiniteSet(T)
      BY FS_Subset
    <3>5. \A j \in K : total[j] \in Int
      <4> SUFFICES ASSUME NEW j \in K PROVE SumOf(v, {x \in S : key[x] = j}) \in Int
        OBVIOUS
      <4>1. IsFiniteSet({x \in S : key[x] = j})
        BY FS_Subset
      <4> QED
        BY <4>1, SumType
    <3>6. total[k] = SumOf(v, G)
      BY <3>1
    <3> HIDE DEF In, G
    <3>7. SumOf(v, In(T)) = SumOf(v, G) + SumOf(v, In(T \ {k}))
      <4>1. SumOf(v, G \cup In(T \ {k})) = SumOf(v, G) + SumOf(v, In(T \ {k}))
        BY <3>3, SumDisjoint
      <4> QED
        BY <3>3, <4>1
    <3>8. SumOf(total, T) = total[k] + SumOf(total, T \ {k})
      BY <3>1, <3>4, <3>5, SumRemove
    <3> QED
      BY <3>2, <3>6, <3>7, <3>8
  <2> QED
    BY <2>1, <2>2
<1>2. K \in B
  <2> HIDE DEF B
  <2> QED
    BY <1>1, FiniteInduction
<1>3. In(K) = S
  OBVIOUS
<1> HIDE DEF In
<1> QED
  BY <1>2, <1>3

-----------------------------------------------------------------------------
(* Natural numbers. *)

\* A group by name.
GroupOf(S, key, k) == {x \in S : key[x] = k}

LEMMA SumByGroup ==
    ASSUME NEW K, IsFiniteSet(K), NEW S, IsFiniteSet(S), NEW key, \A x \in S : key[x] \in K,
           NEW v, \A x \in S : v[x] \in Int,
           NEW total, \A k \in K : total[k] = SumOf(v, GroupOf(S, key, k))
    PROVE  SumOf(total, K) = SumOf(v, S)
<1>1. \A k \in K : total[k] = SumOf(v, {x \in S : key[x] = k})
  BY DEF GroupOf
<1> QED
  BY <1>1, SumByKey

\* A finite set of integers that has one has a smallest one.
LEMMA FiniteMinimum ==
    ASSUME NEW S, S \subseteq Int, IsFiniteSet(S), S # {}
    PROVE  \E n \in S : \A m \in S : n <= m
<1> DEFINE B == {T \in SUBSET S : T # {} => \E n \in T : \A m \in T : n <= m}
<1>1. ASSUME NEW T \in SUBSET S, \A U \in SUBSET T : U # T => U \in B
      PROVE  T \in B
  <2> SUFFICES ASSUME NEW x \in T PROVE \E n \in T : \A m \in T : n <= m
    OBVIOUS
  <2>1. CASE T \ {x} = {}
    BY <2>1
  <2>2. CASE T \ {x} # {}
    <3>1. T \ {x} \in B
      BY <1>1
    <3>2. PICK n \in T \ {x} : \A m \in T \ {x} : n <= m
      BY <2>2, <3>1
    <3>3. CASE n <= x
      BY <3>2, <3>3
    <3>4. CASE ~(n <= x)
      <4>1. \A m \in T : x <= m
        BY <3>2, <3>4
      <4> QED
        BY <4>1
    <3> QED
      BY <3>3, <3>4
  <2> QED
    BY <2>1, <2>2
<1> HIDE DEF B
<1>2. \A T \in SUBSET S : T \in B
  BY <1>1, FiniteInduction
<1> QED
  BY <1>2 DEF B

\* A set of natural numbers that has one has a smallest one.
LEMMA LeastNatural ==
    ASSUME NEW S, S \subseteq Nat, S # {}
    PROVE  \E n \in S : \A m \in S : n <= m
<1> PICK k \in S : TRUE
  OBVIOUS
<1> DEFINE T == S \cap 0..k
<1>1. T \subseteq Int /\ T # {}
  OBVIOUS
<1>2. IsFiniteSet(T)
  <2>1. 0 \in Int /\ k \in Int /\ T \subseteq 0..k
    OBVIOUS
  <2>2. IsFiniteSet(0..k)
    BY <2>1, FS_Interval
  <2> HIDE DEF T
  <2> QED
    BY <2>1, <2>2, FS_Subset
<1> HIDE DEF T
<1>3. PICK n \in T : \A m \in T : n <= m
  BY <1>1, <1>2, FiniteMinimum
<1>4. ASSUME NEW m \in S PROVE n <= m
  BY <1>3 DEF T
<1> QED
  BY <1>3, <1>4 DEF T

\* A set that has 0, and the successor of each of its numbers, has them all.
LEMMA NaturalInduction ==
    ASSUME NEW B, 0 \in B, \A n \in Nat : n \in B => n + 1 \in B
    PROVE  \A n \in Nat : n \in B
<1> DEFINE Bad == {n \in Nat : n \notin B}
<1> SUFFICES ASSUME Bad # {} PROVE FALSE
  OBVIOUS
<1>1. PICK n \in Bad : \A m \in Bad : n <= m
  <2>1. Bad \subseteq Nat
    OBVIOUS
  <2> HIDE DEF Bad
  <2> QED
    BY <2>1, LeastNatural
<1>2. n \in Nat /\ n # 0 /\ n - 1 \in Nat
  BY <1>1
<1>3. n - 1 \in B
  BY <1>1, <1>2
<1> QED
  BY <1>1, <1>2, <1>3

-----------------------------------------------------------------------------
(* Sorting. *)

\* A function on 1..n is a sequence.
LEMMA FunctionIsSeq ==
    ASSUME NEW n \in Nat, NEW S, NEW f \in [1..n -> S]
    PROVE  f \in Seq(S) /\ Len(f) = n /\ DOMAIN f = 1..n
OBVIOUS

\* R orders the elements of S strictly and totally.
Orders(R, S) ==
    /\ \A x \in S : <<x, x>> \notin R
    /\ \A x, y \in S : x # y => <<x, y>> \in R \/ <<y, x>> \in R
    /\ \A x, y, z \in S : <<x, y>> \in R /\ <<y, z>> \in R => <<x, z>> \in R

\* What comes before x, which counts its place.
Below(R, S, x) == {y \in S : <<y, x>> \in R}

\* A finite set has a last element.
LEMMA LastElement ==
    ASSUME NEW S, IsFiniteSet(S), NEW R, Orders(R, S), S # {}
    PROVE  \E m \in S : \A x \in S : x # m => <<x, m>> \in R
<1> DEFINE B == {T \in SUBSET S : T # {} => \E m \in T : \A x \in T : x # m => <<x, m>> \in R}
<1>1. ASSUME NEW T \in SUBSET S, \A U \in SUBSET T : U # T => U \in B
      PROVE  T \in B
  <2> SUFFICES ASSUME NEW y \in T PROVE \E m \in T : \A x \in T : x # m => <<x, m>> \in R
    OBVIOUS
  <2>1. CASE T \ {y} = {}
    BY <2>1
  <2>2. CASE T \ {y} # {}
    <3>1. PICK m \in T \ {y} : \A x \in T \ {y} : x # m => <<x, m>> \in R
      <4>1. T \ {y} \in B
        BY <1>1
      <4> QED
        BY <2>2, <4>1
    <3>2. CASE <<y, m>> \in R
      BY <3>1, <3>2
    <3>3. CASE <<m, y>> \in R
      <4>1. \A x \in T : x # y => <<x, y>> \in R
        BY <3>1, <3>3 DEF Orders
      <4> QED
        BY <4>1
    <3> QED
      BY <3>1, <3>2, <3>3 DEF Orders
  <2> QED
    BY <2>1, <2>2
<1> HIDE DEF B
<1>2. \A T \in SUBSET S : T \in B
  BY <1>1, FiniteInduction
<1> QED
  BY <1>2 DEF B

\* The places are numbers, and follow the order.
LEMMA PlacesGrow ==
    ASSUME NEW S, IsFiniteSet(S), NEW R, Orders(R, S)
    PROVE  /\ \A x \in S : Cardinality(Below(R, S, x)) \in Nat
           /\ \A x, y \in S : <<x, y>> \in R =>
                 Cardinality(Below(R, S, x)) < Cardinality(Below(R, S, y))
<1>1. ASSUME NEW x \in S
      PROVE  IsFiniteSet(Below(R, S, x)) /\ Cardinality(Below(R, S, x)) \in Nat
  <2>1. Below(R, S, x) \in SUBSET S
    BY DEF Below
  <2> QED
    BY <2>1, FS_Subset, FS_CardinalityType
<1>2. ASSUME NEW x \in S, NEW y \in S, <<x, y>> \in R
      PROVE  Cardinality(Below(R, S, x)) < Cardinality(Below(R, S, y))
  <2>1. /\ Below(R, S, x) \in SUBSET Below(R, S, y)
        /\ x \in Below(R, S, y) /\ x \notin Below(R, S, x)
    BY <1>2 DEF Below, Orders
  <2>2. Below(R, S, x) # Below(R, S, y)
    BY <2>1
  <2>3. /\ Cardinality(Below(R, S, x)) <= Cardinality(Below(R, S, y))
        /\ Cardinality(Below(R, S, y)) # Cardinality(Below(R, S, x))
    BY <1>1, <2>1, <2>2, FS_Subset
  <2> QED
    BY <1>1, <2>3
<1> QED
  BY <1>1, <1>2

\* Every place is taken.
LEMMA PlacesTaken ==
    ASSUME NEW S, IsFiniteSet(S), NEW R, Orders(R, S)
    PROVE  \A i \in 1..Cardinality(S) : \E x \in S : Cardinality(Below(R, S, x)) = i - 1
<1> DEFINE B == {T \in SUBSET S : \A k \in 0..(Cardinality(T) - 1) :
                                     \E x \in T : Cardinality(Below(R, T, x)) = k}
<1>1. ASSUME NEW T \in SUBSET S, \A U \in SUBSET T : U # T => U \in B
      PROVE  T \in B
  <2> SUFFICES ASSUME NEW k \in 0..(Cardinality(T) - 1)
               PROVE  \E x \in T : Cardinality(Below(R, T, x)) = k
    OBVIOUS
  <2>1. IsFiniteSet(T) /\ Cardinality(T) \in Nat /\ T # {} /\ Orders(R, T)
    BY FS_Subset, FS_CardinalityType, FS_EmptySet DEF Orders
  <2>2. PICK m \in T : \A x \in T : x # m => <<x, m>> \in R
    BY <2>1, LastElement
  <2> DEFINE U == T \ {m}
  <2>3. Cardinality(U) = Cardinality(T) - 1 /\ U \in B
    <3>1. Cardinality(U) = Cardinality(T) - 1
      BY <2>1, <2>2, FS_RemoveElement
    <3>2. U \in SUBSET T /\ U # T
      BY <2>2
    <3> QED
      BY <1>1, <3>1, <3>2
  <2>4. Below(R, T, m) = U
    BY <2>1, <2>2 DEF Below, Orders
  <2>5. \A x \in U : Below(R, T, x) = Below(R, U, x)
    BY <2>1, <2>2 DEF Below, Orders
  <2>6. CASE k = Cardinality(T) - 1
    BY <2>2, <2>3, <2>4, <2>6
  <2>7. CASE k # Cardinality(T) - 1
    <3>1. k \in 0..(Cardinality(U) - 1)
      BY <2>1, <2>3, <2>7
    <3>2. PICK x \in U : Cardinality(Below(R, U, x)) = k
      BY <2>3, <3>1
    <3> QED
      BY <2>5, <3>2
  <2> QED
    BY <2>6, <2>7
<1> HIDE DEF B
<1>2. \A T \in SUBSET S : T \in B
  BY <1>1, FiniteInduction
<1>3. S \in B /\ Cardinality(S) \in Nat
  BY <1>2, FS_CardinalityType
<1>4. \A i \in 1..Cardinality(S) : i - 1 \in 0..(Cardinality(S) - 1)
  BY <1>3
<1> QED
  BY <1>3, <1>4 DEF B

\* Each entry of s comes before the later ones in R, and none is repeated.
Ascends(s, R) == \A i, j \in DOMAIN s : i < j => <<s[i], s[j]>> \in R /\ s[i] # s[j]

\* The elements by their places: every element once, in order.
LEMMA SortedFacts ==
    ASSUME NEW S, IsFiniteSet(S), NEW R, Orders(R, S), NEW s \in [1..Cardinality(S) -> S],
           \A i \in 1..Cardinality(S) : Cardinality(Below(R, S, s[i])) = i - 1
    PROVE  /\ Cardinality(S) \in Nat
           /\ s \in Seq(S) /\ Len(s) = Cardinality(S) /\ DOMAIN s = 1..Cardinality(S)
           /\ ToSet(s) = S
           /\ \A i, j \in DOMAIN s : i < j => <<s[i], s[j]>> \in R /\ s[i] # s[j]
           /\ Ascends(s, R)
<1> DEFINE n == Cardinality(S)
           c(x) == Cardinality(Below(R, S, x))
<1>0. n \in Nat /\ DOMAIN s = 1..n
  BY FS_CardinalityType
<1>1. ASSUME NEW i \in 1..n PROVE s[i] \in S /\ c(s[i]) = i - 1
  OBVIOUS
<1>2. s \in [1..n -> S]
  OBVIOUS
<1>3. s \in Seq(S) /\ Len(s) = n
  <2> HIDE DEF n
  <2> QED
    BY <1>0, <1>2, FunctionIsSeq
<1>4. ASSUME NEW x \in S, NEW y \in S, c(x) = c(y) PROVE x = y
  <2>1. c(x) \in Nat /\ c(y) \in Nat
    BY PlacesGrow
  <2>2. <<x, y>> \notin R /\ <<y, x>> \notin R
    BY <1>4, <2>1, PlacesGrow
  <2> QED
    BY <2>2 DEF Orders
<1>5. ASSUME NEW x \in S PROVE x \in ToSet(s)
  <2>1. c(x) \in Nat /\ c(x) < n
    <3>1. Below(R, S, x) \in SUBSET S /\ Below(R, S, x) # S
      BY DEF Below, Orders
    <3> QED
      BY <3>1, <1>0, FS_Subset, PlacesGrow
  <2>2. c(x) + 1 \in 1..n /\ c(s[c(x) + 1]) = c(x)
    BY <1>0, <1>1, <2>1
  <2>3. s[c(x) + 1] = x
    BY <1>1, <1>4, <2>2
  <2> QED
    BY <1>0, <2>2, <2>3 DEF ToSet
<1>6. ToSet(s) = S
  BY <1>0, <1>1, <1>5 DEF ToSet
<1>7. ASSUME NEW i \in 1..n, NEW j \in 1..n, i < j
      PROVE  <<s[i], s[j]>> \in R /\ s[i] # s[j]
  <2>1. s[i] \in S /\ s[j] \in S /\ c(s[i]) = i - 1 /\ c(s[j]) = j - 1
    BY <1>1
  <2>2. s[i] # s[j] /\ <<s[j], s[i]>> \notin R
    BY <1>7, <2>1, PlacesGrow
  <2> QED
    BY <2>1, <2>2 DEF Orders
<1>8. \A i, j \in DOMAIN s : i < j => <<s[i], s[j]>> \in R /\ s[i] # s[j]
  BY <1>0, <1>7
<1>9. Ascends(s, R)
  BY <1>8 DEF Ascends
<1> QED
  BY <1>0, <1>3, <1>6, <1>8, <1>9

-----------------------------------------------------------------------------
(* SetToSeq and FlattenSeq. *)

\* SetToSeq lists a finite set, each element once.
LEMMA SetToSeqFacts ==
    ASSUME NEW S, IsFiniteSet(S)
    PROVE  /\ SetToSeq(S) \in Seq(S) /\ Len(SetToSeq(S)) = Cardinality(S)
           /\ ToSet(SetToSeq(S)) = S
           /\ \A i, j \in DOMAIN SetToSeq(S) : SetToSeq(S)[i] = SetToSeq(S)[j] => i = j
<1> DEFINE n == Cardinality(S)
           s == SetToSeq(S)
<1>1. n \in Nat /\ ExistsBijection(1..n, S)
  BY FS_CardinalityType
<1>2. \E f \in [1..n -> S] : IsInjective(f)
  BY <1>1 DEF ExistsBijection, Bijection, Injection, IsInjective
<1>3. s \in [1..n -> S] /\ IsInjective(s)
  BY <1>2 DEF SetToSeq
<1>4. s \in Injection(1..n, S)
  BY <1>3 DEF Injection, IsInjective
<1>5. Cardinality(1..n) = n
  BY <1>1, FS_Interval
<1>6. s \in Surjection(1..n, S)
  BY <1>4, <1>5, FS_Injection
<1> HIDE DEF n, s
<1>7. s \in Seq(S) /\ Len(s) = n /\ DOMAIN s = 1..n
  BY <1>1, <1>3, FunctionIsSeq
<1>8. ToSet(s) = S
  BY <1>6, <1>7 DEF ToSet, Surjection
<1> QED
  BY <1>3, <1>7, <1>8 DEF n, s, IsInjective

\* g joins the first n sequences of q.
FlatSol(q, n, g) == g = [i \in 1..n |-> IF i = 1 THEN q[i] ELSE g[i - 1] \o q[i]]

\* FlattenSeq appends the sequences one after the other.
LEMMA FlattenIs ==
    ASSUME NEW X, NEW q \in Seq(Seq(X))
    PROVE  \E F : /\ F \in [0..Len(q) -> Seq(X)]
                  /\ F[0] = <<>>
                  /\ \A i \in 1..Len(q) : F[i] = F[i - 1] \o q[i]
                  /\ FlattenSeq(q) = F[Len(q)]
<1> DEFINE B == {n \in Nat : \E g : FlatSol(q, n, g)}
<1>1. 0 \in B
  <2>1. FlatSol(q, 0, <<>>)
    BY DEF FlatSol
  <2> QED
    BY <2>1
<1>2. ASSUME NEW n \in Nat, n \in B PROVE n + 1 \in B
  <2>1. PICK g : FlatSol(q, n, g)
    BY <1>2
  <2> DEFINE h == [i \in 1..(n + 1) |-> IF i \in 1..n THEN g[i]
                                         ELSE IF i = 1 THEN q[i] ELSE g[i - 1] \o q[i]]
  <2>2. \A i \in 1..n : g[i] = IF i = 1 THEN q[i] ELSE g[i - 1] \o q[i]
    BY <2>1 DEF FlatSol
  <2>3. \A i \in 1..(n + 1) : h[i] = IF i = 1 THEN q[i] ELSE h[i - 1] \o q[i]
    <3> TAKE i \in 1..(n + 1)
    <3>1. i # 1 => h[i - 1] = g[i - 1]
      OBVIOUS
    <3> QED
      BY <2>2, <3>1
  <2>4. FlatSol(q, n + 1, h)
    BY <2>3 DEF FlatSol
  <2> HIDE DEF h
  <2> QED
    BY <2>4
<1>3. \A n \in Nat : n \in B
  <2> HIDE DEF B
  <2> QED
    BY <1>1, <1>2, NaturalInduction
<1> DEFINE m == Len(q)
           f == CHOOSE g : FlatSol(q, m, g)
<1>4. m \in Nat /\ \A i \in 1..m : q[i] \in Seq(X)
  OBVIOUS
<1>5. FlatSol(q, m, f)
  <2>1. \E g : FlatSol(q, m, g)
    BY <1>3, <1>4
  <2> QED
    BY <2>1, Zenon
<1>6. \A i \in 1..m : f[i] \in Seq(X)
  <2> DEFINE C == {n \in Nat : n \in 1..m => f[n] \in Seq(X)}
  <2>1. 0 \in C
    OBVIOUS
  <2>2. ASSUME NEW n \in Nat, n \in C PROVE n + 1 \in C
    <3> SUFFICES ASSUME n + 1 \in 1..m PROVE f[n + 1] \in Seq(X)
      OBVIOUS
    <3> HIDE DEF f
    <3>1. f[n + 1] = IF n + 1 = 1 THEN q[n + 1] ELSE f[(n + 1) - 1] \o q[n + 1]
      BY <1>5 DEF FlatSol
    <3>2. CASE n = 0
      BY <1>4, <3>1, <3>2
    <3>3. CASE n # 0
      <4>1. f[n] \in Seq(X)
        BY <1>4, <2>2, <3>3
      <4>2. f[n + 1] = f[n] \o q[n + 1]
        <5>1. (n + 1) - 1 = n /\ n + 1 # 1
          BY <3>3
        <5> QED
          BY <3>1, <5>1
      <4> QED
        BY <1>4, <4>1, <4>2
    <3> QED
      BY <3>2, <3>3
  <2>3. \A n \in Nat : n \in C
    <3> HIDE DEF C
    <3> QED
      BY <2>1, <2>2, NaturalInduction
  <2> QED
    BY <1>4, <2>3
<1>7. FlattenSeq(q) = IF m = 0 THEN <<>> ELSE f[m]
  <2>1. CASE m = 0
    <3>1. FlattenSeq(q) = q /\ q = <<>>
      BY <2>1 DEF FlattenSeq
    <3> QED
      BY <2>1, <3>1
  <2>2. CASE m # 0
    BY <2>2 DEF FlattenSeq, FlatSol
  <2> QED
    BY <2>1, <2>2
<1> DEFINE F == [i \in 0..m |-> IF i = 0 THEN <<>> ELSE f[i]]
<1>8. \A i \in 1..m : f[i] = IF i = 1 THEN q[i] ELSE f[i - 1] \o q[i]
  <2> HIDE DEF f
  <2> QED
    BY <1>5 DEF FlatSol
<1> HIDE DEF f, m
<1>9. F \in [0..m -> Seq(X)] /\ F[0] = <<>>
  BY <1>4, <1>6
<1>10. \A i \in 1..m : F[i] = F[i - 1] \o q[i]
  <2> TAKE i \in 1..m
  <2>1. F[i] = f[i] /\ (i # 1 => F[i - 1] = f[i - 1]) /\ (i = 1 => F[i - 1] = <<>>)
    BY <1>4
  <2>2. i = 1 => <<>> \o q[i] = q[i]
    BY <1>4
  <2> QED
    BY <1>8, <2>1, <2>2
<1>11. FlattenSeq(q) = F[m]
  BY <1>4, <1>7
<1> HIDE DEF F
<1> QED
  BY <1>9, <1>10, <1>11 DEF m

\* Joining sequences of elements of X gives one.
LEMMA FlattenFacts ==
    ASSUME NEW X, NEW q \in Seq(Seq(X))
    PROVE  FlattenSeq(q) \in Seq(X)
<1>1. Len(q) \in 0..Len(q)
  OBVIOUS
<1>2. PICK F : F \in [0..Len(q) -> Seq(X)] /\ FlattenSeq(q) = F[Len(q)]
  BY FlattenIs
<1> QED
  BY <1>1, <1>2

\* The elements and the places of two joined sequences.
LEMMA ConcatFacts ==
    ASSUME NEW X, NEW s \in Seq(X), NEW t \in Seq(X)
    PROVE  /\ s \o t \in Seq(X)
           /\ DOMAIN (s \o t) = DOMAIN s \cup {Len(s) + j : j \in DOMAIN t}
           /\ \A i \in DOMAIN s : (s \o t)[i] = s[i]
           /\ \A j \in DOMAIN t : (s \o t)[Len(s) + j] = t[j] /\ Len(s) + j \notin DOMAIN s
           /\ ToSet(s \o t) = ToSet(s) \cup ToSet(t)
<1>1. /\ Len(s) \in Nat /\ DOMAIN s = 1..Len(s)
      /\ Len(t) \in Nat /\ DOMAIN t = 1..Len(t)
      /\ s \o t \in Seq(X) /\ Len(s \o t) = Len(s) + Len(t)
      /\ DOMAIN (s \o t) = 1..(Len(s) + Len(t))
  OBVIOUS
<1>2. /\ \A i \in DOMAIN s : (s \o t)[i] = s[i]
      /\ \A j \in DOMAIN t : (s \o t)[Len(s) + j] = t[j] /\ Len(s) + j \notin DOMAIN s
  BY <1>1
<1>3. DOMAIN (s \o t) = DOMAIN s \cup {Len(s) + j : j \in DOMAIN t}
  <2>1. ASSUME NEW i \in 1..(Len(s) + Len(t)), i \notin 1..Len(s)
        PROVE  i - Len(s) \in 1..Len(t) /\ i = Len(s) + (i - Len(s))
    BY <1>1, <2>1
  <2>2. \A i \in 1..(Len(s) + Len(t)) : i \in 1..Len(s) \/ \E j \in 1..Len(t) : i = Len(s) + j
    BY <2>1
  <2>3. \A j \in 1..Len(t) : Len(s) + j \in 1..(Len(s) + Len(t))
    BY <1>1
  <2>4. \A i \in 1..Len(s) : i \in 1..(Len(s) + Len(t))
    BY <1>1
  <2> QED
    BY <1>1, <2>2, <2>3, <2>4
<1> DEFINE u == s \o t
           n == Len(s)
<1>4. ToSet(u) = ToSet(s) \cup ToSet(t)
  <2>1. /\ DOMAIN u = DOMAIN s \cup {n + j : j \in DOMAIN t}
        /\ \A i \in DOMAIN s : u[i] = s[i]
        /\ \A j \in DOMAIN t : u[n + j] = t[j]
    BY <1>2, <1>3
  <2> HIDE DEF u, n
  <2>2. ASSUME NEW x \in ToSet(u) PROVE x \in ToSet(s) \cup ToSet(t)
    <3>1. PICK i \in DOMAIN u : x = u[i]
      BY DEF ToSet
    <3>2. CASE i \in DOMAIN s
      BY <2>1, <3>1, <3>2 DEF ToSet
    <3>3. CASE i \notin DOMAIN s
      <4>1. PICK j \in DOMAIN t : i = n + j
        BY <2>1, <3>3
      <4> QED
        BY <2>1, <3>1, <4>1 DEF ToSet
    <3> QED
      BY <3>2, <3>3
  <2>3. ASSUME NEW x \in ToSet(s) PROVE x \in ToSet(u)
    BY <2>1 DEF ToSet
  <2>4. ASSUME NEW x \in ToSet(t) PROVE x \in ToSet(u)
    <3>1. PICK j \in DOMAIN t : x = t[j]
      BY DEF ToSet
    <3>2. n + j \in DOMAIN u /\ x = u[n + j]
      BY <2>1, <3>1
    <3> QED
      BY <3>2 DEF ToSet
  <2> QED
    BY <2>2, <2>3, <2>4
<1> QED
  BY <1>1, <1>2, <1>3, <1>4

\* What a joined sequence contains.
LEMMA JoinedSet ==
    ASSUME NEW X, NEW q \in Seq(Seq(X))
    PROVE  \A x : x \in ToSet(FlattenSeq(q)) <=> \E i \in DOMAIN q : x \in ToSet(q[i])
<1> TAKE x
<1> DEFINE m == Len(q)
<1>1. m \in Nat /\ DOMAIN q = 1..m /\ \A i \in 1..m : q[i] \in Seq(X)
  OBVIOUS
<1>2. PICK F : /\ F \in [0..m -> Seq(X)]
               /\ F[0] = <<>>
               /\ \A i \in 1..m : F[i] = F[i - 1] \o q[i]
               /\ FlattenSeq(q) = F[m]
  BY FlattenIs
<1> HIDE DEF m
<1> DEFINE B == {n \in Nat : n \in 0..m => (x \in ToSet(F[n]) <=> \E i \in 1..n : x \in ToSet(q[i]))}
<1>3. 0 \in B
  BY <1>2 DEF ToSet
<1>4. ASSUME NEW n \in Nat, n \in B PROVE n + 1 \in B
  <2> SUFFICES ASSUME n + 1 \in 0..m
               PROVE  x \in ToSet(F[n + 1]) <=> \E i \in 1..(n + 1) : x \in ToSet(q[i])
    OBVIOUS
  <2>1. n \in 0..m /\ n + 1 \in 1..m /\ (n + 1) - 1 = n
    BY <1>1
  <2>2. F[n + 1] = F[n] \o q[n + 1] /\ F[n] \in Seq(X) /\ q[n + 1] \in Seq(X)
    BY <1>1, <1>2, <2>1
  <2>3. ToSet(F[n + 1]) = ToSet(F[n]) \cup ToSet(q[n + 1])
    BY <2>2, ConcatFacts
  <2>4. x \in ToSet(F[n]) <=> \E i \in 1..n : x \in ToSet(q[i])
    BY <1>4, <2>1
  <2>5. 1..(n + 1) = 1..n \cup {n + 1}
    OBVIOUS
  <2> QED
    BY <2>3, <2>4, <2>5
<1>5. m \in B
  <2> HIDE DEF B
  <2> QED
    BY <1>1, <1>3, <1>4, NaturalInduction
<1>6. x \in ToSet(F[m]) <=> \E i \in 1..m : x \in ToSet(q[i])
  <2>1. m \in 0..m
    BY <1>1
  <2> QED
    BY <1>5, <2>1
<1>7. FlattenSeq(q) = F[m]
  BY <1>2
<1>8. DOMAIN q = 1..m
  BY <1>1
<1> QED
  BY <1>6, <1>7, <1>8, Zenon

\* Joining sequences without repetition that have nothing in common repeats nothing.
LEMMA JoinedInjective ==
    ASSUME NEW X, NEW q \in Seq(Seq(X)), \A i \in DOMAIN q : IsInjective(q[i]),
           \A i, j \in DOMAIN q : i # j => ToSet(q[i]) \cap ToSet(q[j]) = {}
    PROVE  IsInjective(FlattenSeq(q))
<1> DEFINE m == Len(q)
<1>1. m \in Nat /\ DOMAIN q = 1..m /\ \A i \in 1..m : q[i] \in Seq(X)
  OBVIOUS
<1>2. PICK F : /\ F \in [0..m -> Seq(X)]
               /\ F[0] = <<>>
               /\ \A i \in 1..m : F[i] = F[i - 1] \o q[i]
               /\ FlattenSeq(q) = F[m]
  BY FlattenIs
<1> HIDE DEF m
<1> DEFINE B == {n \in Nat : n \in 0..m =>
                    /\ IsInjective(F[n])
                    /\ \A x \in ToSet(F[n]) : \E i \in 1..n : x \in ToSet(q[i])}
<1>3. 0 \in B
  BY <1>2 DEF ToSet, IsInjective
<1>4. ASSUME NEW n \in Nat, n \in B PROVE n + 1 \in B
  <2> SUFFICES ASSUME n + 1 \in 0..m
               PROVE  /\ IsInjective(F[n + 1])
                      /\ \A x \in ToSet(F[n + 1]) : \E i \in 1..(n + 1) : x \in ToSet(q[i])
    OBVIOUS
  <2>1. n \in 0..m /\ n + 1 \in 1..m /\ (n + 1) - 1 = n
    BY <1>1
  <2>2. F[n + 1] = F[n] \o q[n + 1] /\ F[n] \in Seq(X) /\ q[n + 1] \in Seq(X)
    BY <1>1, <1>2, <2>1
  <2> DEFINE s == F[n]
             t == q[n + 1]
  <2>a. s \in Seq(X) /\ t \in Seq(X) /\ F[n + 1] = s \o t
    BY <2>2
  <2>b. IsInjective(s) /\ \A x \in ToSet(s) : \E i \in 1..n : x \in ToSet(q[i])
    BY <1>4, <2>1
  <2>c. t = q[n + 1]
    OBVIOUS
  <2> HIDE DEF s, t
  <2>3. /\ DOMAIN (s \o t) = DOMAIN s \cup {Len(s) + j : j \in DOMAIN t}
        /\ \A i \in DOMAIN s : (s \o t)[i] = s[i]
        /\ \A j \in DOMAIN t : (s \o t)[Len(s) + j] = t[j] /\ Len(s) + j \notin DOMAIN s
        /\ ToSet(s \o t) = ToSet(s) \cup ToSet(t)
    BY <2>a, ConcatFacts
  <2>4. IsInjective(s) /\ \A x \in ToSet(s) : \E i \in 1..n : x \in ToSet(q[i])
    BY <2>b
  <2>5. 1..(n + 1) = 1..n \cup {n + 1} /\ n + 1 \notin 1..n /\ 1..(n + 1) \subseteq 1..m
    BY <1>1, <2>1
  <2>6. IsInjective(t)
    BY <1>1, <2>1, <2>c
  <2>7. ToSet(s) \cap ToSet(t) = {}
    <3>1. ASSUME NEW x \in ToSet(s) PROVE x \notin ToSet(t)
      <4>1. PICK i \in 1..n : x \in ToSet(q[i])
        BY <2>4
      <4>2. i \in DOMAIN q /\ n + 1 \in DOMAIN q /\ i # n + 1
        BY <1>1, <2>1, <2>5
      <4>3. ToSet(q[i]) \cap ToSet(q[n + 1]) = {}
        BY <4>2
      <4> QED
        BY <2>c, <4>1, <4>3
    <3> QED
      BY <3>1
  <2>8. IsInjective(s \o t)
    <3>1. ASSUME NEW i \in DOMAIN (s \o t), NEW k \in DOMAIN (s \o t), (s \o t)[i] = (s \o t)[k]
          PROVE  i = k
      <4>1. CASE i \in DOMAIN s /\ k \in DOMAIN s
        BY <2>3, <2>4, <3>1, <4>1 DEF IsInjective
      <4>2. CASE i \in DOMAIN s /\ k \notin DOMAIN s
        <5>1. PICK j \in DOMAIN t : k = Len(s) + j
          BY <2>3, <4>2
        <5>2. s[i] = t[j]
          BY <2>3, <3>1, <4>2, <5>1
        <5> QED
          BY <2>7, <4>2, <5>1, <5>2 DEF ToSet
      <4>3. CASE i \notin DOMAIN s /\ k \in DOMAIN s
        <5>1. PICK j \in DOMAIN t : i = Len(s) + j
          BY <2>3, <4>3
        <5>2. s[k] = t[j]
          BY <2>3, <3>1, <4>3, <5>1
        <5> QED
          BY <2>7, <4>3, <5>1, <5>2 DEF ToSet
      <4>4. CASE i \notin DOMAIN s /\ k \notin DOMAIN s
        <5>1. PICK j \in DOMAIN t : i = Len(s) + j
          BY <2>3, <4>4
        <5>2. PICK l \in DOMAIN t : k = Len(s) + l
          BY <2>3, <4>4
        <5>3. t[j] = t[l]
          BY <2>3, <3>1, <5>1, <5>2
        <5> QED
          BY <2>6, <5>1, <5>2, <5>3 DEF IsInjective
      <4> QED
        BY <4>1, <4>2, <4>3, <4>4
    <3> QED
      BY <3>1 DEF IsInjective
  <2>9. \A x \in ToSet(s \o t) : \E i \in 1..(n + 1) : x \in ToSet(q[i])
    BY <2>3, <2>4, <2>5, <2>c
  <2> QED
    BY <2>a, <2>8, <2>9
<1>5. m \in B
  <2> HIDE DEF B
  <2> QED
    BY <1>1, <1>3, <1>4, NaturalInduction
<1> QED
  BY <1>1, <1>2, <1>5

-----------------------------------------------------------------------------
(* Sums over sequences. *)

\* Values outside a subset count when they are zero inside.
LEMMA SumMask ==
    ASSUME NEW S, IsFiniteSet(S), NEW T \in SUBSET S, NEW v, NEW w,
           \A x \in T : v[x] \in Int /\ w[x] = v[x], \A x \in S \ T : w[x] = 0
    PROVE  SumOf(w, S) = SumOf(v, T)
<1> DEFINE U == S \ T
           zero == [x \in U |-> 0]
<1>1. IsFiniteSet(T) /\ IsFiniteSet(U) /\ T \cap U = {} /\ T \cup U = S
  BY FS_Subset
<1>2. \A x \in U : w[x] = 0
  OBVIOUS
<1> HIDE DEF U
<1>3. SumOf(w, S) = SumOf(w, T) + SumOf(w, U)
  <2>1. \A x \in T \cup U : w[x] \in Int
    BY <1>2
  <2>2. SumOf(w, T \cup U) = SumOf(w, T) + SumOf(w, U)
    BY <1>1, <2>1, SumDisjoint
  <2> QED
    BY <1>1, <2>2
<1>4. SumOf(w, U) = 0
  <2> DEFINE B == {R \in SUBSET U : SumOf(w, R) = 0}
  <2>1. ASSUME NEW R \in SUBSET U, \A Q \in SUBSET R : Q # R => Q \in B
        PROVE  R \in B
    <3>1. CASE R = {}
      BY <3>1, SumEmpty
    <3>2. CASE R # {}
      <4>1. IsFiniteSet(R)
        BY <1>1, FS_Subset
      <4>2. Pick(R) \in R /\ SumOf(w, R) = w[Pick(R)] + SumOf(w, R \ {Pick(R)})
        BY <3>2, <4>1, SumRec, PickFacts
      <4>3. R \ {Pick(R)} \in B
        BY <2>1, <4>2
      <4> QED
        BY <1>2, <4>2, <4>3
    <3> QED
      BY <3>1, <3>2
  <2>2. U \in B
    <3> HIDE DEF B
    <3>1. IsFiniteSet(U)
      BY <1>1
    <3>2. \A R \in SUBSET U : (\A Q \in SUBSET R : Q # R => Q \in B) => R \in B
      BY <2>1
    <3>3. \A R \in SUBSET U : R \in B
      BY <3>1, <3>2, FiniteInduction
    <3> QED
      BY <3>3
  <2> QED
    BY <2>2
<1>5. SumOf(w, T) = SumOf(v, T)
  BY <1>1, SumSame
<1>6. SumOf(v, T) \in Int
  BY <1>1, SumType
<1> QED
  BY <1>3, <1>4, <1>5, <1>6

\* Adding values adds the sums.
LEMMA SumPlus ==
    ASSUME NEW S, IsFiniteSet(S), NEW f, NEW g, NEW h,
           \A x \in S : f[x] \in Int /\ g[x] \in Int /\ h[x] = f[x] + g[x]
    PROVE  SumOf(h, S) = SumOf(f, S) + SumOf(g, S)
<1> DEFINE B == {T \in SUBSET S : SumOf(h, T) = SumOf(f, T) + SumOf(g, T)}
<1>1. ASSUME NEW T \in SUBSET S, \A U \in SUBSET T : U # T => U \in B
      PROVE  T \in B
  <2>1. CASE T = {}
    BY <2>1, SumEmpty
  <2>2. CASE T # {}
    <3>1. IsFiniteSet(T)
      BY FS_Subset
    <3> DEFINE x == Pick(T)
               U == T \ {x}
    <3>2. /\ x \in T
          /\ SumOf(h, T) = h[x] + SumOf(h, U)
          /\ SumOf(f, T) = f[x] + SumOf(f, U)
          /\ SumOf(g, T) = g[x] + SumOf(g, U)
      BY <2>2, <3>1, SumRec, PickFacts
    <3>3. U \in B /\ U \in SUBSET S
      BY <1>1, <3>2
    <3>4. IsFiniteSet(U)
      BY <3>1, FS_Subset
    <3> HIDE DEF x, U
    <3>5. SumOf(f, U) \in Int /\ SumOf(g, U) \in Int
      BY <3>3, <3>4, SumType
    <3> QED
      BY <3>2, <3>3, <3>5
  <2> QED
    BY <2>1, <2>2
<1>2. S \in B
  <2> HIDE DEF B
  <2> QED
    BY <1>1, FiniteInduction
<1> QED
  BY <1>2

\* The sum over the elements of a sequence, each as often as it occurs.
SeqSum(w, s) == SumOf([i \in DOMAIN s |-> w[s[i]]], DOMAIN s)

\* ... and over each of several sequences.
SeqSums(w, q) == [i \in DOMAIN q |-> SeqSum(w, q[i])]

LEMMA SeqSumType ==
    ASSUME NEW X, NEW s \in Seq(X), NEW w, \A x \in X : w[x] \in Int
    PROVE  SeqSum(w, s) \in Int
<1> DEFINE v == [i \in DOMAIN s |-> w[s[i]]]
<1>1. DOMAIN s = 1..Len(s) /\ Len(s) \in Nat /\ \A i \in DOMAIN s : v[i] \in Int
  OBVIOUS
<1>2. IsFiniteSet(DOMAIN s)
  BY <1>1, FS_Interval
<1> HIDE DEF v
<1>3. SumOf(v, DOMAIN s) \in Int
  BY <1>1, <1>2, SumType
<1> QED
  BY <1>3 DEF SeqSum, v

\* Joining two sequences adds their sums.
LEMMA SeqSumConcat ==
    ASSUME NEW X, NEW s \in Seq(X), NEW t \in Seq(X), NEW w, \A x \in X : w[x] \in Int
    PROVE  SeqSum(w, s \o t) = SeqSum(w, s) + SeqSum(w, t)
<1> DEFINE u == s \o t
           n == Len(s)
           vu == [i \in DOMAIN u |-> w[u[i]]]
           vs == [i \in DOMAIN s |-> w[s[i]]]
           vt == [j \in DOMAIN t |-> w[t[j]]]
           b == [j \in DOMAIN t |-> n + j]
           R == {b[j] : j \in DOMAIN t}
<1>1. /\ u \in Seq(X)
      /\ DOMAIN u = DOMAIN s \cup {n + j : j \in DOMAIN t}
      /\ \A i \in DOMAIN s : u[i] = s[i]
      /\ \A j \in DOMAIN t : u[n + j] = t[j] /\ n + j \notin DOMAIN s
  BY ConcatFacts
<1>2. /\ n \in Nat /\ DOMAIN s = 1..n /\ Len(t) \in Nat /\ DOMAIN t = 1..Len(t)
      /\ \A i \in DOMAIN s : s[i] \in X
      /\ \A j \in DOMAIN t : t[j] \in X /\ j \in Nat
  OBVIOUS
<1> HIDE DEF u, n
<1>3. IsFiniteSet(DOMAIN s) /\ IsFiniteSet(DOMAIN t)
  <2>1. IsFiniteSet(1..n)
    BY <1>2, FS_Interval
  <2>2. IsFiniteSet(1..Len(t))
    BY <1>2, FS_Interval
  <2> QED
    BY <1>2, <2>1, <2>2
<1>4. R = {n + j : j \in DOMAIN t} /\ DOMAIN s \cap R = {}
  BY <1>1
<1>5. \A j, k \in DOMAIN t : b[j] = b[k] => j = k
  BY <1>2
<1>6. \A j \in DOMAIN t : vt[j] \in Int /\ vu[b[j]] = vt[j]
  BY <1>1, <1>2
<1>7. /\ \A i \in DOMAIN s : vs[i] \in Int /\ vu[i] = vs[i]
      /\ DOMAIN u = DOMAIN s \cup R
  BY <1>1, <1>2, <1>4
<1>8. IsFiniteSet(R)
  <2>1. b \in Surjection(DOMAIN t, R)
    BY DEF Surjection
  <2> HIDE DEF b, R
  <2> QED
    BY <1>3, <2>1, FS_Surjection
<1> HIDE DEF vu, vs, vt, b
<1>9. SumOf(vu, R) = SumOf(vt, DOMAIN t)
  BY <1>3, <1>5, <1>6, SumRename
<1>10. \A x \in DOMAIN s \cup R : vu[x] \in Int
  BY <1>6, <1>7
<1> HIDE DEF R
<1>11. SumOf(vu, DOMAIN s \cup R) = SumOf(vu, DOMAIN s) + SumOf(vu, R)
  BY <1>3, <1>4, <1>8, <1>10, SumDisjoint
<1>12. SumOf(vu, DOMAIN s) = SumOf(vs, DOMAIN s)
  BY <1>3, <1>7, SumSame
<1>13. SumOf(vu, DOMAIN u) = SumOf(vs, DOMAIN s) + SumOf(vt, DOMAIN t)
  BY <1>7, <1>9, <1>11, <1>12
<1> QED
  BY <1>13 DEF SeqSum, u, vu, vs, vt

\* Joining many adds theirs.
LEMMA SeqSumFlatten ==
    ASSUME NEW X, NEW q \in Seq(Seq(X)), NEW w, \A x \in X : w[x] \in Int
    PROVE  /\ SeqSum(w, FlattenSeq(q)) = SumOf(SeqSums(w, q), DOMAIN q)
           /\ SeqSum(w, FlattenSeq(q)) = SumOf([i \in DOMAIN q |-> SeqSum(w, q[i])], DOMAIN q)
           /\ \A i \in DOMAIN q : SeqSum(w, q[i]) \in Int
<1> DEFINE m == Len(q)
           total == [i \in DOMAIN q |-> SeqSum(w, q[i])]
<1>1. m \in Nat /\ DOMAIN q = 1..m /\ \A i \in 1..m : q[i] \in Seq(X)
  OBVIOUS
<1>2. PICK F : /\ F \in [0..m -> Seq(X)]
               /\ F[0] = <<>>
               /\ \A i \in 1..m : F[i] = F[i - 1] \o q[i]
               /\ FlattenSeq(q) = F[m]
  BY FlattenIs
<1> HIDE DEF m
<1>3. \A i \in 1..m : total[i] = SeqSum(w, q[i]) /\ total[i] \in Int
  BY <1>1, SeqSumType
<1> HIDE DEF total
<1> DEFINE B == {n \in Nat : n \in 0..m => SeqSum(w, F[n]) = SumOf(total, 1..n)}
<1>4. 0 \in B
  <2>1. SeqSum(w, <<>>) = 0
    <3>1. DOMAIN <<>> = {}
      OBVIOUS
    <3> QED
      BY <3>1, SumEmpty DEF SeqSum
  <2>2. 1..0 = {}
    OBVIOUS
  <2> QED
    BY <1>2, <2>1, <2>2, SumEmpty
<1>5. ASSUME NEW n \in Nat, n \in B PROVE n + 1 \in B
  <2> SUFFICES ASSUME n + 1 \in 0..m
               PROVE  SeqSum(w, F[n + 1]) = SumOf(total, 1..(n + 1))
    OBVIOUS
  <2>1. n \in 0..m /\ n + 1 \in 1..m /\ (n + 1) - 1 = n
    BY <1>1
  <2>2. F[n + 1] = F[n] \o q[n + 1] /\ F[n] \in Seq(X) /\ q[n + 1] \in Seq(X)
    BY <1>1, <1>2, <2>1
  <2>3. SeqSum(w, F[n + 1]) = SeqSum(w, F[n]) + SeqSum(w, q[n + 1])
    BY <2>2, SeqSumConcat
  <2>4. SeqSum(w, F[n]) = SumOf(total, 1..n)
    BY <1>5, <2>1
  <2>5. 1..(n + 1) = 1..n \cup {n + 1} /\ n + 1 \notin 1..n /\ 1..(n + 1) \subseteq 1..m
    BY <1>1, <2>1
  <2>6. IsFiniteSet(1..n)
    BY FS_Interval
  <2>7. SumOf(total, 1..n \cup {n + 1}) = total[n + 1] + SumOf(total, 1..n)
    BY <1>3, <2>5, <2>6, SumAdd
  <2>8. SumOf(total, 1..n) \in Int /\ total[n + 1] \in Int
    BY <1>3, <2>1, <2>5, <2>6, SumType
  <2>9. total[n + 1] = SeqSum(w, q[n + 1])
    BY <1>3, <2>1
  <2>10. SumOf(total, 1..(n + 1)) = total[n + 1] + SumOf(total, 1..n)
    BY <2>5, <2>7
  <2> DEFINE a == SumOf(total, 1..n)
             b == total[n + 1]
  <2>11. SeqSum(w, F[n + 1]) = a + b /\ SumOf(total, 1..(n + 1)) = b + a /\ a \in Int /\ b \in Int
    BY <2>3, <2>4, <2>8, <2>9, <2>10
  <2> HIDE DEF a, b
  <2> QED
    BY <2>11
<1>6. m \in B
  <2> HIDE DEF B
  <2> QED
    BY <1>1, <1>4, <1>5, NaturalInduction
<1>7. SeqSum(w, F[m]) = SumOf(total, 1..m)
  <2>1. m \in 0..m
    BY <1>1
  <2> QED
    BY <1>6, <2>1
<1> HIDE DEF B
<1> QED
  BY <1>1, <1>2, <1>3, <1>7 DEF total, SeqSums

\* Over a sequence without repetition it is the sum over its elements.
LEMMA SeqSumOnce ==
    ASSUME NEW X, NEW s \in Seq(X), IsInjective(s), NEW w, \A x \in X : w[x] \in Int
    PROVE  SeqSum(w, s) = SumOf(w, ToSet(s)) /\ IsFiniteSet(ToSet(s))
<1> DEFINE v == [i \in DOMAIN s |-> w[s[i]]]
<1>1. DOMAIN s = 1..Len(s) /\ Len(s) \in Nat /\ \A i \in DOMAIN s : s[i] \in X
  OBVIOUS
<1>2. IsFiniteSet(DOMAIN s)
  BY <1>1, FS_Interval
<1>3. \A x, y \in DOMAIN s : s[x] = s[y] => x = y
  BY DEF IsInjective
<1>4. \A x \in DOMAIN s : v[x] \in Int /\ w[s[x]] = v[x]
  BY <1>1
<1>5. SumOf(w, {s[x] : x \in DOMAIN s}) = SumOf(v, DOMAIN s)
  <2> HIDE DEF v
  <2> QED
    BY <1>2, <1>3, <1>4, SumRename
<1>6. ToSet(s) = {s[x] : x \in DOMAIN s}
  BY DEF ToSet
<1>7. IsFiniteSet(ToSet(s))
  <2>1. s \in Surjection(DOMAIN s, ToSet(s))
    BY <1>1 DEF Surjection, ToSet
  <2> QED
    BY <1>2, <2>1, FS_Surjection
<1> QED
  BY <1>5, <1>6, <1>7 DEF SeqSum

\* ... and zero when each counts for nothing.
LEMMA SeqSumZero ==
    ASSUME NEW X, NEW s \in Seq(X), NEW w, \A i \in DOMAIN s : w[s[i]] = 0
    PROVE  SeqSum(w, s) = 0
<1> DEFINE v == [i \in DOMAIN s |-> w[s[i]]]
<1>1. IsFiniteSet(DOMAIN s)
  <2>1. DOMAIN s = 1..Len(s) /\ Len(s) \in Nat
    OBVIOUS
  <2> QED
    BY <2>1, FS_Interval
<1>2. \A x \in DOMAIN s : v[x] = 0
  OBVIOUS
<1> HIDE DEF v
<1>3. SumOf(v, DOMAIN s) = SumOf(v, {})
  BY <1>1, <1>2, SumMask
<1> QED
  BY <1>3, SumEmpty DEF SeqSum, v

\* A sum of values that are at most b is at most b for each of them.
LEMMA SumBound ==
    ASSUME NEW S, IsFiniteSet(S), NEW v, NEW b \in Int, \A x \in S : v[x] \in Int
    PROVE  /\ (\A x \in S : v[x] <= b) => SumOf(v, S) <= Cardinality(S) * b
           /\ (\A x \in S : v[x] >= b) => SumOf(v, S) >= Cardinality(S) * b
<1> DEFINE P(T) == /\ SumOf(v, T) \in Int /\ Cardinality(T) \in Nat
                   /\ (\A x \in T : v[x] <= b) => SumOf(v, T) <= Cardinality(T) * b
                   /\ (\A x \in T : v[x] >= b) => SumOf(v, T) >= Cardinality(T) * b
           B == {T \in SUBSET S : P(T)}
<1>1. ASSUME NEW T \in SUBSET S, \A U \in SUBSET T : U # T => U \in B
      PROVE  T \in B
  <2>1. CASE T = {}
    <3>1. SumOf(v, T) = 0 /\ Cardinality(T) = 0
      BY <2>1, SumEmpty, FS_EmptySet
    <3>2. 0 * b = 0
      OBVIOUS
    <3> QED
      BY <3>1, <3>2
  <2>2. CASE T # {}
    <3> DEFINE y == Pick(T)
               R == T \ {y}
    <3>1. IsFiniteSet(T) /\ y \in T
      BY <2>2, FS_Subset, PickFacts
    <3>2. SumOf(v, T) = v[y] + SumOf(v, R)
      BY <2>2, <3>1, SumRec
    <3>3. P(R) /\ R \subseteq T
      BY <1>1, <3>1
    <3>4. Cardinality(R) = Cardinality(T) - 1 /\ Cardinality(T) \in Nat
      BY <3>1, FS_RemoveElement, FS_CardinalityType
    <3>5. v[y] \in Int
      BY <3>1
    <3> DEFINE sr == SumOf(v, R)
               cr == Cardinality(R)
               st == SumOf(v, T)
               ct == Cardinality(T)
    <3>6. st = v[y] + sr /\ ct = cr + 1 /\ sr \in Int /\ cr \in Nat
      BY <3>2, <3>3, <3>4
    <3>7. ct * b = cr * b + b /\ cr * b \in Int
      <4> HIDE DEF st, sr, ct, cr
      <4> QED
        BY <3>6
    <3>8. (\A x \in T : v[x] <= b) => st <= ct * b
      <4> SUFFICES ASSUME \A x \in T : v[x] <= b PROVE st <= ct * b
        OBVIOUS
      <4>1. sr <= cr * b /\ v[y] <= b
        BY <3>1, <3>3
      <4> DEFINE c == cr * b
      <4> HIDE DEF st, sr, ct, cr, c, y
      <4>2. ct * b = c + b /\ c \in Int /\ sr <= c
        BY <3>7, <4>1 DEF c
      <4> QED
        BY <3>5, <3>6, <4>1, <4>2
    <3>9. (\A x \in T : v[x] >= b) => st >= ct * b
      <4> SUFFICES ASSUME \A x \in T : v[x] >= b PROVE st >= ct * b
        OBVIOUS
      <4>1. sr >= cr * b /\ v[y] >= b
        BY <3>1, <3>3
      <4> DEFINE c == cr * b
      <4> HIDE DEF st, sr, ct, cr, c, y
      <4>2. ct * b = c + b /\ c \in Int /\ sr >= c
        BY <3>7, <4>1 DEF c
      <4> QED
        BY <3>5, <3>6, <4>1, <4>2
    <3>10. st \in Int /\ ct \in Nat
      <4> HIDE DEF st, sr, ct, cr
      <4> QED
        BY <3>5, <3>6
    <3> QED
      BY <3>8, <3>9, <3>10
  <2> QED
    BY <2>1, <2>2
<1>2. S \in B
  <2> HIDE DEF B
  <2> QED
    BY <1>1, FiniteInduction
<1> QED
  BY <1>2
=============================================================================
