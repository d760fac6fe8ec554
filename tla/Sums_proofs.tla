---------------------------- MODULE Sums_proofs ----------------------------
(* Sums and products over finite sets.  The folds of the community modules  *)
(* are recursive functions over the subsets of a set; these lemmas say that *)
(* such a function exists, that it does not depend on the order in which    *)
(* the elements are taken out, and what follows for sums and products of    *)
(* integers.  The last section is about the ranks in a finite total order.  *)
EXTENDS Functions, FiniteSetTheorems, TLAPS

(* Every non-empty set of subsets of a finite set has a minimal member.     *)
LEMMA MinimalSubset ==
  ASSUME NEW S, IsFiniteSet(S), NEW B, B \subseteq SUBSET S, B # {}
  PROVE  \E T \in B : \A U \in SUBSET T : U # T => U \notin B
<1>1. IsWellFoundedOn(StrictSubsetOrdering(S), FiniteSubsetsOf(S))
  BY FS_StrictSubsetOrderingWellFounded
<1>2. FiniteSubsetsOf(S) = SUBSET S
  BY FS_FiniteSubsetsOfFinite
<1>3. PICK T \in B : \A U \in B : <<U, T>> \notin StrictSubsetOrdering(S)
  BY <1>1, <1>2, WFMin
<1>4. ASSUME NEW U \in SUBSET T, U # T, U \in B
      PROVE  FALSE
  <2>1. <<U, T>> \in (SUBSET S) \X (SUBSET S)
    BY <1>4
  <2>2. <<U, T>> \in StrictSubsetOrdering(S)
    BY <1>4, <2>1 DEF StrictSubsetOrdering
  <2>3. QED
    BY <1>3, <1>4, <2>2
<1>5. QED
  BY <1>4

-----------------------------------------------------------------------------
(* The recursive function behind a sum.                                     *)

Taken(s) == CHOOSE x \in s : TRUE

Running(g, f, S) ==
  g = [s \in SUBSET S |-> IF s = {} THEN 0 ELSE f[Taken(s)] + g[s \ {Taken(s)}]]

Sum(f, S) == FoldFunctionOnSet(+, 0, f, S)

LEMMA SumUnfolds ==
  ASSUME NEW f, NEW S
  PROVE  Sum(f, S) = (CHOOSE g : Running(g, f, S))[S]
  BY DEF Sum, FoldFunctionOnSet, MapThenFoldSet, Running, Taken

LEMMA TakenOut ==
  ASSUME NEW s, s # {}
  PROVE  Taken(s) \in s /\ s \ {Taken(s)} # s
  BY DEF Taken

LEMMA RunningStep ==
  ASSUME NEW f, NEW S, NEW g, Running(g, f, S), NEW s \in SUBSET S
  PROVE  g[s] = IF s = {} THEN 0 ELSE f[Taken(s)] + g[s \ {Taken(s)}]
  BY DEF Running

LEMMA RunningUnique ==
  ASSUME NEW f, NEW S, IsFiniteSet(S), NEW T \in SUBSET S,
         NEW g, Running(g, f, S), NEW h, Running(h, f, T)
  PROVE  \A s \in SUBSET T : g[s] = h[s]
<1> DEFINE B == {s \in SUBSET T : g[s] # h[s]}
<1> SUFFICES ASSUME B # {} PROVE FALSE
  OBVIOUS
<1>1. IsFiniteSet(T)
  BY FS_Subset
<1>2. PICK s \in B : \A U \in SUBSET s : U # s => U \notin B
  <2>1. B \subseteq SUBSET T
    OBVIOUS
  <2> HIDE DEF B
  <2>2. QED
    BY <1>1, <2>1, MinimalSubset
<1>3. s # {}
  <2>1. s = {} => g[s] = 0 /\ h[s] = 0
    BY RunningStep, s \in SUBSET S, s \in SUBSET T
  <2>2. QED
    BY <2>1
<1>4. s \ {Taken(s)} \notin B
  BY <1>2, <1>3, TakenOut
<1>5. /\ g[s] = f[Taken(s)] + g[s \ {Taken(s)}]
      /\ h[s] = f[Taken(s)] + h[s \ {Taken(s)}]
  <2>1. s \in SUBSET T /\ s \in SUBSET S
    BY <1>2
  <2> HIDE DEF B
  <2>2. g[s] = IF s = {} THEN 0 ELSE f[Taken(s)] + g[s \ {Taken(s)}]
    BY <2>1, RunningStep
  <2>3. h[s] = IF s = {} THEN 0 ELSE f[Taken(s)] + h[s \ {Taken(s)}]
    BY <2>1, RunningStep
  <2>4. QED
    BY <1>3, <2>2, <2>3
<1>6. QED
  BY <1>2, <1>4, <1>5

LEMMA RunningExists ==
  ASSUME NEW f, NEW S, IsFiniteSet(S)
  PROVE  \E g : Running(g, f, S)
<1> DEFINE Value(u) == (CHOOSE g : Running(g, f, u))[u]
           B == {T \in SUBSET S : ~ \E g : Running(g, f, T)}
<1> SUFFICES ASSUME B # {} PROVE FALSE
  OBVIOUS
<1>1. PICK T \in B : \A U \in SUBSET T : U # T => U \notin B
  <2>1. B \subseteq SUBSET S
    OBVIOUS
  <2> HIDE DEF B
  <2>2. QED
    BY <2>1, MinimalSubset
<1> DEFINE h == [s \in SUBSET T |-> IF s = {} THEN 0 ELSE f[Taken(s)] + Value(s \ {Taken(s)})]
<1>2. ASSUME NEW u \in SUBSET T, u # T
      PROVE  Value(u) = IF u = {} THEN 0 ELSE f[Taken(u)] + Value(u \ {Taken(u)})
  <2> DEFINE g == CHOOSE g : Running(g, f, u)
             v == u \ {Taken(u)}
             k == CHOOSE k : Running(k, f, v)
  <2>1. Running(g, f, u) /\ Running(k, f, v)
    BY <1>1, <1>2, v \in SUBSET T, v # T, u \in SUBSET S, v \in SUBSET S
  <2>2. IsFiniteSet(u)
    BY FS_Subset, u \in SUBSET S
  <2>3. g[u] = IF u = {} THEN 0 ELSE f[Taken(u)] + g[v]
    BY <2>1, RunningStep, u \in SUBSET u
  <2>4. g[v] = k[v]
    <3> HIDE DEF g, k
    <3> QED BY <2>1, <2>2, RunningUnique, v \in SUBSET u, v \in SUBSET v
  <2>5. QED
    BY <2>3, <2>4
<1>3. Running(h, f, T)
  <2>1. ASSUME NEW s \in SUBSET T, s # {}
        PROVE  Value(s \ {Taken(s)}) = h[s \ {Taken(s)}]
    <3> DEFINE u == s \ {Taken(s)}
    <3>1. u \in SUBSET T /\ u # T
      BY <2>1, TakenOut
    <3>2. h[u] = IF u = {} THEN 0 ELSE f[Taken(u)] + Value(u \ {Taken(u)})
      BY <3>1
    <3>3. QED
      BY <1>2, <3>1, <3>2
  <2>2. h = [s \in SUBSET T |-> IF s = {} THEN 0 ELSE f[Taken(s)] + h[s \ {Taken(s)}]]
    <3> HIDE DEF Value
    <3> QED BY <2>1
  <2>3. QED
    BY <2>2 DEF Running
<1>4. QED
  BY <1>3

-----------------------------------------------------------------------------
(* What follows for the sums.                                               *)

LEMMA SumIsRunning ==
  ASSUME NEW f, NEW S, IsFiniteSet(S), NEW T \in SUBSET S, NEW g, Running(g, f, S)
  PROVE  Sum(f, T) = g[T]
<1>1. IsFiniteSet(T)
  BY FS_Subset
<1> DEFINE h == CHOOSE h : Running(h, f, T)
<1>2. Running(h, f, T)
  BY <1>1, RunningExists
<1>3. Sum(f, T) = h[T]
  BY SumUnfolds
<1>4. QED
  <2> HIDE DEF h
  <2> QED BY <1>2, <1>3, RunningUnique, T \in SUBSET T

LEMMA SumStep ==
  ASSUME NEW f, NEW S, IsFiniteSet(S)
  PROVE  Sum(f, S) = IF S = {} THEN 0 ELSE f[Taken(S)] + Sum(f, S \ {Taken(S)})
<1>1. PICK g : Running(g, f, S)
  BY RunningExists
<1>2. Sum(f, S) = g[S] /\ Sum(f, S \ {Taken(S)}) = g[S \ {Taken(S)}]
  BY <1>1, SumIsRunning, S \in SUBSET S, S \ {Taken(S)} \in SUBSET S
<1>3. QED
  BY <1>1, <1>2, RunningStep, S \in SUBSET S

LEMMA SumEmpty ==
  ASSUME NEW f
  PROVE  Sum(f, {}) = 0
  BY SumStep, FS_EmptySet

LEMMA SumType ==
  ASSUME NEW f, NEW S, IsFiniteSet(S), \A x \in S : f[x] \in Int
  PROVE  Sum(f, S) \in Int
<1> DEFINE B == {T \in SUBSET S : Sum(f, T) \notin Int}
<1> SUFFICES ASSUME B # {} PROVE FALSE
  BY S \in SUBSET S
<1>1. B \subseteq SUBSET S
  OBVIOUS
<1>2. PICK T \in B : \A U \in SUBSET T : U # T => U \notin B
  <2> HIDE DEF B
  <2> QED BY <1>1, MinimalSubset
<1>3. IsFiniteSet(T)
  BY <1>1, FS_Subset
<1>4. T # {}
  BY SumEmpty
<1>5. Taken(T) \in T /\ Sum(f, T \ {Taken(T)}) \in Int
  BY <1>2, <1>4, TakenOut
<1>6. Sum(f, T) = f[Taken(T)] + Sum(f, T \ {Taken(T)})
  BY <1>3, <1>4, SumStep
<1>7. QED
  BY <1>5, <1>6

(* Any element may be taken out first.                                      *)
LEMMA SumRemove ==
  ASSUME NEW f, NEW S, IsFiniteSet(S), \A x \in S : f[x] \in Int, NEW y \in S
  PROVE  Sum(f, S) = f[y] + Sum(f, S \ {y})
<1> DEFINE P(T) == \A x \in T : Sum(f, T) = f[x] + Sum(f, T \ {x})
           B == {T \in SUBSET S : ~P(T)}
<1> SUFFICES ASSUME B # {} PROVE FALSE
  BY S \in SUBSET S
<1>1. B \subseteq SUBSET S
  OBVIOUS
<1>2. PICK T \in B : \A U \in SUBSET T : U # T => U \notin B
  <2> HIDE DEF B
  <2> QED BY <1>1, MinimalSubset
<1>3. PICK x \in T : Sum(f, T) # f[x] + Sum(f, T \ {x})
  OBVIOUS
<1> DEFINE z == Taken(T)
<1>4. z \in T /\ IsFiniteSet(T)
  BY <1>1, <1>3, FS_Subset, TakenOut
<1>5. Sum(f, T) = f[z] + Sum(f, T \ {z})
  BY <1>3, <1>4, SumStep
<1>6. x # z
  BY <1>3, <1>5
<1>7. P(T \ {z}) /\ P(T \ {x})
  BY <1>2, <1>3, <1>4
<1>8. /\ Sum(f, T \ {z}) = f[x] + Sum(f, (T \ {z}) \ {x})
      /\ Sum(f, T \ {x}) = f[z] + Sum(f, (T \ {x}) \ {z})
  BY <1>3, <1>4, <1>6, <1>7
<1>9. (T \ {x}) \ {z} = (T \ {z}) \ {x}
  OBVIOUS
<1>10. Sum(f, (T \ {x}) \ {z}) \in Int
  BY <1>1, <1>4, FS_Subset, SumType, (T \ {x}) \ {z} \in SUBSET T, T \in SUBSET S
<1>11. f[x] \in Int /\ f[z] \in Int
  BY <1>3, <1>4
<1> DEFINE rest == Sum(f, (T \ {x}) \ {z})
<1>12. Sum(f, T) = f[z] + (f[x] + rest) /\ Sum(f, T \ {x}) = f[z] + rest
  BY <1>5, <1>8, <1>9
<1>13. rest \in Int
  BY <1>10
<1>14. f[z] + (f[x] + rest) = f[x] + (f[z] + rest)
  <2> HIDE DEF rest, z
  <2> QED BY <1>11, <1>13
<1>15. QED
  BY <1>3, <1>12, <1>14

LEMMA SumAdd ==
  ASSUME NEW f, NEW S, IsFiniteSet(S), NEW y, y \notin S, \A x \in S \cup {y} : f[x] \in Int
  PROVE  Sum(f, S \cup {y}) = f[y] + Sum(f, S)
<1>1. IsFiniteSet(S \cup {y}) /\ (S \cup {y}) \ {y} = S
  BY FS_AddElement
<1>2. QED
  BY <1>1, SumRemove, y \in S \cup {y}

(* Induction over the subsets of a finite set, for a property given as the  *)
(* set of the subsets that have it.                                         *)
LEMMA SubsetInduction ==
  ASSUME NEW S, IsFiniteSet(S), NEW G, {} \in G,
         ASSUME NEW T \in SUBSET S, NEW x \in S \ T, T \in G
         PROVE  T \cup {x} \in G
  PROVE  S \in G
<1> DEFINE B == {T \in SUBSET S : T \notin G}
<1> SUFFICES ASSUME B # {} PROVE FALSE
  BY S \in SUBSET S
<1>1. B \subseteq SUBSET S
  OBVIOUS
<1>2. PICK T \in B : \A U \in SUBSET T : U # T => U \notin B
  <2> HIDE DEF B
  <2> QED BY <1>1, MinimalSubset
<1>3. PICK x : x \in T
  BY <1>2
<1>4. T \ {x} \in G /\ T \ {x} \in SUBSET S /\ x \in S \ (T \ {x})
  BY <1>2, <1>3
<1>5. (T \ {x}) \cup {x} = T
  BY <1>3
<1>6. QED
  BY <1>4, <1>5

(* Sums are linear.                                                         *)
LEMMA SumPlus ==
  ASSUME NEW S, IsFiniteSet(S), NEW f, NEW g, NEW h,
         \A x \in S : f[x] \in Int /\ g[x] \in Int /\ h[x] = f[x] + g[x]
  PROVE  Sum(h, S) = Sum(f, S) + Sum(g, S)
<1> DEFINE G == {T \in SUBSET S : Sum(h, T) = Sum(f, T) + Sum(g, T)}
<1>1. {} \in G
  BY SumEmpty
<1>2. ASSUME NEW T \in SUBSET S, NEW x \in S \ T, T \in G
      PROVE  T \cup {x} \in G
  <2>1. IsFiniteSet(T)
    BY FS_Subset
  <2>2. Sum(f, T) \in Int /\ Sum(g, T) \in Int
    BY <2>1, SumType
  <2>3. /\ Sum(f, T \cup {x}) = f[x] + Sum(f, T)
        /\ Sum(g, T \cup {x}) = g[x] + Sum(g, T)
        /\ Sum(h, T \cup {x}) = h[x] + Sum(h, T)
    BY <2>1, SumAdd
  <2>4. QED
    BY <1>2, <2>2, <2>3
<1>3. S \in G
  <2> HIDE DEF G
  <2> QED BY <1>1, <1>2, SubsetInduction
<1>4. QED
  BY <1>3

(* Equal summands have equal sums.                                          *)
LEMMA SumEqual ==
  ASSUME NEW S, IsFiniteSet(S), NEW f, NEW g, \A x \in S : f[x] \in Int /\ f[x] = g[x]
  PROVE  Sum(f, S) = Sum(g, S)
<1> DEFINE z == [x \in S |-> 0]
           G == {T \in SUBSET S : Sum(f, T) = Sum(g, T)}
<1>1. {} \in G
  BY SumEmpty
<1>2. ASSUME NEW T \in SUBSET S, NEW x \in S \ T, T \in G
      PROVE  T \cup {x} \in G
  <2>1. IsFiniteSet(T)
    BY FS_Subset
  <2>2. /\ Sum(f, T \cup {x}) = f[x] + Sum(f, T)
        /\ Sum(g, T \cup {x}) = g[x] + Sum(g, T)
    BY <2>1, SumAdd
  <2>3. QED
    BY <1>2, <2>2
<1>3. S \in G
  <2> HIDE DEF G
  <2> QED BY <1>1, <1>2, SubsetInduction
<1>4. QED
  BY <1>3

(* Summands that are not below zero have a sum that is not.                 *)
LEMMA SumNat ==
  ASSUME NEW S, IsFiniteSet(S), NEW f, \A x \in S : f[x] \in Nat
  PROVE  Sum(f, S) \in Nat
<1> DEFINE G == {T \in SUBSET S : Sum(f, T) \in Nat}
<1>1. {} \in G
  BY SumEmpty
<1>2. ASSUME NEW T \in SUBSET S, NEW x \in S \ T, T \in G
      PROVE  T \cup {x} \in G
  <2>1. IsFiniteSet(T)
    BY FS_Subset
  <2>2. Sum(f, T \cup {x}) = f[x] + Sum(f, T)
    BY <2>1, SumAdd
  <2>3. QED
    BY <1>2, <2>2
<1>3. S \in G
  <2> HIDE DEF G
  <2> QED BY <1>1, <1>2, SubsetInduction
<1>4. QED
  BY <1>3

(* The sum over a union of two disjoint sets.                               *)
LEMMA SumUnion ==
  ASSUME NEW S, IsFiniteSet(S), NEW R, IsFiniteSet(R), R \cap S = {},
         NEW f, \A x \in S \cup R : f[x] \in Int
  PROVE  Sum(f, R \cup S) = Sum(f, R) + Sum(f, S)
<1> DEFINE G == {T \in SUBSET S : Sum(f, R \cup T) = Sum(f, R) + Sum(f, T)}
<1>1. {} \in G
  BY SumEmpty, SumType, R \cup {} = R
<1>2. ASSUME NEW T \in SUBSET S, NEW x \in S \ T, T \in G
      PROVE  T \cup {x} \in G
  <2>1. IsFiniteSet(T) /\ IsFiniteSet(R \cup T)
    BY FS_Subset, FS_Union
  <2>2. Sum(f, T) \in Int /\ Sum(f, R) \in Int
    BY <2>1, SumType
  <2>3. Sum(f, T \cup {x}) = f[x] + Sum(f, T)
    BY <2>1, SumAdd
  <2>4. Sum(f, (R \cup T) \cup {x}) = f[x] + Sum(f, R \cup T)
    BY <2>1, SumAdd
  <2>5. (R \cup T) \cup {x} = R \cup (T \cup {x})
    OBVIOUS
  <2>6. f[x] \in Int /\ Sum(f, R \cup T) = Sum(f, R) + Sum(f, T)
    BY <1>2
  <2>7. f[x] + (Sum(f, R) + Sum(f, T)) = Sum(f, R) + (f[x] + Sum(f, T))
    BY <2>2, <2>6
  <2>8. Sum(f, R \cup (T \cup {x})) = Sum(f, R) + Sum(f, T \cup {x})
    BY <2>3, <2>4, <2>5, <2>6, <2>7
  <2>9. QED
    BY <2>8
<1>3. S \in G
  <2> HIDE DEF G
  <2> QED BY <1>1, <1>2, SubsetInduction
<1>4. QED
  BY <1>3

(* Changing one summand changes the sum by as much.                         *)
LEMMA SumChange ==
  ASSUME NEW S, IsFiniteSet(S), NEW f, NEW g, NEW y \in S, NEW d \in Int,
         \A x \in S : f[x] \in Int,
         g[y] = f[y] + d, \A x \in S \ {y} : g[x] = f[x]
  PROVE  Sum(g, S) = Sum(f, S) + d
<1>1. IsFiniteSet(S \ {y})
  BY FS_RemoveElement
<1>2. Sum(f, S \ {y}) = Sum(g, S \ {y}) /\ Sum(f, S \ {y}) \in Int
  BY <1>1, SumEqual, SumType
<1>3. \A x \in S : g[x] \in Int
  BY g[y] \in Int
<1>4. Sum(f, S) = f[y] + Sum(f, S \ {y})
  BY SumRemove
<1>5. Sum(g, S) = g[y] + Sum(g, S \ {y})
  BY <1>3, SumRemove
<1>6. f[y] \in Int
  OBVIOUS
<1>7. QED
  BY <1>2, <1>4, <1>5, <1>6

(* Nothing adds up to nothing.                                              *)
LEMMA SumZero ==
  ASSUME NEW S, IsFiniteSet(S), NEW f, \A x \in S : f[x] = 0
  PROVE  Sum(f, S) = 0
<1> DEFINE G == {T \in SUBSET S : Sum(f, T) = 0}
<1>1. {} \in G
  BY SumEmpty
<1>2. ASSUME NEW T \in SUBSET S, NEW x \in S \ T, T \in G
      PROVE  T \cup {x} \in G
  <2>1. IsFiniteSet(T)
    BY FS_Subset
  <2>2. Sum(f, T \cup {x}) = f[x] + Sum(f, T)
    BY <2>1, SumAdd
  <2>3. QED
    BY <1>2, <2>2
<1>3. S \in G
  <2> HIDE DEF G
  <2> QED BY <1>1, <1>2, SubsetInduction
<1>4. QED
  BY <1>3

-----------------------------------------------------------------------------
(* A fold that adds on the right: the same sum.                             *)
AddsOn(g, f, S) ==
  g = [s \in SUBSET S |-> IF s = {} THEN 0 ELSE g[s \ {Taken(s)}] + f[Taken(s)]]

LEMMA AddsOnExists ==
  ASSUME NEW f, NEW S, IsFiniteSet(S), \A x \in S : f[x] \in Int
  PROVE  \E g : AddsOn(g, f, S)
<1>1. PICK g : Running(g, f, S)
  BY RunningExists
<1>2. ASSUME NEW s \in SUBSET S, s # {}
      PROVE  f[Taken(s)] + g[s \ {Taken(s)}] = g[s \ {Taken(s)}] + f[Taken(s)]
  <2>1. Taken(s) \in s /\ s \ {Taken(s)} \in SUBSET S /\ IsFiniteSet(s \ {Taken(s)})
    BY <1>2, TakenOut, FS_Subset
  <2>2. g[s \ {Taken(s)}] = Sum(f, s \ {Taken(s)})
    BY <1>1, <2>1, SumIsRunning
  <2>3. g[s \ {Taken(s)}] \in Int /\ f[Taken(s)] \in Int
    BY <2>1, <2>2, SumType
  <2>4. QED
    BY <2>3
<1>3. AddsOn(g, f, S)
  BY <1>1, <1>2 DEF Running, AddsOn
<1>4. QED
  BY <1>3

LEMMA AddsOnIsSum ==
  ASSUME NEW f, NEW S, IsFiniteSet(S), \A x \in S : f[x] \in Int, NEW g, AddsOn(g, f, S)
  PROVE  Sum(f, S) = g[S]
<1> DEFINE B == {s \in SUBSET S : g[s] \notin Int}
<1>1. \A s \in SUBSET S : g[s] = IF s = {} THEN 0 ELSE g[s \ {Taken(s)}] + f[Taken(s)]
  BY DEF AddsOn
<1>2. B = {}
  <2> SUFFICES ASSUME B # {} PROVE FALSE
    OBVIOUS
  <2>1. PICK s \in B : \A t \in SUBSET s : t # s => t \notin B
    <3>1. B \subseteq SUBSET S
      OBVIOUS
    <3> HIDE DEF B
    <3>2. QED
      BY <3>1, MinimalSubset
  <2>2. CASE s = {}
    <3>1. s \in SUBSET S /\ g[s] \notin Int
      BY <2>1
    <3>2. g[s] = 0
      BY <1>1, <2>2, <3>1
    <3>3. QED
      BY <3>1, <3>2
  <2>3. CASE s # {}
    <3>1. Taken(s) \in s /\ s \ {Taken(s)} # s /\ s \in SUBSET S
      BY <2>1, <2>3, TakenOut
    <3>2. s \ {Taken(s)} \in SUBSET s /\ s \ {Taken(s)} \in SUBSET S
      BY <3>1
    <3>3. g[s \ {Taken(s)}] \in Int
      BY <2>1, <3>1, <3>2
    <3>4. g[s] \in Int
      BY <1>1, <2>3, <3>1, <3>3
    <3>5. QED
      BY <2>1, <3>4
  <2>4. QED
    BY <2>2, <2>3
<1>3. ASSUME NEW s \in SUBSET S, s # {}
      PROVE  f[Taken(s)] + g[s \ {Taken(s)}] = g[s \ {Taken(s)}] + f[Taken(s)]
  <2>1. Taken(s) \in s /\ s \ {Taken(s)} \in SUBSET S
    BY <1>3, TakenOut
  <2>2. g[s \ {Taken(s)}] \in Int /\ f[Taken(s)] \in Int
    BY <1>2, <2>1
  <2>3. QED
    BY <2>2
<1>4. Running(g, f, S)
  BY <1>3 DEF Running, AddsOn
<1>5. QED
  BY <1>4, SumIsRunning, S \in SUBSET S

(* The parts of a finite set add up to it.                                  *)
LEMMA PartsAddUp ==
  ASSUME NEW E, IsFiniteSet(E), NEW D, IsFiniteSet(D),
         NEW P, \A d \in D : P[d] \subseteq E, \A e \in E : \E d \in D : e \in P[d],
         \A c, d \in D : c # d => P[c] \cap P[d] = {},
         NEW h, \A d \in D : h[d] = Cardinality(P[d])
  PROVE  Sum(h, D) = Cardinality(E)
<1> DEFINE In(T) == {e \in E : \E d \in T : e \in P[d]}
           G == {T \in SUBSET D : Sum(h, T) = Cardinality(In(T))}
<1>1. {} \in G
  BY SumEmpty, FS_EmptySet, In({}) = {}
<1>2. ASSUME NEW T \in SUBSET D, NEW x \in D \ T, T \in G
      PROVE  T \cup {x} \in G
  <2> DEFINE one == P[x]
  <2>1. In(T \cup {x}) = In(T) \cup one /\ In(T) \cap one = {}
    OBVIOUS
  <2>2. IsFiniteSet(In(T)) /\ IsFiniteSet(one) /\ IsFiniteSet(T)
    BY FS_Subset
  <2>3. \A d \in D : h[d] \in Nat
    <3> SUFFICES ASSUME NEW d \in D PROVE h[d] \in Nat
      OBVIOUS
    <3>1. IsFiniteSet(P[d])
      BY FS_Subset
    <3>2. QED
      BY <3>1, FS_CardinalityType
  <2>4. h[x] = Cardinality(one) /\ Sum(h, T) = Cardinality(In(T))
    BY <1>2
  <2> HIDE DEF In, one
  <2>5. Cardinality(In(T)) \in Nat /\ Cardinality(one) \in Nat
    BY <2>2, FS_CardinalityType
  <2>6. Cardinality(In(T \cup {x})) = Cardinality(In(T)) + Cardinality(one)
    <3>1. Cardinality(In(T) \cup one) = Cardinality(In(T)) + Cardinality(one) - Cardinality({})
      BY <2>1, <2>2, FS_Union
    <3>2. Cardinality({}) = 0
      BY FS_EmptySet
    <3>3. Cardinality(In(T) \cup one) = Cardinality(In(T)) + Cardinality(one)
      BY <2>5, <3>1, <3>2
    <3>4. QED
      BY <2>1, <3>3
  <2>7. Sum(h, T \cup {x}) = h[x] + Sum(h, T)
    <3>1. \A d \in T \cup {x} : h[d] \in Int
      BY <2>3
    <3>2. QED
      BY <2>2, <3>1, SumAdd
  <2>8. Sum(h, T \cup {x}) = Cardinality(In(T \cup {x}))
    BY <2>4, <2>5, <2>6, <2>7
  <2>9. QED
    BY <2>8
<1>3. D \in G
  <2> HIDE DEF G
  <2> QED BY <1>1, <1>2, SubsetInduction
<1>4. In(D) = E
  OBVIOUS
<1>5. QED
  BY <1>3, <1>4

LEMMA SumTimes ==
  ASSUME NEW S, IsFiniteSet(S), NEW k \in Int, NEW f, NEW h,
         \A x \in S : f[x] \in Int /\ h[x] = k * f[x]
  PROVE  Sum(h, S) = k * Sum(f, S)
<1> DEFINE G == {T \in SUBSET S : Sum(h, T) = k * Sum(f, T)}
<1>1. {} \in G
  BY SumEmpty
<1>2. ASSUME NEW T \in SUBSET S, NEW x \in S \ T, T \in G
      PROVE  T \cup {x} \in G
  <2>1. IsFiniteSet(T)
    BY FS_Subset
  <2>2. /\ Sum(f, T \cup {x}) = f[x] + Sum(f, T)
        /\ Sum(h, T \cup {x}) = h[x] + Sum(h, T)
    BY <2>1, SumAdd
  <2>3. Sum(f, T) \in Int /\ f[x] \in Int
    BY <2>1, SumType
  <2>4. \A i, j \in Int : k * i + k * j = k * (i + j)
    BY ONLY k \in Int, SMT
  <2>5. Sum(h, T \cup {x}) = k * Sum(f, T \cup {x})
    BY <1>2, <2>2, <2>3, <2>4
  <2>6. QED
    BY <2>5
<1>3. S \in G
  <2> HIDE DEF G
  <2> QED BY <1>1, <1>2, SubsetInduction
<1>4. QED
  BY <1>3

LEMMA SumAtMost ==
  ASSUME NEW S, IsFiniteSet(S), NEW f, NEW g,
         \A x \in S : f[x] \in Int /\ g[x] \in Int /\ f[x] <= g[x]
  PROVE  Sum(f, S) <= Sum(g, S)
<1> DEFINE d == [x \in S |-> g[x] - f[x]]
<1>1. \A x \in S : d[x] \in Nat /\ d[x] \in Int /\ g[x] = f[x] + d[x]
  OBVIOUS
<1> HIDE DEF d
<1>2. Sum(d, S) \in Nat /\ Sum(f, S) \in Int
  BY <1>1, SumNat, SumType
<1>3. Sum(g, S) = Sum(f, S) + Sum(d, S)
  BY <1>1, SumPlus
<1>4. QED
  BY <1>2, <1>3

LEMMA SumConstant ==
  ASSUME NEW S, IsFiniteSet(S), NEW k \in Int, NEW f, \A x \in S : f[x] = k
  PROVE  Sum(f, S) = k * Cardinality(S)
<1> DEFINE G == {T \in SUBSET S : Sum(f, T) = k * Cardinality(T)}
<1>1. {} \in G
  <2>1. Sum(f, {}) = 0 /\ Cardinality({}) = 0
    BY SumEmpty, FS_EmptySet
  <2>2. QED
    BY <2>1
<1>2. ASSUME NEW T \in SUBSET S, NEW x \in S \ T, T \in G
      PROVE  T \cup {x} \in G
  <2>1. IsFiniteSet(T)
    BY FS_Subset
  <2>2. Sum(f, T \cup {x}) = k + Sum(f, T)
    BY <2>1, SumAdd
  <2>3. Cardinality(T \cup {x}) = Cardinality(T) + 1 /\ Cardinality(T) \in Nat
    BY <2>1, FS_AddElement, FS_CardinalityType
  <2>4. \A i \in Int : k + k * i = k * (i + 1)
    BY ONLY k \in Int, SMT
  <2>5. Sum(f, T \cup {x}) = k * Cardinality(T \cup {x})
    BY <1>2, <2>2, <2>3, <2>4
  <2>6. QED
    BY <2>5
<1>3. S \in G
  <2> HIDE DEF G
  <2> QED BY <1>1, <1>2, SubsetInduction
<1>4. QED
  BY <1>3

(* What is zero outside of a part is summed over the part.                  *)
LEMMA SumOverPart ==
  ASSUME NEW S, IsFiniteSet(S), NEW T \in SUBSET S, NEW f,
         \A x \in S : f[x] \in Int, \A x \in S \ T : f[x] = 0
  PROVE  Sum(f, S) = Sum(f, T)
<1> DEFINE R == S \ T
<1>1. IsFiniteSet(T) /\ IsFiniteSet(R) /\ R \cap T = {} /\ R \cup T = S
  BY FS_Subset
<1>2. (\A x \in T \cup R : f[x] \in Int) /\ \A x \in R : f[x] = 0
  OBVIOUS
<1> HIDE DEF R
<1>3. Sum(f, R \cup T) = Sum(f, R) + Sum(f, T)
  BY <1>1, <1>2, SumUnion
<1>4. Sum(f, R) = 0 /\ Sum(f, T) \in Int
  BY <1>1, <1>2, SumZero, SumType
<1>5. Sum(f, S) = Sum(f, R) + Sum(f, T)
  BY <1>1, <1>3, Zenon
<1>6. QED
  BY <1>4, <1>5

(* A sum is the sum of the sums over the parts of its set.                  *)
LEMMA SumOfParts ==
  ASSUME NEW E, IsFiniteSet(E), NEW D, IsFiniteSet(D),
         NEW P, \A d \in D : P[d] \subseteq E, \A e \in E : \E d \in D : e \in P[d],
         \A c, d \in D : c # d => P[c] \cap P[d] = {},
         NEW f, \A e \in E : f[e] \in Int,
         NEW h, \A d \in D : h[d] = Sum(f, P[d])
  PROVE  Sum(h, D) = Sum(f, E)
<1> DEFINE In(T) == {e \in E : \E d \in T : e \in P[d]}
           G == {T \in SUBSET D : Sum(h, T) = Sum(f, In(T))}
<1>1. {} \in G
  BY SumEmpty, In({}) = {}
<1>2. ASSUME NEW T \in SUBSET D, NEW x \in D \ T, T \in G
      PROVE  T \cup {x} \in G
  <2> DEFINE one == P[x]
  <2>1. In(T \cup {x}) = In(T) \cup one /\ In(T) \cap one = {}
    OBVIOUS
  <2>2. IsFiniteSet(In(T)) /\ IsFiniteSet(one) /\ IsFiniteSet(T)
    BY FS_Subset
  <2>3. \A d \in D : h[d] \in Int
    <3> SUFFICES ASSUME NEW d \in D PROVE h[d] \in Int
      OBVIOUS
    <3>1. IsFiniteSet(P[d])
      BY FS_Subset
    <3>2. QED
      BY <3>1, SumType
  <2>4. h[x] = Sum(f, one) /\ Sum(h, T) = Sum(f, In(T))
    BY <1>2
  <2>5. \A e \in one \cup In(T) : f[e] \in Int
    OBVIOUS
  <2> HIDE DEF In, one
  <2>6. Sum(f, In(T) \cup one) = Sum(f, In(T)) + Sum(f, one)
    BY <2>1, <2>2, <2>5, SumUnion
  <2>7. Sum(f, In(T)) \in Int /\ Sum(f, one) \in Int
    BY <2>2, <2>5, SumType
  <2>8. Sum(h, T \cup {x}) = h[x] + Sum(h, T)
    <3>1. \A d \in T \cup {x} : h[d] \in Int
      BY <2>3
    <3>2. QED
      BY <2>2, <3>1, SumAdd
  <2>9. Sum(h, T \cup {x}) = Sum(f, In(T \cup {x}))
    <3>1. Sum(f, In(T \cup {x})) = Sum(h, T) + h[x]
      BY <2>1, <2>4, <2>6, Zenon
    <3>2. Sum(h, T) \in Int /\ h[x] \in Int
      BY <2>4, <2>7
    <3>3. QED
      BY <2>8, <3>1, <3>2
  <2>10. QED
    BY <2>9
<1>3. D \in G
  <2> HIDE DEF G
  <2> QED BY <1>1, <1>2, SubsetInduction
<1>4. In(D) = E
  OBVIOUS
<1>5. QED
  BY <1>3, <1>4

(* Renaming the elements one to one keeps the sum.                          *)
LEMMA SumRenamed ==
  ASSUME NEW S, IsFiniteSet(S), NEW m, \A x, y \in S : m[x] = m[y] => x = y,
         NEW f, NEW g, \A x \in S : f[x] \in Int /\ g[m[x]] = f[x]
  PROVE  /\ IsFiniteSet({m[x] : x \in S})
         /\ Sum(g, {m[x] : x \in S}) = Sum(f, S)
<1> DEFINE To(T) == {m[x] : x \in T}
           G == {T \in SUBSET S : IsFiniteSet(To(T)) /\ Sum(g, To(T)) = Sum(f, T)}
<1>1. {} \in G
  BY SumEmpty, FS_EmptySet, To({}) = {}
<1>2. ASSUME NEW T \in SUBSET S, NEW x \in S \ T, T \in G
      PROVE  T \cup {x} \in G
  <2>1. IsFiniteSet(T) /\ IsFiniteSet(To(T)) /\ Sum(g, To(T)) = Sum(f, T)
    BY <1>2, FS_Subset
  <2>2. To(T \cup {x}) = To(T) \cup {m[x]} /\ m[x] \notin To(T)
    OBVIOUS
  <2>3. \A y \in To(T) \cup {m[x]} : g[y] \in Int
    OBVIOUS
  <2> HIDE DEF To
  <2>4. IsFiniteSet(To(T) \cup {m[x]})
    BY <2>1, FS_AddElement
  <2>5. Sum(g, To(T) \cup {m[x]}) = g[m[x]] + Sum(g, To(T))
    BY <2>1, <2>2, <2>3, SumAdd
  <2>6. Sum(f, T \cup {x}) = f[x] + Sum(f, T)
    BY <2>1, SumAdd
  <2>7. Sum(g, To(T \cup {x})) = Sum(f, T \cup {x})
    BY <2>1, <2>2, <2>5, <2>6
  <2>8. IsFiniteSet(To(T \cup {x}))
    BY <2>2, <2>4
  <2>9. QED
    BY <2>7, <2>8
<1>3. S \in G
  <2> HIDE DEF G
  <2> QED BY <1>1, <1>2, SubsetInduction
<1>4. QED
  BY <1>3

-----------------------------------------------------------------------------
(* The same for products.                                                   *)
Multiplying(g, f, S) ==
  g = [s \in SUBSET S |-> IF s = {} THEN 1 ELSE f[Taken(s)] * g[s \ {Taken(s)}]]

Product(f, S) == FoldFunctionOnSet(LAMBDA x, y : x * y, 1, f, S)

LEMMA ProductUnfolds ==
  ASSUME NEW f, NEW S
  PROVE  Product(f, S) = (CHOOSE g : Multiplying(g, f, S))[S]
  BY DEF Product, FoldFunctionOnSet, MapThenFoldSet, Multiplying, Taken

LEMMA MultiplyingStep ==
  ASSUME NEW f, NEW S, NEW g, Multiplying(g, f, S), NEW s \in SUBSET S
  PROVE  g[s] = IF s = {} THEN 1 ELSE f[Taken(s)] * g[s \ {Taken(s)}]
  BY DEF Multiplying

LEMMA MultiplyingUnique ==
  ASSUME NEW f, NEW S, IsFiniteSet(S), NEW T \in SUBSET S,
         NEW g, Multiplying(g, f, S), NEW h, Multiplying(h, f, T)
  PROVE  \A s \in SUBSET T : g[s] = h[s]
<1> DEFINE B == {s \in SUBSET T : g[s] # h[s]}
<1> SUFFICES ASSUME B # {} PROVE FALSE
  OBVIOUS
<1>1. IsFiniteSet(T)
  BY FS_Subset
<1>2. PICK s \in B : \A U \in SUBSET s : U # s => U \notin B
  <2>1. B \subseteq SUBSET T
    OBVIOUS
  <2> HIDE DEF B
  <2>2. QED
    BY <1>1, <2>1, MinimalSubset
<1>3. s # {}
  <2>1. s = {} => g[s] = 1 /\ h[s] = 1
    BY MultiplyingStep, s \in SUBSET S, s \in SUBSET T
  <2>2. QED
    BY <2>1
<1>4. s \ {Taken(s)} \notin B
  BY <1>2, <1>3, TakenOut
<1>5. /\ g[s] = f[Taken(s)] * g[s \ {Taken(s)}]
      /\ h[s] = f[Taken(s)] * h[s \ {Taken(s)}]
  <2>1. s \in SUBSET T /\ s \in SUBSET S
    BY <1>2
  <2> HIDE DEF B
  <2>2. g[s] = IF s = {} THEN 1 ELSE f[Taken(s)] * g[s \ {Taken(s)}]
    BY <2>1, MultiplyingStep
  <2>3. h[s] = IF s = {} THEN 1 ELSE f[Taken(s)] * h[s \ {Taken(s)}]
    BY <2>1, MultiplyingStep
  <2>4. QED
    BY <1>3, <2>2, <2>3
<1>6. QED
  BY <1>2, <1>4, <1>5

LEMMA MultiplyingExists ==
  ASSUME NEW f, NEW S, IsFiniteSet(S)
  PROVE  \E g : Multiplying(g, f, S)
<1> DEFINE Value(u) == (CHOOSE g : Multiplying(g, f, u))[u]
           B == {T \in SUBSET S : ~ \E g : Multiplying(g, f, T)}
<1> SUFFICES ASSUME B # {} PROVE FALSE
  OBVIOUS
<1>1. PICK T \in B : \A U \in SUBSET T : U # T => U \notin B
  <2>1. B \subseteq SUBSET S
    OBVIOUS
  <2> HIDE DEF B
  <2>2. QED
    BY <2>1, MinimalSubset
<1> DEFINE h == [s \in SUBSET T |-> IF s = {} THEN 1 ELSE f[Taken(s)] * Value(s \ {Taken(s)})]
<1>2. ASSUME NEW u \in SUBSET T, u # T
      PROVE  Value(u) = IF u = {} THEN 1 ELSE f[Taken(u)] * Value(u \ {Taken(u)})
  <2> DEFINE g == CHOOSE g : Multiplying(g, f, u)
             v == u \ {Taken(u)}
             k == CHOOSE k : Multiplying(k, f, v)
  <2>1. Multiplying(g, f, u) /\ Multiplying(k, f, v)
    BY <1>1, <1>2, v \in SUBSET T, v # T, u \in SUBSET S, v \in SUBSET S
  <2>2. IsFiniteSet(u)
    BY FS_Subset, u \in SUBSET S
  <2>3. g[u] = IF u = {} THEN 1 ELSE f[Taken(u)] * g[v]
    BY <2>1, MultiplyingStep, u \in SUBSET u
  <2>4. g[v] = k[v]
    <3> HIDE DEF g, k
    <3> QED BY <2>1, <2>2, MultiplyingUnique, v \in SUBSET u, v \in SUBSET v
  <2>5. QED
    BY <2>3, <2>4
<1>3. Multiplying(h, f, T)
  <2>1. ASSUME NEW s \in SUBSET T, s # {}
        PROVE  Value(s \ {Taken(s)}) = h[s \ {Taken(s)}]
    <3> DEFINE u == s \ {Taken(s)}
    <3>1. u \in SUBSET T /\ u # T
      BY <2>1, TakenOut
    <3>2. h[u] = IF u = {} THEN 1 ELSE f[Taken(u)] * Value(u \ {Taken(u)})
      BY <3>1
    <3>3. QED
      BY <1>2, <3>1, <3>2
  <2>2. h = [s \in SUBSET T |-> IF s = {} THEN 1 ELSE f[Taken(s)] * h[s \ {Taken(s)}]]
    <3> HIDE DEF Value
    <3> QED BY <2>1
  <2>3. QED
    BY <2>2 DEF Multiplying
<1>4. QED
  BY <1>3

-----------------------------------------------------------------------------
(* What follows for the products.                                               *)

LEMMA ProductIsMultiplying ==
  ASSUME NEW f, NEW S, IsFiniteSet(S), NEW T \in SUBSET S, NEW g, Multiplying(g, f, S)
  PROVE  Product(f, T) = g[T]
<1>1. IsFiniteSet(T)
  BY FS_Subset
<1> DEFINE h == CHOOSE h : Multiplying(h, f, T)
<1>2. Multiplying(h, f, T)
  BY <1>1, MultiplyingExists
<1>3. Product(f, T) = h[T]
  BY ProductUnfolds
<1>4. QED
  <2> HIDE DEF h
  <2> QED BY <1>2, <1>3, MultiplyingUnique, T \in SUBSET T

LEMMA ProductStep ==
  ASSUME NEW f, NEW S, IsFiniteSet(S)
  PROVE  Product(f, S) = IF S = {} THEN 1 ELSE f[Taken(S)] * Product(f, S \ {Taken(S)})
<1>1. PICK g : Multiplying(g, f, S)
  BY MultiplyingExists
<1>2. Product(f, S) = g[S] /\ Product(f, S \ {Taken(S)}) = g[S \ {Taken(S)}]
  BY <1>1, ProductIsMultiplying, S \in SUBSET S, S \ {Taken(S)} \in SUBSET S
<1>3. QED
  BY <1>1, <1>2, MultiplyingStep, S \in SUBSET S

LEMMA ProductEmpty ==
  ASSUME NEW f
  PROVE  Product(f, {}) = 1
  BY ProductStep, FS_EmptySet

LEMMA ProductType ==
  ASSUME NEW f, NEW S, IsFiniteSet(S), \A x \in S : f[x] \in Int
  PROVE  Product(f, S) \in Int
<1> DEFINE B == {T \in SUBSET S : Product(f, T) \notin Int}
<1> SUFFICES ASSUME B # {} PROVE FALSE
  BY S \in SUBSET S
<1>1. B \subseteq SUBSET S
  OBVIOUS
<1>2. PICK T \in B : \A U \in SUBSET T : U # T => U \notin B
  <2> HIDE DEF B
  <2> QED BY <1>1, MinimalSubset
<1>3. IsFiniteSet(T)
  BY <1>1, FS_Subset
<1>4. T # {}
  BY ProductEmpty
<1>5. Taken(T) \in T /\ Product(f, T \ {Taken(T)}) \in Int
  BY <1>2, <1>4, TakenOut
<1>6. Product(f, T) = f[Taken(T)] * Product(f, T \ {Taken(T)})
  BY <1>3, <1>4, ProductStep
<1>7. QED
  BY <1>5, <1>6

(* Any element may be taken out first.                                      *)
LEMMA ProductRemove ==
  ASSUME NEW f, NEW S, IsFiniteSet(S), \A x \in S : f[x] \in Int, NEW y \in S
  PROVE  Product(f, S) = f[y] * Product(f, S \ {y})
<1> DEFINE P(T) == \A x \in T : Product(f, T) = f[x] * Product(f, T \ {x})
           B == {T \in SUBSET S : ~P(T)}
<1> SUFFICES ASSUME B # {} PROVE FALSE
  BY S \in SUBSET S
<1>1. B \subseteq SUBSET S
  OBVIOUS
<1>2. PICK T \in B : \A U \in SUBSET T : U # T => U \notin B
  <2> HIDE DEF B
  <2> QED BY <1>1, MinimalSubset
<1>3. PICK x \in T : Product(f, T) # f[x] * Product(f, T \ {x})
  OBVIOUS
<1> DEFINE z == Taken(T)
<1>4. z \in T /\ IsFiniteSet(T)
  BY <1>1, <1>3, FS_Subset, TakenOut
<1>5. Product(f, T) = f[z] * Product(f, T \ {z})
  BY <1>3, <1>4, ProductStep
<1>6. x # z
  BY <1>3, <1>5
<1>7. P(T \ {z}) /\ P(T \ {x})
  BY <1>2, <1>3, <1>4
<1>8. /\ Product(f, T \ {z}) = f[x] * Product(f, (T \ {z}) \ {x})
      /\ Product(f, T \ {x}) = f[z] * Product(f, (T \ {x}) \ {z})
  BY <1>3, <1>4, <1>6, <1>7
<1>9. (T \ {x}) \ {z} = (T \ {z}) \ {x}
  OBVIOUS
<1>10. Product(f, (T \ {x}) \ {z}) \in Int
  BY <1>1, <1>4, FS_Subset, ProductType, (T \ {x}) \ {z} \in SUBSET T, T \in SUBSET S
<1>11. f[x] \in Int /\ f[z] \in Int
  BY <1>3, <1>4
<1> DEFINE rest == Product(f, (T \ {x}) \ {z})
<1>12. Product(f, T) = f[z] * (f[x] * rest) /\ Product(f, T \ {x}) = f[z] * rest
  BY <1>5, <1>8, <1>9
<1>13. rest \in Int
  BY <1>10
<1>14. f[z] * (f[x] * rest) = f[x] * (f[z] * rest)
  <2> HIDE DEF rest, z
  <2>1. \A i, j, k \in Int : i * (j * k) = j * (i * k)
    BY ONLY SMT
  <2>2. QED
    BY <1>11, <1>13, <2>1
<1>15. QED
  BY <1>3, <1>12, <1>14

LEMMA ProductAdd ==
  ASSUME NEW f, NEW S, IsFiniteSet(S), NEW y, y \notin S, \A x \in S \cup {y} : f[x] \in Int
  PROVE  Product(f, S \cup {y}) = f[y] * Product(f, S)
<1>1. IsFiniteSet(S \cup {y}) /\ (S \cup {y}) \ {y} = S
  BY FS_AddElement
<1>2. QED
  BY <1>1, ProductRemove, y \in S \cup {y}

LEMMA ProductPositive ==
  ASSUME NEW S, IsFiniteSet(S), NEW f, \A x \in S : f[x] \in Nat \ {0}
  PROVE  Product(f, S) \in Nat \ {0}
<1> DEFINE G == {T \in SUBSET S : Product(f, T) \in Nat \ {0}}
<1>1. {} \in G
  BY ProductEmpty
<1>2. ASSUME NEW T \in SUBSET S, NEW x \in S \ T, T \in G
      PROVE  T \cup {x} \in G
  <2>1. IsFiniteSet(T)
    BY FS_Subset
  <2>2. Product(f, T \cup {x}) = f[x] * Product(f, T)
    BY <2>1, ProductAdd
  <2>3. \A i, j \in Nat \ {0} : i * j \in Nat \ {0}
    BY ONLY SMT
  <2>4. Product(f, T \cup {x}) \in Nat \ {0}
    BY <1>2, <2>2, <2>3
  <2>5. QED
    BY <2>4
<1>3. S \in G
  <2> HIDE DEF G
  <2> QED BY <1>1, <1>2, SubsetInduction
<1>4. QED
  BY <1>3

LEMMA ProductEqual ==
  ASSUME NEW S, IsFiniteSet(S), NEW f, NEW g, \A x \in S : f[x] \in Int /\ f[x] = g[x]
  PROVE  Product(f, S) = Product(g, S)
<1> DEFINE G == {T \in SUBSET S : Product(f, T) = Product(g, T)}
<1>1. {} \in G
  BY ProductEmpty
<1>2. ASSUME NEW T \in SUBSET S, NEW x \in S \ T, T \in G
      PROVE  T \cup {x} \in G
  <2>1. IsFiniteSet(T)
    BY FS_Subset
  <2>2. /\ Product(f, T \cup {x}) = f[x] * Product(f, T)
        /\ Product(g, T \cup {x}) = g[x] * Product(g, T)
    BY <2>1, ProductAdd
  <2>3. Product(f, T \cup {x}) = Product(g, T \cup {x})
    BY <1>2, <2>2
  <2>4. QED
    BY <2>3
<1>3. S \in G
  <2> HIDE DEF G
  <2> QED BY <1>1, <1>2, SubsetInduction
<1>4. QED
  BY <1>3

(* The images of the members of a finite set are finitely many.             *)
LEMMA FiniteImage ==
  ASSUME NEW S, IsFiniteSet(S), NEW m
  PROVE  IsFiniteSet({m[x] : x \in S})
<1> DEFINE T == {m[x] : x \in S}
           f == [x \in S |-> m[x]]
<1>1. f \in Surjection(S, T)
  BY DEF Surjection
<1>2. QED
  <2> HIDE DEF f, T
  <2>1. IsFiniteSet(T)
    BY <1>1, FS_Surjection
  <2>2. QED
    BY <2>1 DEF T

(* Multiplying sums: the product of the sums is the sum, over all ways to   *)
(* choose one summand from each, of the products of what is chosen.         *)
Factors(d, B, M, T) ==
  \A i \in T : IsFiniteSet(B[i]) /\ B[i] \subseteq M /\ \A b \in B[i] : d[i][b] \in Int
Choices(B, M, T) == {c \in [T -> M] : \A i \in T : c[i] \in B[i]}
Chosen(d, T, c) == Product([i \in T |-> d[i][c[i]]], T)

ProductsOf(d, B, M, T) == [c \in Choices(B, M, T) |-> Chosen(d, T, c)]

LEMMA ChosenType ==
  ASSUME NEW T, IsFiniteSet(T), NEW M, NEW B, NEW d, Factors(d, B, M, T),
         NEW c \in Choices(B, M, T)
  PROVE  Chosen(d, T, c) \in Int
<1> DEFINE f == [i \in T |-> d[i][c[i]]]
<1>1. \A i \in T : f[i] \in Int
  BY DEF Choices, Factors
<1> HIDE DEF f
<1>2. Product(f, T) \in Int
  BY <1>1, ProductType
<1>3. QED
  BY <1>2 DEF Chosen, f

(* One more factor, chosen as b.                                            *)
Longer(T, x, b, c) == [i \in T \cup {x} |-> IF i = x THEN b ELSE c[i]]

LEMMA ChosenLonger ==
  ASSUME NEW T, IsFiniteSet(T), NEW x, x \notin T, NEW M, NEW B, NEW d,
         Factors(d, B, M, T \cup {x}),
         NEW b \in B[x], NEW c \in Choices(B, M, T)
  PROVE  Chosen(d, T \cup {x}, Longer(T, x, b, c)) = d[x][b] * Chosen(d, T, c)
<1> DEFINE long == Longer(T, x, b, c)
           f == [i \in T |-> d[i][c[i]]]
           g == [i \in T \cup {x} |-> d[i][long[i]]]
<1>1. \A i \in T : f[i] \in Int /\ g[i] = f[i]
  BY DEF Choices, Longer, Factors
<1>2. g[x] = d[x][b] /\ d[x][b] \in Int
  BY DEF Longer, Factors
<1>3. Chosen(d, T \cup {x}, long) = Product(g, T \cup {x}) /\ Chosen(d, T, c) = Product(f, T)
  BY DEF Chosen
<1> HIDE DEF f, g, long
<1>4. Product(g, T \cup {x}) = g[x] * Product(g, T)
  BY <1>1, <1>2, ProductAdd
<1>5. Product(g, T) = Product(f, T)
  BY <1>1, ProductEqual
<1>6. QED
  BY <1>2, <1>3, <1>4, <1>5 DEF long

OneLonger(T, x, M, B) ==
  /\ \A c \in Choices(B, M, T), b \in B[x] : Longer(T, x, b, c) \in Choices(B, M, T \cup {x})
  /\ \A e \in Choices(B, M, T \cup {x}) :
       \E c \in Choices(B, M, T) : e[x] \in B[x] /\ e = Longer(T, x, e[x], c)
  /\ \A c, e \in Choices(B, M, T), b, a \in B[x] :
       Longer(T, x, b, c) = Longer(T, x, a, e) => c = e /\ a = b

LEMMA LongerChoices ==
  ASSUME NEW T, NEW x, x \notin T, NEW M, NEW B, B[x] \subseteq M
  PROVE  OneLonger(T, x, M, B)
<1>1. \A c \in Choices(B, M, T), b \in B[x] : Longer(T, x, b, c) \in Choices(B, M, T \cup {x})
  BY DEF Choices, Longer
<1>2. ASSUME NEW e \in Choices(B, M, T \cup {x})
      PROVE  \E c \in Choices(B, M, T) : e[x] \in B[x] /\ e = Longer(T, x, e[x], c)
  <2> DEFINE c == [i \in T |-> e[i]]
  <2>1. e \in [T \cup {x} -> M] /\ (\A i \in T \cup {x} : e[i] \in B[i])
    BY DEF Choices
  <2>2. c \in Choices(B, M, T) /\ e[x] \in B[x]
    BY <2>1 DEF Choices
  <2>3. e = Longer(T, x, e[x], c)
    BY <2>1 DEF Longer
  <2>4. QED
    BY <2>2, <2>3
<1>3. ASSUME NEW c \in Choices(B, M, T), NEW e \in Choices(B, M, T), NEW b \in B[x], NEW a \in B[x],
             Longer(T, x, b, c) = Longer(T, x, a, e)
      PROVE  c = e /\ a = b
  <2> DEFINE l == Longer(T, x, b, c)
             k == Longer(T, x, a, e)
  <2>1. l[x] = b /\ k[x] = a /\ \A i \in T : l[i] = c[i] /\ k[i] = e[i]
    BY DEF Longer
  <2>2. l = k
    BY <1>3
  <2> HIDE DEF l, k
  <2>3. a = b /\ \A i \in T : c[i] = e[i]
    BY <2>1, <2>2
  <2>4. c \in [T -> M] /\ e \in [T -> M]
    BY DEF Choices
  <2>5. QED
    BY <2>3, <2>4
<1>4. QED
  BY <1>1, <1>2, <1>3 DEF OneLonger

LEMMA OneMoreFactor ==
  ASSUME NEW T, IsFiniteSet(T), NEW x, x \notin T, NEW M, NEW B, NEW d,
         Factors(d, B, M, T \cup {x}),
         IsFiniteSet(Choices(B, M, T))
  PROVE  /\ IsFiniteSet(Choices(B, M, T \cup {x}))
         /\ Sum(ProductsOf(d, B, M, T \cup {x}), Choices(B, M, T \cup {x})) =
              Sum(ProductsOf(d, B, M, T), Choices(B, M, T)) * Sum(d[x], B[x])
<1> DEFINE C == Choices(B, M, T)
           E == Choices(B, M, T \cup {x})
           K == B[x]
           w == ProductsOf(d, B, M, T)
           v == ProductsOf(d, B, M, T \cup {x})
           Part(b) == {Longer(T, x, b, c) : c \in C}
<1>a. /\ \A c \in C : w[c] = Chosen(d, T, c)
      /\ \A e \in E : v[e] = Chosen(d, T \cup {x}, e)
  BY DEF ProductsOf
<1> HIDE DEF w, v
<1>b. x \notin T /\ IsFiniteSet(K) /\ B[x] \subseteq M /\ Factors(d, B, M, T)
  BY DEF Factors
<1>0. /\ \A c \in C, b \in K : Longer(T, x, b, c) \in E
      /\ \A e \in E : \E c \in C : e[x] \in K /\ e = Longer(T, x, e[x], c)
      /\ \A c, e \in C, b, a \in K : Longer(T, x, b, c) = Longer(T, x, a, e) => c = e /\ a = b
  <2>1. x \notin T /\ B[x] \subseteq M
    BY <1>b
  <2>2. OneLonger(T, x, M, B)
    BY <2>1, LongerChoices
  <2>3. QED
    BY ONLY <2>2 DEF OneLonger
<1>1. ASSUME NEW b \in K
      PROVE  /\ IsFiniteSet(Part(b)) /\ Part(b) \subseteq E
             /\ Sum(v, Part(b)) = d[x][b] * Sum(w, C)
  <2> DEFINE m == [c \in C |-> Longer(T, x, b, c)]
             f == [c \in C |-> d[x][b] * w[c]]
  <2>1. \A c, e \in C : m[c] = m[e] => c = e
    <3> HIDE DEF C, E, K
    <3> QED BY <1>0
  <2>2. ASSUME NEW c \in C
        PROVE  w[c] \in Int /\ f[c] \in Int /\ v[m[c]] = f[c] /\ m[c] \in E
    <3>1. w[c] \in Int /\ d[x][b] \in Int
      BY <1>a, <1>b, ChosenType DEF Factors
    <3>2. m[c] \in E /\ m[c] = Longer(T, x, b, c)
      BY <1>0
    <3>3. Chosen(d, T \cup {x}, Longer(T, x, b, c)) = d[x][b] * Chosen(d, T, c)
      BY ChosenLonger
    <3>4. v[m[c]] = Chosen(d, T \cup {x}, m[c]) /\ w[c] = Chosen(d, T, c)
      BY <1>a, <3>2
    <3>5. f[c] = d[x][b] * w[c]
      OBVIOUS
    <3>6. QED
      BY <3>1, <3>2, <3>3, <3>4, <3>5
  <2>3. Part(b) = {m[c] : c \in C}
    OBVIOUS
  <2>4. \A c \in C : f[c] = d[x][b] * w[c]
    OBVIOUS
  <2>5. d[x][b] \in Int
    BY DEF Factors
  <2> HIDE DEF m, f, C, E, Part, K
  <2>6. IsFiniteSet(C)
    BY DEF C
  <2>7. /\ IsFiniteSet({m[c] : c \in C})
        /\ Sum(v, {m[c] : c \in C}) = Sum(f, C)
    <3>1. \A c \in C : f[c] \in Int /\ v[m[c]] = f[c]
      BY <2>2
    <3>2. QED
      BY ONLY <2>1, <2>6, <3>1, SumRenamed
  <2>8. Sum(f, C) = d[x][b] * Sum(w, C)
    BY <2>2, <2>4, <2>5, <2>6, SumTimes
  <2>9. QED
    BY <2>2, <2>3, <2>7, <2>8
<1> DEFINE P == [b \in K |-> Part(b)]
           h == [b \in K |-> Sum(v, Part(b))]
<1>2. \A b \in K : P[b] \subseteq E /\ IsFiniteSet(P[b]) /\ h[b] = Sum(v, P[b])
  <2> HIDE DEF C, E, Part, K
  <2> QED BY <1>1
<1>3. \A e \in E : \E b \in K : e \in P[b]
  <2> HIDE DEF C, E, K
  <2> QED BY <1>0
<1>4. \A a, b \in K : a # b => P[a] \cap P[b] = {}
  <2> HIDE DEF C, E, K
  <2> QED BY <1>0
<1>5. IsFiniteSet(E)
  <2>1. IsFiniteSet({P[b] : b \in K})
    <3> HIDE DEF C, E, Part, K, P
    <3>1. IsFiniteSet(K)
      BY <1>b
    <3>2. QED
      BY ONLY <3>1, FiniteImage
  <2>2. E = UNION {P[b] : b \in K}
    <3> HIDE DEF C, E, Part, K, P
    <3> QED BY <1>2, <1>3
  <2>3. \A Q \in {P[b] : b \in K} : IsFiniteSet(Q)
    <3> HIDE DEF C, E, Part, K, P
    <3> QED BY <1>2
  <2> HIDE DEF C, E, Part, K, P
  <2>4. IsFiniteSet(UNION {P[b] : b \in K})
    BY <2>1, <2>3, FS_UNION
  <2>5. QED
    BY <2>2, <2>4
<1>6. \A e \in E : v[e] \in Int
  <2>1. IsFiniteSet(T \cup {x})
    BY FS_AddElement
  <2>2. \A e \in E : Chosen(d, T \cup {x}, e) \in Int
    BY <2>1, ChosenType
  <2>3. QED
    BY <1>a, <2>2
<1>7. Sum(w, C) \in Int
  <2>1. \A c \in C : w[c] \in Int
    BY <1>a, <1>b, ChosenType
  <2>2. QED
    BY <2>1, SumType
<1>8. \A b \in K : d[x][b] \in Int /\ h[b] = Sum(w, C) * d[x][b]
  <2>1. \A b \in K : h[b] = d[x][b] * Sum(w, C)
    <3> HIDE DEF C, E, Part
    <3> QED BY <1>1
  <2>2. \A b \in K : d[x][b] \in Int
    BY DEF Factors
  <2>3. \A i, j \in Int : i * j = j * i
    BY ONLY SMT
  <2> HIDE DEF C, E, Part, K, h
  <2>4. QED
    BY <1>7, <2>1, <2>2, <2>3
<1> HIDE DEF C, E, Part, P, h
<1>9. Sum(h, K) = Sum(v, E)
  <2> HIDE DEF K
  <2>1. IsFiniteSet(K)
    BY <1>b
  <2>2. (\A b \in K : P[b] \subseteq E) /\ (\A b \in K : h[b] = Sum(v, P[b]))
    BY <1>2
  <2>3. QED
    BY ONLY <1>3, <1>4, <1>5, <1>6, <2>1, <2>2, SumOfParts
<1>10. Sum(h, K) = Sum(w, C) * Sum(d[x], K)
  <2> DEFINE s == Sum(w, C)
             u == d[x]
  <2>1. \A b \in K : u[b] \in Int /\ h[b] = s * u[b]
    BY <1>8
  <2>2. s \in Int /\ IsFiniteSet(K)
    BY <1>b, <1>7
  <2> HIDE DEF s, u, K
  <2>3. Sum(h, K) = s * Sum(u, K)
    BY <2>1, <2>2, SumTimes
  <2>4. QED
    BY <2>3 DEF s, u
<1>11. QED
  BY <1>5, <1>9, <1>10 DEF C, E, w, v

LEMMA ProductOfSums ==
  ASSUME NEW D, IsFiniteSet(D), NEW M, NEW B, NEW d, Factors(d, B, M, D),
         NEW w, \A c \in Choices(B, M, D) : w[c] = Chosen(d, D, c),
         NEW t, \A i \in D : t[i] = Sum(d[i], B[i])
  PROVE  /\ IsFiniteSet(Choices(B, M, D))
         /\ Sum(w, Choices(B, M, D)) = Product(t, D)
<1> DEFINE Of(T) == ProductsOf(d, B, M, T)
           G == {T \in SUBSET D : /\ IsFiniteSet(Choices(B, M, T))
                                  /\ Sum(Of(T), Choices(B, M, T)) = Product(t, T)}
<1>1. \A i \in D : t[i] \in Int
  BY SumType DEF Factors
<1>2. {} \in G
  <2> DEFINE e == [i \in {} |-> 0]
  <2>1. Choices(B, M, {}) = {e}
    BY DEF Choices
  <2>2. Of({})[e] = 1
    BY <2>1, ProductEmpty DEF Chosen, ProductsOf
  <2> HIDE DEF e, Of
  <2>3. IsFiniteSet({e}) /\ IsFiniteSet({}) /\ {} \cup {e} = {e}
    BY FS_Singleton, FS_EmptySet
  <2>4. Sum(Of({}), {} \cup {e}) = Of({})[e] + Sum(Of({}), {})
    BY <2>2, <2>3, SumAdd
  <2>5. Sum(Of({}), {e}) = 1
    BY <2>2, <2>3, <2>4, SumEmpty
  <2>6. QED
    BY <2>1, <2>3, <2>5, ProductEmpty
<1>3. ASSUME NEW T \in SUBSET D, NEW x \in D \ T, T \in G
      PROVE  T \cup {x} \in G
  <2>1. IsFiniteSet(T) /\ IsFiniteSet(Choices(B, M, T)) /\ Sum(Of(T), Choices(B, M, T)) = Product(t, T)
    BY <1>3, FS_Subset
  <2>3. x \notin T
    BY <1>3
  <2>4. Factors(d, B, M, T \cup {x})
    BY <1>3 DEF Factors
  <2>5. /\ IsFiniteSet(Choices(B, M, T \cup {x}))
        /\ Sum(Of(T \cup {x}), Choices(B, M, T \cup {x})) =
             Sum(Of(T), Choices(B, M, T)) * Sum(d[x], B[x])
    BY ONLY <2>1, <2>3, <2>4, OneMoreFactor DEF Of
  <2>6. Product(t, T \cup {x}) = t[x] * Product(t, T)
    BY <1>1, <2>1, <2>3, ProductAdd
  <2>7. Product(t, T) \in Int /\ t[x] \in Int
    BY <1>1, <2>1, ProductType
  <2>8. \A i, j \in Int : i * j = j * i
    BY ONLY SMT
  <2>9. Product(t, T) * t[x] = t[x] * Product(t, T)
    BY <2>7, <2>8
  <2> HIDE DEF Of, G
  <2>10. Sum(Of(T \cup {x}), Choices(B, M, T \cup {x})) = Product(t, T \cup {x})
    BY <2>1, <2>5, <2>6, <2>9
  <2>11. QED
    BY <2>5, <2>10 DEF G
<1>4. D \in G
  <2> HIDE DEF G
  <2> QED BY <1>2, <1>3, SubsetInduction
<1>5. Sum(w, Choices(B, M, D)) = Sum(Of(D), Choices(B, M, D))
  <2> DEFINE p == Of(D)
  <2>1. IsFiniteSet(Choices(B, M, D)) /\ \A c \in Choices(B, M, D) : p[c] = w[c]
    BY <1>4 DEF ProductsOf
  <2>2. \A c \in Choices(B, M, D) : w[c] \in Int
    BY ChosenType
  <2> HIDE DEF p
  <2>3. Sum(w, Choices(B, M, D)) = Sum(p, Choices(B, M, D))
    BY <2>1, <2>2, SumEqual
  <2>4. QED
    BY <2>3 DEF p
<1>6. QED
  BY <1>4, <1>5

-----------------------------------------------------------------------------
(* In a finite set in strict total order, given as the elements before each *)
(* of its elements, the numbers of elements before are the ranks.           *)
StrictTotal(p, S) ==
  /\ \A c \in S : p[c] \subseteq S \ {c}
  /\ \A c, e \in S : c # e => c \in p[e] \/ e \in p[c]
  /\ \A c \in S : \A e \in p[c] : p[e] \subseteq p[c]
IsRanks(r, S) ==
  /\ r \in [S -> 0..Cardinality(S) - 1]
  /\ \A c, e \in S : r[c] = r[e] => c = e
  /\ \A n \in 0..Cardinality(S) - 1 : \E c \in S : r[c] = n

LEMMA LowerRank ==
  ASSUME NEW S, IsFiniteSet(S), NEW p, StrictTotal(p, S), NEW c \in S, NEW e \in p[c]
  PROVE  Cardinality(p[e]) < Cardinality(p[c])
<1>1. e \in S /\ p[c] \subseteq S /\ p[e] \subseteq p[c] /\ e \notin p[e]
  BY DEF StrictTotal
<1>2. IsFiniteSet(p[c]) /\ IsFiniteSet(p[e])
  BY <1>1, FS_Subset
<1>3. Cardinality(p[e]) <= Cardinality(p[c]) /\ (Cardinality(p[c]) = Cardinality(p[e]) => p[c] = p[e])
  BY <1>1, <1>2, FS_Subset
<1>4. Cardinality(p[e]) # Cardinality(p[c])
  BY <1>1, <1>3
<1>5. Cardinality(p[e]) \in Nat /\ Cardinality(p[c]) \in Nat
  BY <1>2, FS_CardinalityType
<1>6. QED
  BY <1>3, <1>4, <1>5

LEMMA CardinalitiesAreRanks ==
  ASSUME NEW S, IsFiniteSet(S), NEW p, StrictTotal(p, S)
  PROVE  IsRanks([c \in S |-> Cardinality(p[c])], S)
<1> DEFINE N == Cardinality(S)
           K == 0..N - 1
           r == [c \in S |-> Cardinality(p[c])]
<1>1. N \in Nat
  BY FS_CardinalityType
<1>2. ASSUME NEW c \in S
      PROVE  r[c] \in K
  <2>1. p[c] \subseteq S \ {c}
    BY DEF StrictTotal
  <2>2. IsFiniteSet(S \ {c}) /\ Cardinality(S \ {c}) = N - 1
    BY FS_RemoveElement
  <2>3. IsFiniteSet(p[c]) /\ Cardinality(p[c]) <= N - 1
    BY <2>1, <2>2, FS_Subset
  <2>4. Cardinality(p[c]) \in Nat
    BY <2>3, FS_CardinalityType
  <2>5. QED
    BY <1>1, <2>3, <2>4
<1>3. \A c, e \in S : r[c] = r[e] => c = e
  <2> SUFFICES ASSUME NEW c \in S, NEW e \in S, r[c] = r[e], c # e
               PROVE  FALSE
    OBVIOUS
  <2>1. c \in p[e] \/ e \in p[c]
    BY DEF StrictTotal
  <2>2. Cardinality(p[c]) < Cardinality(p[e]) \/ Cardinality(p[e]) < Cardinality(p[c])
    BY <2>1, LowerRank
  <2>3. r[c] \in Int /\ r[c] = Cardinality(p[c]) /\ r[e] = Cardinality(p[e])
    BY <1>1, <1>2
  <2>4. QED
    BY <2>2, <2>3
<1>4. r \in Injection(S, K)
  <2>1. r \in [S -> K]
    BY <1>2
  <2> HIDE DEF r, K
  <2>2. QED
    BY <1>3, <2>1 DEF Injection, IsInjective
<1>5. IsFiniteSet(K) /\ Cardinality(K) = N
  BY <1>1, FS_Interval
<1>6. r \in Surjection(S, K)
  <2> HIDE DEF r, K
  <2> QED BY <1>4, <1>5, FS_Injection
<1>7. \A n \in K : \E c \in S : r[c] = n
  <2> HIDE DEF r, K
  <2> QED BY <1>6 DEF Surjection
<1>8. QED
  <2>1. r \in [S -> K]
    BY <1>2
  <2> HIDE DEF r
  <2>2. IsRanks(r, S)
    BY <1>3, <1>7, <2>1 DEF IsRanks
  <2>3. QED
    BY <2>2 DEF r

(* As many elements have a rank below a number as it says, if there are.    *)
LEMMA RankedBelow ==
  ASSUME NEW S, IsFiniteSet(S), NEW r, IsRanks(r, S), NEW m \in Nat
  PROVE  Cardinality({c \in S : r[c] < m}) =
           IF m <= Cardinality(S) THEN m ELSE Cardinality(S)
<1> DEFINE N == Cardinality(S)
           T == {c \in S : r[c] < m}
           top == IF m <= N THEN m ELSE N
           K == 0..top - 1
           f == [c \in T |-> r[c]]
<1>1. N \in Nat
  BY FS_CardinalityType
<1>2. top \in Nat /\ IsFiniteSet(K) /\ Cardinality(K) = top
  <2>1. top \in Nat
    BY <1>1
  <2> HIDE DEF top
  <2>2. IsFiniteSet(0..top - 1) /\ Cardinality(0..top - 1) = IF 0 > top - 1 THEN 0 ELSE top - 1 - 0 + 1
    BY <2>1, FS_Interval
  <2>3. QED
    BY <2>1, <2>2
<1>3. \A c \in S : r[c] \in 0..N - 1
  BY DEF IsRanks
<1>4. f \in [T -> K]
  BY <1>1, <1>3
<1>5. \A c, e \in T : f[c] = f[e] => c = e
  BY DEF IsRanks
<1>6. \A n \in K : \E c \in T : f[c] = n
  <2> SUFFICES ASSUME NEW n \in K PROVE \E c \in T : f[c] = n
    OBVIOUS
  <2>1. n \in 0..N - 1 /\ n < m
    BY <1>1
  <2>2. PICK c \in S : r[c] = n
    BY <2>1 DEF IsRanks
  <2>3. QED
    BY <2>1, <2>2
<1> HIDE DEF f, T, K, top
<1>7. f \in Injection(T, K) /\ f \in Surjection(T, K)
  BY <1>4, <1>5, <1>6 DEF Injection, IsInjective, Surjection
<1>8. Cardinality(T) = Cardinality(K)
  BY <1>2, <1>7, FS_Injection
<1>9. QED
  BY <1>2, <1>8 DEF T, top

(* A non-empty set of natural numbers has a least one.                      *)
LEMMA LeastOf ==
  ASSUME NEW S \in SUBSET Nat, S # {}
  PROVE  \E n \in S : \A k \in S : n <= k
<1>1. PICK n \in S : \A k \in S : <<k, n>> \notin OpToRel(<, Nat)
  BY NatLessThanWellFounded, WFMin
<1>2. \A k \in S : ~(k < n)
  BY <1>1 DEF OpToRel
<1>3. QED
  BY <1>2

(* A finite non-empty set of integers has a greatest one.                   *)
LEMMA GreatestOf ==
  ASSUME NEW S, IsFiniteSet(S), S \subseteq Int, S # {}
  PROVE  \E n \in S : \A k \in S : n >= k
<1> DEFINE G == {T \in SUBSET S : T = {} \/ \E n \in T : \A k \in T : n >= k}
<1>1. {} \in G
  OBVIOUS
<1>2. ASSUME NEW T \in SUBSET S, NEW x \in S \ T, T \in G
      PROVE  T \cup {x} \in G
  <2>1. CASE T = {}
    <3>1. T \cup {x} = {x} /\ x \in Int
      BY <2>1
    <3>2. QED
      BY <3>1
  <2>2. CASE T # {}
    <3>1. PICK n \in T : \A k \in T : n >= k
      BY <1>2, <2>2
    <3>2. n \in Int /\ x \in Int /\ \A k \in T : k \in Int
      OBVIOUS
    <3>3. CASE x >= n
      <4>1. \A k \in T \cup {x} : x >= k
        BY <3>1, <3>2, <3>3
      <4>2. QED
        BY <4>1
    <3>4. CASE n > x
      <4>1. \A k \in T \cup {x} : n >= k
        BY <3>1, <3>2, <3>4
      <4>2. QED
        BY <4>1
    <3>5. QED
      BY <3>2, <3>3, <3>4
  <2>3. QED
    BY <2>1, <2>2
<1>3. S \in G
  <2> HIDE DEF G
  <2> QED BY <1>1, <1>2, SubsetInduction
<1>4. QED
  BY <1>3
=============================================================================
