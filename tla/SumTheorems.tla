---------------------------- MODULE SumTheorems -----------------------------
(***************************************************************************)
(* The sum of a function over a finite set (SumFunctionOnSet), which the   *)
(* settled account of Ledger and the exposure bound of Trading are built   *)
(* from: its recursive equation, that any element can be taken out first,  *)
(* what changing one value does to it, and bounds; the fold of a sequence, *)
(* which Calculations reads texts and sweeps books with; the sort of a     *)
(* finite set by ranks; and division and multiples.                        *)
(*                                                                         *)
(* Induction is by a minimal counterexample: a non-empty set of subsets of *)
(* a finite set has one that contains no other.                            *)
(***************************************************************************)
EXTENDS Integers, FiniteSetsExt, Functions, FiniteSetTheorems, WellFoundedInduction,
        NaturalsInduction, TLAPS

LEMMA MinimalSubset ==
  ASSUME NEW S, IsFiniteSet(S), NEW B \in SUBSET (SUBSET S), B # {}
  PROVE  \E T \in B : \A U \in B : U \subseteq T => U = T
<1> DEFINE R == StrictSubsetOrdering(S)
<1>1. IsWellFoundedOn(R, SUBSET S)
  BY FS_StrictSubsetOrderingWellFounded, FS_FiniteSubsetsOfFinite
<1>2. \A U, T \in SUBSET S : U \subseteq T /\ U # T => <<U, T>> \in R
  BY DEF StrictSubsetOrdering
<1> HIDE DEF R
<1>3. PICK T \in B : \A U \in B : <<U, T>> \notin R
  BY <1>1, WFMin
<1> QED
  BY <1>2, <1>3

(***************************************************************************)
(* The recursive equation.                                                 *)
(***************************************************************************)
Pick(s) == CHOOSE x \in s : TRUE

\* g is the function that sums f over the subsets of S.
Sums(g, f, S) ==
  g = [s \in SUBSET S |->
         IF s = {} THEN 0 ELSE f[Pick(s)] + g[s \ {Pick(s)}]]

LEMMA PickIn == ASSUME NEW s, s # {} PROVE Pick(s) \in s
BY DEF Pick

LEMMA SumsUnique ==
  ASSUME NEW f, NEW S, NEW T, NEW g, NEW h, Sums(g, f, S), Sums(h, f, T),
         IsFiniteSet(S)
  PROVE  \A s \in (SUBSET S) \cap (SUBSET T) : g[s] = h[s]
<1> DEFINE B == {s \in (SUBSET S) \cap (SUBSET T) : g[s] # h[s]}
<1>1. SUFFICES ASSUME B # {} PROVE FALSE
  OBVIOUS
<1>2. B \in SUBSET SUBSET S
  OBVIOUS
<1> HIDE DEF B
<1>3. PICK s \in B : \A u \in B : u \subseteq s => u = s
  BY <1>1, <1>2, MinimalSubset
<1>4. s \in SUBSET S /\ s \in SUBSET T /\ g[s] # h[s]
  <2>1. s \in B
    BY <1>3
  <2> QED
    BY <2>1, Zenon DEF B
<1>5. CASE s = {}
  BY <1>4, <1>5 DEF Sums
<1>6. CASE s # {}
  <2> DEFINE r == s \ {Pick(s)}
  <2>1. Pick(s) \in s
    BY <1>6, PickIn
  <2>2. r \in SUBSET S /\ r \in SUBSET T /\ r \subseteq s /\ r # s
    BY <1>4, <2>1
  <2>3. g[r] = h[r]
    BY <1>3, <2>2 DEF B
  <2>4. g[s] = f[Pick(s)] + g[r] /\ h[s] = f[Pick(s)] + h[r]
    BY <1>4, <1>6 DEF Sums
  <2> QED
    BY <1>4, <2>3, <2>4
<1> QED
  BY <1>5, <1>6

LEMMA SumsExist ==
  ASSUME NEW f, NEW S, IsFiniteSet(S)
  PROVE  \E g : Sums(g, f, S)
<1> DEFINE B == {T \in SUBSET S : ~\E g : Sums(g, f, T)}
<1>1. SUFFICES ASSUME B # {} PROVE FALSE
  BY DEF B
<1>2. B \in SUBSET SUBSET S
  OBVIOUS
<1> HIDE DEF B
<1>3. PICK T \in B : \A U \in B : U \subseteq T => U = T
  BY <1>1, <1>2, MinimalSubset
<1>4. T \in SUBSET S /\ ~\E g : Sums(g, f, T)
  BY <1>3 DEF B
<1> DEFINE G(U) == CHOOSE g : Sums(g, f, U)
<1>5. ASSUME NEW U \in SUBSET T, U # T PROVE Sums(G(U), f, U) /\ IsFiniteSet(U)
  <2>1. \E g : Sums(g, f, U)
    BY <1>3, <1>4, <1>5 DEF B
  <2>2. IsFiniteSet(U)
    BY <1>4, FS_Subset
  <2> QED
    BY <2>1, <2>2
<1> DEFINE Rest(s) == s \ {Pick(s)}
           g == [s \in SUBSET T |->
                   IF s = {} THEN 0 ELSE f[Pick(s)] + G(Rest(s))[Rest(s)]]
<1> HIDE DEF G
<1>6. ASSUME NEW s \in SUBSET T, s # {} PROVE Rest(s) \in SUBSET T /\ Rest(s) # T
  BY <1>6, PickIn
<1>7. ASSUME NEW r \in SUBSET T, r # T PROVE g[r] = G(r)[r]
  <2>1. Sums(G(r), f, r)
    BY <1>5, <1>7
  <2>2. CASE r = {}
    <3>1. G(r)[r] = 0
      BY <2>1, <2>2 DEF Sums
    <3> QED
      BY <2>2, <3>1
  <2>3. CASE r # {}
    <3> DEFINE q == Rest(r)
    <3>1. q \in SUBSET T /\ q # T /\ q \subseteq r
      BY <1>6, <2>3
    <3>2. Sums(G(q), f, q) /\ IsFiniteSet(q)
      BY <1>5, <3>1
    <3>3. G(q)[q] = G(r)[q]
      <4>1. q \in (SUBSET q) \cap (SUBSET r)
        BY <3>1
      <4> DEFINE a == G(q)
                 b == G(r)
      <4>2. Sums(a, f, q) /\ Sums(b, f, r) /\ IsFiniteSet(q)
        BY <2>1, <3>2
      <4> HIDE DEF q, a, b
      <4>3. a[q] = b[q]
        BY <4>1, <4>2, SumsUnique
      <4> QED
        BY <4>3 DEF a, b
    <3>4. G(r)[r] = f[Pick(r)] + G(r)[q]
      BY <2>1, <2>3 DEF Sums
    <3>5. g[r] = f[Pick(r)] + G(q)[q]
      BY <2>3
    <3> QED
      BY <3>3, <3>4, <3>5
  <2> QED
    BY <2>2, <2>3
<1>8. \A s \in SUBSET T : s # {} => G(Rest(s))[Rest(s)] = g[Rest(s)]
  BY <1>6, <1>7
<1>9. g = [s \in SUBSET T |->
             IF s = {} THEN 0 ELSE f[Pick(s)] + g[s \ {Pick(s)}]]
  BY <1>8
<1> QED
  BY <1>4, <1>9 DEF Sums

LEMMA SumIs ==
  ASSUME NEW f, NEW S, IsFiniteSet(S), NEW g, Sums(g, f, S)
  PROVE  SumFunctionOnSet(f, S) = g[S]
<1> DEFINE h == CHOOSE k : Sums(k, f, S)
<1>1. Sums(h, f, S)
  BY SumsExist
<1>2. SumFunctionOnSet(f, S) = h[S]
  BY DEF SumFunctionOnSet, FoldFunctionOnSet, MapThenFoldSet, Sums, Pick
<1> HIDE DEF h
<1>3. S \in (SUBSET S) \cap (SUBSET S)
  OBVIOUS
<1>4. h[S] = g[S]
  BY <1>1, <1>3, SumsUnique
<1> QED
  BY <1>2, <1>4

LEMMA SumPicked ==
  ASSUME NEW f, NEW S, IsFiniteSet(S)
  PROVE  SumFunctionOnSet(f, S) =
           IF S = {} THEN 0
           ELSE f[Pick(S)] + SumFunctionOnSet(f, S \ {Pick(S)})
<1>1. PICK g : Sums(g, f, S)
  BY SumsExist
<1>2. SumFunctionOnSet(f, S) = g[S]
  BY <1>1, SumIs
<1> DEFINE T == S \ {Pick(S)}
<1>3. T \in SUBSET S /\ IsFiniteSet(T)
  BY FS_Subset
<1>4. PICK h : Sums(h, f, T)
  BY <1>3, SumsExist
<1>5. SumFunctionOnSet(f, T) = h[T]
  BY <1>3, <1>4, SumIs
<1>6. g[S] = IF S = {} THEN 0 ELSE f[Pick(S)] + g[T]
  BY <1>1 DEF Sums
<1>7. T \in (SUBSET S) \cap (SUBSET T)
  BY <1>3
<1> HIDE DEF T
<1>8. g[T] = h[T]
  BY <1>1, <1>4, <1>7, SumsUnique
<1> QED
  BY <1>2, <1>5, <1>6, <1>8 DEF T

(***************************************************************************)
(* The sum is an integer, and does not depend on the order.                *)
(***************************************************************************)
LEMMA SumEmpty == ASSUME NEW f PROVE SumFunctionOnSet(f, {}) = 0
BY SumPicked, FS_EmptySet

LEMMA SumType ==
  ASSUME NEW S, IsFiniteSet(S), NEW f, \A x \in S : f[x] \in Int
  PROVE  SumFunctionOnSet(f, S) \in Int
<1> DEFINE B == {T \in SUBSET S : SumFunctionOnSet(f, T) \notin Int}
<1>1. SUFFICES ASSUME B # {} PROVE FALSE
  OBVIOUS
<1>2. B \in SUBSET (SUBSET S)
  OBVIOUS
<1> HIDE DEF B
<1>3. PICK T \in B : \A U \in B : U \subseteq T => U = T
  BY <1>1, <1>2, MinimalSubset
<1>4. T \in SUBSET S /\ SumFunctionOnSet(f, T) \notin Int /\ IsFiniteSet(T)
  <2>1. T \in SUBSET S /\ SumFunctionOnSet(f, T) \notin Int
    BY <1>3 DEF B
  <2> QED
    BY <2>1, FS_Subset
<1>5. T # {}
  BY <1>4, SumEmpty
<1> DEFINE U == T \ {Pick(T)}
<1>6. U \in SUBSET S /\ U \subseteq T /\ U # T /\ f[Pick(T)] \in Int
  BY <1>4, <1>5, PickIn
<1>7. SumFunctionOnSet(f, U) \in Int
  BY <1>3, <1>6 DEF B
<1>8. SumFunctionOnSet(f, T) = f[Pick(T)] + SumFunctionOnSet(f, U)
  BY <1>4, <1>5, SumPicked
<1> HIDE DEF U
<1> QED
  BY <1>4, <1>6, <1>7, <1>8

\* Any element can be taken out first.
LEMMA SumWithout ==
  ASSUME NEW S, IsFiniteSet(S), NEW f, \A x \in S : f[x] \in Int, NEW x \in S
  PROVE  SumFunctionOnSet(f, S) = f[x] + SumFunctionOnSet(f, S \ {x})
<1> DEFINE Sum(T) == SumFunctionOnSet(f, T)
           B == {T \in SUBSET S : \E y \in T : Sum(T) # f[y] + Sum(T \ {y})}
<1>1. SUFFICES ASSUME B # {} PROVE FALSE
  OBVIOUS
<1>2. B \in SUBSET (SUBSET S)
  OBVIOUS
<1>3. \A T \in SUBSET S : Sum(T) \in Int /\ IsFiniteSet(T)
  <2> TAKE T \in SUBSET S
  <2>1. IsFiniteSet(T) /\ \A y \in T : f[y] \in Int
    BY FS_Subset
  <2> QED
    BY <2>1, SumType
<1>4. \A T \in SUBSET S : T # {} => Sum(T) = f[Pick(T)] + Sum(T \ {Pick(T)})
  BY <1>3, SumPicked
<1> HIDE DEF Sum
<1>5. \A T \in SUBSET S : T \notin B => \A y \in T : Sum(T) = f[y] + Sum(T \ {y})
  OBVIOUS
<1>6. \A T \in B : T \in SUBSET S /\ \E y \in T : Sum(T) # f[y] + Sum(T \ {y})
  OBVIOUS
<1> HIDE DEF B
<1>7. PICK T \in B : \A U \in B : U \subseteq T => U = T
  BY <1>1, <1>2, MinimalSubset
<1>8. PICK y \in T : Sum(T) # f[y] + Sum(T \ {y})
  BY <1>6, <1>7
<1>9. T \in SUBSET S
  BY <1>6, <1>7
<1> DEFINE z == Pick(T)
<1>10. z \in T /\ Sum(T) = f[z] + Sum(T \ {z})
  BY <1>4, <1>8, <1>9, PickIn
<1> HIDE DEF z
<1>11. y # z
  BY <1>8, <1>10
<1>12. /\ T \ {z} \in SUBSET S /\ T \ {y} \in SUBSET S
       /\ T \ {z} \notin B /\ T \ {y} \notin B
       /\ y \in T \ {z} /\ z \in T \ {y}
       /\ (T \ {z}) \ {y} = (T \ {y}) \ {z}
  BY <1>7, <1>8, <1>9, <1>10, <1>11
<1> DEFINE Rest == (T \ {z}) \ {y}
<1>13. Sum(T \ {z}) = f[y] + Sum(Rest) /\ Sum(T \ {y}) = f[z] + Sum(Rest)
  BY <1>5, <1>12
<1>14. Sum(Rest) \in Int /\ f[y] \in Int /\ f[z] \in Int
  BY <1>3, <1>8, <1>9, <1>10
<1> HIDE DEF Rest
<1> QED
  BY <1>8, <1>10, <1>13, <1>14

(***************************************************************************)
(* Comparing the sums of two functions.                                    *)
(***************************************************************************)
LEMMA SumMonotone ==
  ASSUME NEW S, IsFiniteSet(S), NEW f, NEW g,
         \A x \in S : f[x] \in Int /\ g[x] \in Int /\ f[x] <= g[x]
  PROVE  SumFunctionOnSet(f, S) <= SumFunctionOnSet(g, S)
<1> DEFINE F(T) == SumFunctionOnSet(f, T)
           G(T) == SumFunctionOnSet(g, T)
           B == {T \in SUBSET S : ~(F(T) <= G(T))}
<1>1. SUFFICES ASSUME B # {} PROVE FALSE
  OBVIOUS
<1>2. B \in SUBSET (SUBSET S)
  OBVIOUS
<1>3. \A T \in SUBSET S : F(T) \in Int /\ G(T) \in Int /\ IsFiniteSet(T)
  <2> TAKE T \in SUBSET S
  <2>1. IsFiniteSet(T) /\ \A y \in T : f[y] \in Int /\ g[y] \in Int
    BY FS_Subset
  <2> QED
    BY <2>1, SumType
<1>4. \A T \in SUBSET S : T # {} => /\ F(T) = f[Pick(T)] + F(T \ {Pick(T)})
                                    /\ G(T) = g[Pick(T)] + G(T \ {Pick(T)})
  BY <1>3, SumPicked
<1>5. F({}) = 0 /\ G({}) = 0
  BY SumEmpty
<1> HIDE DEF F, G
<1>6. \A T \in SUBSET S : T \notin B => F(T) <= G(T)
  OBVIOUS
<1>7. \A T \in B : T \in SUBSET S /\ ~(F(T) <= G(T))
  OBVIOUS
<1> HIDE DEF B
<1>8. PICK T \in B : \A U \in B : U \subseteq T => U = T
  BY <1>1, <1>2, MinimalSubset
<1>9. T \in SUBSET S /\ ~(F(T) <= G(T)) /\ T # {}
  <2>1. T \in SUBSET S /\ ~(F(T) <= G(T))
    BY <1>7, <1>8
  <2>2. F({}) <= G({})
    BY <1>5
  <2> QED
    BY <2>1, <2>2
<1> DEFINE z == Pick(T)
           U == T \ {z}
<1>10. z \in T /\ F(T) = f[z] + F(U) /\ G(T) = g[z] + G(U)
  BY <1>4, <1>9, PickIn
<1> HIDE DEF z
<1>11. U \in SUBSET S /\ U \notin B
  BY <1>8, <1>9, <1>10
<1> HIDE DEF U
<1>12. F(U) <= G(U) /\ F(U) \in Int /\ G(U) \in Int /\ f[z] \in Int /\ g[z] \in Int
       /\ f[z] <= g[z]
  BY <1>3, <1>6, <1>9, <1>10, <1>11
<1> QED
  BY <1>9, <1>10, <1>12

LEMMA SumSame ==
  ASSUME NEW S, IsFiniteSet(S), NEW f, NEW g,
         \A x \in S : f[x] \in Int /\ g[x] = f[x]
  PROVE  SumFunctionOnSet(f, S) = SumFunctionOnSet(g, S)
<1>1. SumFunctionOnSet(f, S) <= SumFunctionOnSet(g, S)
  BY SumMonotone
<1>2. SumFunctionOnSet(g, S) <= SumFunctionOnSet(f, S)
  BY SumMonotone
<1>3. SumFunctionOnSet(f, S) \in Int /\ SumFunctionOnSet(g, S) \in Int
  BY SumType
<1> QED
  BY <1>1, <1>2, <1>3

\* A sum of which one term changes.
LEMMA SumChanged ==
  ASSUME NEW S, IsFiniteSet(S), NEW f, NEW g, NEW x \in S,
         \A y \in S : f[y] \in Int, g[x] \in Int, \A y \in S \ {x} : g[y] = f[y]
  PROVE  SumFunctionOnSet(g, S) = SumFunctionOnSet(f, S) + (g[x] - f[x])
<1> DEFINE T == S \ {x}
<1>1. IsFiniteSet(T) /\ \A y \in T : f[y] \in Int /\ g[y] = f[y]
  BY FS_Subset
<1>2. SumFunctionOnSet(f, S) = f[x] + SumFunctionOnSet(f, T)
  BY SumWithout
<1>3. \A y \in S : g[y] \in Int
  OBVIOUS
<1>4. SumFunctionOnSet(g, S) = g[x] + SumFunctionOnSet(g, T)
  BY <1>3, SumWithout
<1> HIDE DEF T
<1>5. SumFunctionOnSet(f, T) = SumFunctionOnSet(g, T)
  BY <1>1, SumSame
<1>6. SumFunctionOnSet(f, T) \in Int
  BY <1>1, SumType
<1> QED
  BY <1>2, <1>4, <1>5, <1>6

LEMMA SumOfZeros ==
  ASSUME NEW S, IsFiniteSet(S), NEW f, \A x \in S : f[x] = 0
  PROVE  SumFunctionOnSet(f, S) = 0
<1>1. CASE S = {}
  BY <1>1, SumEmpty
<1>2. CASE S # {}
  <2> DEFINE Sum(T) == SumFunctionOnSet(f, T)
             B == {T \in SUBSET S : Sum(T) # 0}
  <2>1. SUFFICES ASSUME B # {} PROVE FALSE
    OBVIOUS
  <2>0. B \in SUBSET (SUBSET S)
    OBVIOUS
  <2> HIDE DEF B
  <2>2. PICK T \in B : \A U \in B : U \subseteq T => U = T
    BY <2>0, <2>1, MinimalSubset
  <2> USE DEF B
  <2>3. T \in SUBSET S /\ T # {} /\ IsFiniteSet(T)
    BY <2>2, SumEmpty, FS_Subset
  <2>4. Pick(T) \in T /\ Sum(T) = f[Pick(T)] + Sum(T \ {Pick(T)})
    BY <2>3, SumPicked, PickIn
  <2>5. Sum(T \ {Pick(T)}) = 0
    BY <2>2, <2>3, <2>4
  <2> HIDE DEF Sum
  <2> QED
    BY <2>2, <2>3, <2>4, <2>5
<1> QED
  BY <1>1, <1>2

LEMMA SumNonNegative ==
  ASSUME NEW S, IsFiniteSet(S), NEW f, \A x \in S : f[x] \in Nat
  PROVE  /\ SumFunctionOnSet(f, S) \in Nat
         /\ \A x \in S : f[x] <= SumFunctionOnSet(f, S)
<1> DEFINE zero == [x \in S |-> 0]
<1>1. \A T \in SUBSET S : SumFunctionOnSet(f, T) \in Nat
  <2> TAKE T \in SUBSET S
  <2>1. IsFiniteSet(T) /\ \A x \in T : f[x] \in Int /\ zero[x] = 0 /\ zero[x] <= f[x]
    BY FS_Subset
  <2>2. SumFunctionOnSet(zero, T) = 0 /\ SumFunctionOnSet(f, T) \in Int
    BY <2>1, SumOfZeros, SumType
  <2> HIDE DEF zero
  <2>3. SumFunctionOnSet(zero, T) <= SumFunctionOnSet(f, T)
    BY <2>1, SumMonotone
  <2> QED
    BY <2>2, <2>3
<1>2. ASSUME NEW x \in S PROVE f[x] <= SumFunctionOnSet(f, S)
  <2>1. SumFunctionOnSet(f, S) = f[x] + SumFunctionOnSet(f, S \ {x})
    BY SumWithout
  <2>2. SumFunctionOnSet(f, S \ {x}) \in Nat
    BY <1>1
  <2> QED
    BY <2>1, <2>2
<1> QED
  BY <1>1, <1>2

\* The terms outside a subset do not count if they are zero.
LEMMA SumSupported ==
  ASSUME NEW S, IsFiniteSet(S), NEW T \in SUBSET S, NEW f,
         \A x \in S : f[x] \in Int, \A x \in S \ T : f[x] = 0
  PROVE  SumFunctionOnSet(f, S) = SumFunctionOnSet(f, T)
<1> DEFINE Sum(U) == SumFunctionOnSet(f, U)
           B == {U \in SUBSET S : T \subseteq U /\ Sum(U) # Sum(T)}
<1>1. SUFFICES ASSUME B # {} PROVE FALSE
  OBVIOUS
<1>2. B \in SUBSET (SUBSET S)
  OBVIOUS
<1> HIDE DEF B
<1>3. PICK U \in B : \A V \in B : V \subseteq U => V = U
  BY <1>1, <1>2, MinimalSubset
<1>4. U \in SUBSET S /\ T \subseteq U /\ Sum(U) # Sum(T)
  <2>1. U \in B
    BY <1>3
  <2> QED
    BY <2>1, Zenon DEF B
<1>5. PICK x \in U : x \notin T
  BY <1>4
<1> DEFINE V == U \ {x}
<1>6. V \in SUBSET S /\ T \subseteq V /\ V \subseteq U /\ V # U
  BY <1>4, <1>5
<1>7. Sum(V) = Sum(T)
  BY <1>3, <1>6 DEF B
<1>8. Sum(U) = f[x] + Sum(V)
  <2>1. IsFiniteSet(U) /\ \A y \in U : f[y] \in Int
    BY <1>4, FS_Subset
  <2> QED
    BY <1>5, <2>1, SumWithout
<1>9. Sum(V) \in Int
  <2>1. IsFiniteSet(V) /\ \A y \in V : f[y] \in Int
    BY <1>6, FS_Subset
  <2> HIDE DEF V
  <2> QED
    BY <2>1, SumType
<1>10. f[x] = 0
  BY <1>4, <1>5
<1> HIDE DEF Sum, V
<1> QED
  BY <1>4, <1>7, <1>8, <1>9, <1>10

\* A sum of terms that are bounded.
LEMMA SumAtMost ==
  ASSUME NEW S, IsFiniteSet(S), NEW b \in Nat, NEW f,
         \A x \in S : f[x] \in Int /\ f[x] <= b
  PROVE  SumFunctionOnSet(f, S) <= Cardinality(S) * b
<1> DEFINE Sum(T) == SumFunctionOnSet(f, T)
           n(T) == Cardinality(T)
           B == {T \in SUBSET S : ~(Sum(T) <= n(T) * b)}
<1>1. SUFFICES ASSUME B # {} PROVE FALSE
  OBVIOUS
<1>2. B \in SUBSET (SUBSET S)
  OBVIOUS
<1> HIDE DEF B
<1>3. PICK T \in B : \A U \in B : U \subseteq T => U = T
  BY <1>1, <1>2, MinimalSubset
<1>4. T \in SUBSET S /\ ~(Sum(T) <= n(T) * b)
  <2>1. T \in B
    BY <1>3
  <2> QED
    BY <2>1, Zenon DEF B
<1>5. /\ IsFiniteSet(T) /\ Sum(T) \in Int /\ n(T) \in Nat
      /\ T # {} => n(T \ {Pick(T)}) = n(T) - 1
  <2>1. IsFiniteSet(T) /\ \A x \in T : f[x] \in Int
    BY <1>4, FS_Subset
  <2> QED
    BY <2>1, PickIn, SumType, FS_CardinalityType, FS_RemoveElement
<1>6. CASE T = {}
  <2>1. Sum(T) = 0 /\ n(T) = 0
    BY <1>6, SumEmpty, FS_EmptySet
  <2> QED
    BY <1>4, <2>1
<1>7. CASE T # {}
  <2> DEFINE z == Pick(T)
             U == T \ {z}
  <2>1. z \in T /\ Sum(T) = f[z] + Sum(U) /\ f[z] \in Int /\ f[z] <= b
    BY <1>4, <1>5, <1>7, PickIn, SumPicked
  <2>2. U \in SUBSET S /\ U \subseteq T /\ U # T
    BY <1>4, <2>1
  <2>3. Sum(U) <= n(U) * b
    BY <1>3, <2>2 DEF B
  <2>4. Sum(U) \in Int
    <3>1. IsFiniteSet(U) /\ \A x \in U : f[x] \in Int
      BY <2>2, FS_Subset
    <3> HIDE DEF U
    <3> QED
      BY <3>1, SumType
  <2>5. n(U) = n(T) - 1
    BY <1>5, <1>7
  <2> HIDE DEF Sum, n, U, z
  <2>6. (n(T) - 1) * b = n(T) * b - b /\ n(T) * b \in Int
    BY <1>5
  <2> QED
    BY <1>4, <1>5, <2>1, <2>3, <2>4, <2>5, <2>6
<1> QED
  BY <1>6, <1>7
(***************************************************************************)
(* Iteration, which a fold of a sequence is.                               *)
(*                                                                         *)
(* Induction up to a number, for a set of numbers.                         *)
(***************************************************************************)
LEMMA InductionUpTo ==
  ASSUME NEW n \in Nat, NEW P, 0 \in P,
         \A k \in 0..n : k < n /\ k \in P => k + 1 \in P
  PROVE  \A k \in 0..n : k \in P
<1> DEFINE B == {k \in Nat : k <= n /\ k \notin P}
<1>1. SUFFICES ASSUME B # {} PROVE FALSE
  OBVIOUS
<1>2. B \in SUBSET Nat
  OBVIOUS
<1> HIDE DEF B
<1>3. PICK k \in B : \A j \in B : <<j, k>> \notin OpToRel(<, Nat)
  BY <1>1, <1>2, NatLessThanWellFounded, WFMin
<1>4. k \in Nat /\ k <= n /\ k \notin P
  BY <1>3 DEF B
<1>5. k # 0 /\ k - 1 \in Nat /\ k - 1 < n /\ k - 1 \in 0..n
  BY <1>4
<1>6. k - 1 \notin P
  BY <1>4, <1>5
<1>7. k - 1 \in B
  BY <1>4, <1>5, <1>6 DEF B
<1>8. <<k - 1, k>> \in OpToRel(<, Nat)
  BY <1>4, <1>5 DEF OpToRel
<1> QED
  BY <1>3, <1>7, <1>8

\* g takes one element after the other out of a subset of S, as pick tells, and
\* from base on applies to what is left of it the step of the element.
Iterates(g, S, base, pick, step) ==
  g = [s \in SUBSET S |->
         IF s = {} THEN base ELSE step[pick[s]][g[s \ {pick[s]}]]]

LEMMA IterationUnique ==
  ASSUME NEW base, NEW pick, NEW step, NEW S, NEW T, NEW g, NEW h,
         Iterates(g, S, base, pick, step), Iterates(h, T, base, pick, step),
         IsFiniteSet(S), \A s \in SUBSET S : s # {} => pick[s] \in s
  PROVE  \A s \in (SUBSET S) \cap (SUBSET T) : g[s] = h[s]
<1> DEFINE B == {s \in (SUBSET S) \cap (SUBSET T) : g[s] # h[s]}
<1>1. SUFFICES ASSUME B # {} PROVE FALSE
  OBVIOUS
<1>2. B \in SUBSET SUBSET S
  OBVIOUS
<1> HIDE DEF B
<1>3. PICK s \in B : \A u \in B : u \subseteq s => u = s
  BY <1>1, <1>2, MinimalSubset
<1>4. s \in SUBSET S /\ s \in SUBSET T /\ g[s] # h[s]
  <2>1. s \in B
    BY <1>3
  <2> QED
    BY <2>1, Zenon DEF B
<1>5. CASE s = {}
  BY <1>4, <1>5 DEF Iterates
<1>6. CASE s # {}
  <2> DEFINE r == s \ {pick[s]}
  <2>1. r \in SUBSET S /\ r \in SUBSET T /\ r \subseteq s /\ r # s
    BY <1>4, <1>6
  <2>2. g[r] = h[r]
    BY <1>3, <2>1 DEF B
  <2>3. g[s] = step[pick[s]][g[r]] /\ h[s] = step[pick[s]][h[r]]
    <3>1. g[s] = (IF s = {} THEN base ELSE step[pick[s]][g[s \ {pick[s]}]])
      BY <1>4 DEF Iterates
    <3>2. h[s] = (IF s = {} THEN base ELSE step[pick[s]][h[s \ {pick[s]}]])
      BY <1>4 DEF Iterates
    <3> QED
      BY ONLY <1>6, <3>1, <3>2 DEF r
  <2> QED
    BY <1>4, <2>2, <2>3
<1> QED
  BY <1>5, <1>6

LEMMA IterationExists ==
  ASSUME NEW base, NEW pick, NEW step, NEW S, IsFiniteSet(S),
         \A s \in SUBSET S : s # {} => pick[s] \in s
  PROVE  \E g : Iterates(g, S, base, pick, step)
<1> DEFINE It(g, T) == Iterates(g, T, base, pick, step)
           B == {T \in SUBSET S : ~\E g : It(g, T)}
<1>1. SUFFICES ASSUME B # {} PROVE FALSE
  BY DEF B
<1>2. B \in SUBSET SUBSET S
  OBVIOUS
<1> HIDE DEF B
<1>3. PICK T \in B : \A U \in B : U \subseteq T => U = T
  BY <1>1, <1>2, MinimalSubset
<1>4. T \in SUBSET S /\ ~\E g : It(g, T)
  BY <1>3 DEF B
<1> DEFINE G(U) == CHOOSE g : It(g, U)
<1>5. ASSUME NEW U \in SUBSET T, U # T PROVE It(G(U), U) /\ IsFiniteSet(U)
  <2>1. \E g : It(g, U)
    BY <1>3, <1>4, <1>5 DEF B
  <2>2. IsFiniteSet(U)
    BY <1>4, FS_Subset
  <2> QED
    BY <2>1, <2>2
<1> DEFINE Rest(s) == s \ {pick[s]}
           g == [s \in SUBSET T |->
                   IF s = {} THEN base ELSE step[pick[s]][G(Rest(s))[Rest(s)]]]
<1> HIDE DEF G
<1>6. ASSUME NEW s \in SUBSET T, s # {} PROVE Rest(s) \in SUBSET T /\ Rest(s) # T
  BY <1>4, <1>6
<1>7. ASSUME NEW r \in SUBSET T, r # T PROVE g[r] = G(r)[r]
  <2>1. It(G(r), r)
    BY <1>5, <1>7
  <2>2. CASE r = {}
    <3>1. G(r)[r] = base
      BY <2>1, <2>2 DEF Iterates
    <3> QED
      BY <2>2, <3>1
  <2>3. CASE r # {}
    <3> DEFINE q == Rest(r)
    <3>1. q \in SUBSET T /\ q # T /\ q \subseteq r
      BY <1>6, <2>3
    <3>2. It(G(q), q) /\ IsFiniteSet(q)
      BY <1>5, <3>1
    <3>3. G(q)[q] = G(r)[q]
      <4>1. /\ q \in (SUBSET q) \cap (SUBSET r)
            /\ \A s \in SUBSET q : s # {} => pick[s] \in s
        BY <1>4, <3>1
      <4> DEFINE a == G(q)
                 b == G(r)
      <4>2. It(a, q) /\ It(b, r) /\ IsFiniteSet(q)
        BY <2>1, <3>2
      <4> HIDE DEF q, a, b
      <4>3. a[q] = b[q]
        BY <4>1, <4>2, IterationUnique
      <4> QED
        BY <4>3 DEF a, b
    <3>4. G(r)[r] = step[pick[r]][G(r)[q]]
      BY <2>1, <2>3 DEF Iterates
    <3>5. g[r] = step[pick[r]][G(q)[q]]
      BY <2>3
    <3> QED
      BY <3>3, <3>4, <3>5
  <2> QED
    BY <2>2, <2>3
<1>8. \A s \in SUBSET T : s # {} => G(Rest(s))[Rest(s)] = g[Rest(s)]
  BY <1>6, <1>7
<1>9. g = [s \in SUBSET T |->
             IF s = {} THEN base ELSE step[pick[s]][g[s \ {pick[s]}]]]
  BY <1>8
<1> QED
  BY <1>4, <1>9 DEF Iterates

\* The greatest and the least of a finite set of numbers.
LEMMA MaxMin ==
  ASSUME NEW S, IsFiniteSet(S), S \subseteq Int, S # {}
  PROVE  /\ Max(S) \in S /\ \A x \in S : x <= Max(S)
         /\ Min(S) \in S /\ \A x \in S : Min(S) <= x
<1> DEFINE Top(T) == \E x \in T : \A y \in T : x >= y
           Low(T) == \E x \in T : \A y \in T : x =< y
           B == {T \in SUBSET S : T # {} /\ ~(Top(T) /\ Low(T))}
<1>0. ASSUME NEW T \in SUBSET S, NEW x \in T, \A y \in T : y = x
      PROVE  Top(T) /\ Low(T)
  <2>1. \A y \in T : x >= y /\ x =< y
    BY <1>0
  <2> QED
    BY <2>1
<1> HIDE DEF Top, Low
<1>1. ASSUME B # {} PROVE FALSE
  <2>1. /\ \A T \in B : T \in SUBSET S /\ T # {} /\ ~(Top(T) /\ Low(T))
        /\ \A U \in SUBSET S : U # {} /\ U \notin B => Top(U) /\ Low(U)
        /\ B \in SUBSET (SUBSET S)
    OBVIOUS
  <2>2. PICK T \in B : \A U \in B : U \subseteq T => U = T
    <3>1. IsFiniteSet(S) /\ B \in SUBSET (SUBSET S) /\ B # {}
      BY <1>1, <2>1
    <3> HIDE DEF B
    <3> QED
      BY ONLY <3>1, MinimalSubset
  <2> HIDE DEF B
  <2>3. PICK x \in T : TRUE
    BY <2>1, <2>2
  <2> DEFINE U == T \ {x}
  <2>4. U \in SUBSET S /\ U \notin B
    BY <2>1, <2>2, <2>3
  <2>5. CASE U = {}
    <3>1. \A y \in T : y = x
      BY <2>5
    <3>2. Top(T) /\ Low(T)
      BY <1>0, <2>1, <2>2, <2>3, <3>1
    <3> QED
      BY <2>1, <2>2, <3>2
  <2>6. CASE U # {}
    <3>1. Top(U) /\ Low(U)
      BY <2>1, <2>4, <2>6
    <3>2. PICK a \in U : \A y \in U : a >= y
      BY <3>1 DEF Top
    <3>3. PICK b \in U : \A y \in U : b =< y
      BY <3>1 DEF Low
    <3>4. \A y \in T : y \in Int /\ (y = x \/ y \in U)
      BY <2>1, <2>2
    <3>5. Top(T)
      <4>1. CASE x >= a
        <5>1. \A y \in T : x >= y
          BY <2>3, <3>2, <3>4, <4>1
        <5> QED
          BY <2>3, <5>1 DEF Top, Low
      <4>2. CASE a >= x
        <5>1. \A y \in T : a >= y
          BY <3>2, <3>4, <4>2
        <5> QED
          BY <3>2, <5>1 DEF Top
      <4> QED
        BY <2>3, <3>2, <3>4, <4>1, <4>2
    <3>6. Low(T)
      <4>1. CASE x =< b
        <5>1. \A y \in T : x =< y
          BY <2>3, <3>3, <3>4, <4>1
        <5> QED
          BY <2>3, <5>1 DEF Top, Low
      <4>2. CASE b =< x
        <5>1. \A y \in T : b =< y
          BY <3>3, <3>4, <4>2
        <5> QED
          BY <3>3, <5>1 DEF Low
      <4> QED
        BY <2>3, <3>3, <3>4, <4>1, <4>2
    <3> QED
      BY <2>1, <2>2, <3>5, <3>6
  <2> QED
    BY <2>5, <2>6
<1>2. Top(S) /\ Low(S)
  BY <1>1
<1>3. Max(S) \in S /\ \A y \in S : Max(S) >= y
  BY <1>2 DEF Max, Top
<1>4. Min(S) \in S /\ \A y \in S : Min(S) =< y
  BY <1>2 DEF Min, Low
<1> QED
  BY <1>3, <1>4

\* pick takes one element of a set, and a step stays within D.
Picks(pick, S)    == \A s \in SUBSET S : s # {} => pick[s] \in s
Steps(step, S, D) == \A x \in S : \A d \in D : step[x][d] \in D

LEMMA IterationType ==
  ASSUME NEW S, NEW D, NEW base \in D, NEW pick, NEW step, NEW g,
         IsFiniteSet(S), Picks(pick, S), Steps(step, S, D),
         Iterates(g, S, base, pick, step)
  PROVE  \A s \in SUBSET S : g[s] \in D
<1> DEFINE B == {s \in SUBSET S : g[s] \notin D}
<1>1. SUFFICES ASSUME B # {} PROVE FALSE
  OBVIOUS
<1>2. B \in SUBSET SUBSET S
  OBVIOUS
<1> HIDE DEF B
<1>3. PICK s \in B : \A u \in B : u \subseteq s => u = s
  BY <1>1, <1>2, MinimalSubset
<1>4. s \in SUBSET S /\ g[s] \notin D
  <2>1. s \in B
    BY <1>3
  <2> QED
    BY <2>1, Zenon DEF B
<1>5. s # {}
  BY <1>4 DEF Iterates
<1> DEFINE r == s \ {pick[s]}
<1>6. r \in SUBSET S /\ r \subseteq s /\ r # s /\ pick[s] \in S
  BY <1>4, <1>5 DEF Picks
<1>7. g[r] \in D
  BY <1>3, <1>6 DEF B
<1>8. g[s] = step[pick[s]][g[r]]
  BY <1>4, <1>5 DEF Iterates
<1> QED
  BY <1>4, <1>6, <1>7, <1>8 DEF Steps

\* A sequence is folded from its places up: the last one is taken out first.
LEMMA LastFirst ==
  ASSUME NEW n \in Nat
  PROVE  /\ IsFiniteSet(1..n) /\ 1..0 = {}
         /\ \A s \in SUBSET (1..n) : s # {} => Max(s) \in s
         /\ \A k \in 1..n : /\ Max(1..k) = k /\ (1..k) \ {k} = 1..(k - 1)
                            /\ 1..k # {} /\ 1..k \in SUBSET (1..n)
<1>1. IsFiniteSet(1..n)
  BY FS_Interval
<1>2. ASSUME NEW s \in SUBSET (1..n), s # {} PROVE Max(s) \in s /\ \A x \in s : x <= Max(s)
  <2>1. IsFiniteSet(s)
    BY <1>1, FS_Subset
  <2>2. s \subseteq Int
    OBVIOUS
  <2> QED
    BY <1>2, <2>1, <2>2, MaxMin
<1>3. ASSUME NEW k \in 1..n
      PROVE  /\ Max(1..k) = k /\ (1..k) \ {k} = 1..(k - 1)
             /\ 1..k # {} /\ 1..k \in SUBSET (1..n)
  <2>1. k \in 1..k /\ 1..k \in SUBSET (1..n)
    OBVIOUS
  <2>2. Max(1..k) \in 1..k /\ k <= Max(1..k)
    BY <1>2, <2>1
  <2>3. (1..k) \ {k} = 1..(k - 1)
    OBVIOUS
  <2> HIDE DEF Max
  <2> QED
    BY <2>1, <2>2, <2>3
<1> QED
  BY <1>1, <1>2, <1>3

\* g folds the steps over every set of places; h does as long as it is within D.
Folds(g, S, base, step) ==
  g = [s \in SUBSET S |->
         IF s = {} THEN base ELSE step[Max(s)][g[s \ {Max(s)}]]]

Into(g, S, D) == \A s \in SUBSET S : g[s] \in D

FoldsWithin(h, S, base, step, D) ==
  /\ h[{}] = base
  /\ \A s \in SUBSET S : s # {} /\ h[s \ {Max(s)}] \in D =>
       h[s] = step[Max(s)][h[s \ {Max(s)}]]

LEMMA FoldExists ==
  ASSUME NEW n \in Nat, NEW D, NEW base \in D, NEW step, NEW S, S = 1..n,
         Steps(step, S, D)
  PROVE  \E g : Folds(g, S, base, step) /\ Into(g, S, D)
<1> DEFINE pick == [s \in SUBSET S |-> Max(s)]
<1>1. IsFiniteSet(S) /\ \A s \in SUBSET S : s # {} => Max(s) \in s
  BY LastFirst
<1>2. \A s \in SUBSET S : pick[s] = Max(s)
  OBVIOUS
<1>3. Picks(pick, S)
  BY <1>1, <1>2 DEF Picks
<1> HIDE DEF pick
<1>4. PICK g : Iterates(g, S, base, pick, step)
  BY <1>1, <1>3, IterationExists DEF Picks
<1>5. \A s \in SUBSET S : g[s] \in D
  BY <1>1, <1>3, <1>4, IterationType
<1>6. Folds(g, S, base, step)
  BY <1>2, <1>4 DEF Iterates, Folds
<1> QED
  BY <1>5, <1>6 DEF Into

\* Such a function, by the prefixes: base for none, and for one place more the step
\* of that place.
LEMMA FoldByPrefixes ==
  ASSUME NEW n \in Nat, NEW D, NEW base \in D, NEW step, NEW S, S = 1..n,
         Steps(step, S, D), NEW h, FoldsWithin(h, S, base, step, D)
  PROVE  \E a \in [0..n -> D] :
           /\ a[0] = base /\ a[n] = h[S]
           /\ \A k \in 1..n : a[k] = step[k][a[k - 1]]
<1> DEFINE a == [k \in 0..n |-> h[1..k]]
<1>1. h[1..0] = base
  BY LastFirst DEF FoldsWithin
<1>2. ASSUME NEW k \in 1..n, h[1..(k - 1)] \in D
      PROVE  h[1..k] = step[k][h[1..(k - 1)]]
  <2>1. /\ 1..k \in SUBSET (1..n) /\ 1..k # {} /\ Max(1..k) = k
        /\ (1..k) \ {k} = 1..(k - 1)
    BY LastFirst
  <2> QED
    BY <1>2, <2>1 DEF FoldsWithin
<1> DEFINE P == {k \in 0..n : h[1..k] \in D}
<1>3. \A k \in 0..n : k \in P
  <2>1. 0 \in P
    BY <1>1
  <2>2. ASSUME NEW k \in 0..n, k < n, k \in P PROVE k + 1 \in P
    <3>1. k + 1 \in 1..n /\ k + 1 \in 0..n /\ (k + 1) - 1 = k
      BY <2>2
    <3>2. h[1..k] \in D
      BY <2>2
    <3> DEFINE m == k + 1
    <3> HIDE DEF m
    <3>3. m \in 1..n /\ m - 1 = k
      BY <3>1 DEF m
    <3>4. h[1..m] = step[m][h[1..k]]
      BY <1>2, <3>2, <3>3
    <3>5. h[1..m] \in D
      BY <3>2, <3>3, <3>4 DEF Steps
    <3> QED
      BY <3>1, <3>5 DEF m
  <2> HIDE DEF P
  <2> QED
    BY <2>1, <2>2, InductionUpTo
<1>4. \A k \in 0..n : a[k] = h[1..k] /\ h[1..k] \in D
  BY <1>3
<1>5. \A k \in 1..n : a[k] = step[k][a[k - 1]]
  <2> TAKE k \in 1..n
  <2>1. k \in 0..n /\ k - 1 \in 0..n
    OBVIOUS
  <2> QED
    BY <1>2, <1>4, <2>1
<1>6. a \in [0..n -> D] /\ a[0] = base /\ a[n] = h[S]
  BY <1>1, <1>4
<1> HIDE DEF a
<1> QED
  BY <1>5, <1>6

\* What steps make of base, one after the other.
LEMMA RunExists ==
  ASSUME NEW n \in Nat, NEW D, NEW base \in D, NEW step, NEW S, S = 1..n,
         Steps(step, S, D)
  PROVE  \E a \in [0..n -> D] :
           a[0] = base /\ \A k \in 1..n : a[k] = step[k][a[k - 1]]
<1>1. PICK g : Folds(g, S, base, step) /\ Into(g, S, D)
  BY FoldExists
<1>2. FoldsWithin(g, S, base, step, D)
  BY <1>1 DEF Folds, FoldsWithin
<1>3. PICK a \in [0..n -> D] : /\ a[0] = base /\ a[n] = g[S]
                               /\ \A k \in 1..n : a[k] = step[k][a[k - 1]]
  BY <1>2, FoldByPrefixes
<1> QED
  BY <1>3

(***************************************************************************)
(* Division.                                                               *)
(***************************************************************************)
LEMMA DivMod ==
  ASSUME NEW x \in Int, NEW n \in Nat \ {0}
  PROVE  /\ x \div n \in Int /\ x % n \in 0..(n - 1)
         /\ x = (x \div n) * n + (x % n)
<1>1. x \div n \in Int
  OBVIOUS
<1>2. x % n \in 0..(n - 1)
  OBVIOUS
<1>3. x = (x \div n) * n + (x % n)
  OBVIOUS
<1> QED
  BY <1>1, <1>2, <1>3

LEMMA DivNat ==
  ASSUME NEW x \in Nat, NEW n \in Nat \ {0}
  PROVE  x \div n \in Nat
OBVIOUS

(***************************************************************************)
(* Places in an order.  The rank of a member of a finite set is one more   *)
(* than the number of those before it; by their ranks the members form a   *)
(* sequence that ascends and has each of them once.                        *)
(***************************************************************************)
Ordered(R, S) ==
  /\ \A x \in S : <<x, x>> \notin R
  /\ \A x \in S : \A y \in S : x = y \/ <<x, y>> \in R \/ <<y, x>> \in R
  /\ \A x \in S : \A y \in S : \A z \in S :
       <<x, y>> \in R /\ <<y, z>> \in R => <<x, z>> \in R

Below(R, S, x) == {y \in S : <<y, x>> \in R}

LEMMA RankAscends ==
  ASSUME NEW S, IsFiniteSet(S), NEW R, Ordered(R, S), NEW x \in S
  PROVE  /\ Cardinality(Below(R, S, x)) + 1 \in 1..Cardinality(S)
         /\ \A y \in S : <<x, y>> \in R =>
              Cardinality(Below(R, S, x)) < Cardinality(Below(R, S, y))
<1>1. ASSUME NEW z \in S
      PROVE  /\ Below(R, S, z) \in SUBSET S /\ IsFiniteSet(Below(R, S, z))
             /\ Cardinality(Below(R, S, z)) \in Nat
  <2>1. Below(R, S, z) \in SUBSET S
    BY DEF Below
  <2>2. IsFiniteSet(Below(R, S, z))
    BY <2>1, FS_Subset
  <2> QED
    BY <2>1, <2>2, FS_CardinalityType
<1>2. ASSUME NEW T \in SUBSET S, Below(R, S, x) \subseteq T, x \in T
      PROVE  Cardinality(Below(R, S, x)) < Cardinality(T)
  <2> DEFINE B == Below(R, S, x)
  <2>1. IsFiniteSet(T) /\ Cardinality(T) \in Nat
    <3>1. IsFiniteSet(T)
      BY FS_Subset
    <3> QED
      BY <3>1, FS_CardinalityType
  <2>2. x \notin B
    BY DEF Below, Ordered
  <2>3. IsFiniteSet(T \ {x})
        /\ Cardinality(T \ {x}) = IF x \in T THEN Cardinality(T) - 1 ELSE Cardinality(T)
    BY <2>1, FS_RemoveElement
  <2>4. B \in SUBSET (T \ {x})
    BY <1>2, <2>2
  <2>5. Cardinality(B) <= Cardinality(T \ {x})
    BY <2>3, <2>4, FS_Subset
  <2>6. Cardinality(B) \in Nat
    BY <1>1
  <2> HIDE DEF B
  <2>7. Cardinality(B) < Cardinality(T)
    BY <1>2, <2>1, <2>3, <2>5, <2>6
  <2> QED
    BY <2>7 DEF B
<1>3. Cardinality(Below(R, S, x)) < Cardinality(S)
  BY <1>1, <1>2
<1>4. Cardinality(S) \in Nat
  BY FS_CardinalityType
<1>5. ASSUME NEW y \in S, <<x, y>> \in R
      PROVE  Cardinality(Below(R, S, x)) < Cardinality(Below(R, S, y))
  <2>1. Below(R, S, x) \subseteq Below(R, S, y) /\ x \in Below(R, S, y)
    BY <1>5 DEF Below, Ordered
  <2> QED
    BY <1>1, <1>2, <2>1
<1> QED
  BY <1>1, <1>3, <1>4, <1>5

LEMMA RankedSequence ==
  ASSUME NEW S, IsFiniteSet(S), NEW R, Ordered(R, S),
         NEW rank, \A x \in S : rank[x] = Cardinality(Below(R, S, x)) + 1,
         NEW m, m = Cardinality(S)
  PROVE  \E at \in [1..m -> S] :
           /\ \A x \in S : rank[x] \in 1..m /\ at[rank[x]] = x
           /\ \A n \in 1..m : rank[at[n]] = n
           /\ \A n \in 1..m : \A k \in 1..m : n < k => <<at[n], at[k]>> \in R
<1>1. /\ \A x \in S : rank[x] \in 1..m
      /\ \A x \in S : \A y \in S : <<x, y>> \in R => rank[x] < rank[y]
  <2>1. ASSUME NEW x \in S
        PROVE  /\ Cardinality(Below(R, S, x)) + 1 \in 1..m
               /\ \A y \in S : <<x, y>> \in R =>
                    Cardinality(Below(R, S, x)) < Cardinality(Below(R, S, y))
    BY RankAscends
  <2>2. \A x \in S : Cardinality(Below(R, S, x)) \in Nat
    <3> TAKE x \in S
    <3>1. Below(R, S, x) \in SUBSET S
      BY DEF Below
    <3>2. IsFiniteSet(Below(R, S, x))
      BY <3>1, FS_Subset
    <3> QED
      BY <3>2, FS_CardinalityType
  <2> QED
    BY <2>1, <2>2
<1>2. m \in Nat
  BY FS_CardinalityType
<1>3. \A x \in S : \A y \in S : rank[x] = rank[y] => x = y
  <2> TAKE x \in S
  <2> TAKE y \in S
  <2>1. rank[x] \in Int /\ rank[y] \in Int
    BY <1>1, <1>2
  <2>2. x = y \/ <<x, y>> \in R \/ <<y, x>> \in R
    BY DEF Ordered
  <2>3. x = y \/ rank[x] < rank[y] \/ rank[y] < rank[x]
    BY <1>1, <2>2
  <2> QED
    BY ONLY <2>1, <2>3
<1>4. ASSUME NEW n \in 1..m PROVE \E x \in S : rank[x] = n
  <2> SUFFICES ASSUME \A x \in S : rank[x] # n PROVE FALSE
    OBVIOUS
  <2> DEFINE T == (1..m) \ {n}
             f == [x \in S |-> rank[x]]
  <2>1. IsFiniteSet(1..m) /\ Cardinality(1..m) = m
    <3>1. 1 \in Int /\ m \in Int
      BY <1>2
    <3>2. IsFiniteSet(1..m) /\ Cardinality(1..m) = IF 1 > m THEN 0 ELSE m - 1 + 1
      BY ONLY <3>1, FS_Interval
    <3>3. (IF 1 > m THEN 0 ELSE m - 1 + 1) = m
      BY ONLY <1>2
    <3> QED
      BY ONLY <3>2, <3>3
  <2>2. /\ IsFiniteSet(T)
        /\ Cardinality(T) = IF n \in 1..m THEN Cardinality(1..m) - 1 ELSE Cardinality(1..m)
    BY <2>1, FS_RemoveElement
  <2>3. Cardinality(T) < Cardinality(S)
    BY <1>2, <2>1, <2>2
  <2>4. f \in [S -> T]
    BY <1>1
  <2> HIDE DEF f, T
  <2>5. PICK x \in S, y \in S : x # y /\ f[x] = f[y]
    BY <2>2, <2>3, <2>4, FS_PigeonHole
  <2> QED
    BY <1>3, <2>5 DEF f
<1> DEFINE at == [n \in 1..m |-> CHOOSE x \in S : rank[x] = n]
<1>5. \A n \in 1..m : at[n] \in S /\ rank[at[n]] = n
  BY <1>4
<1>6. at \in [1..m -> S]
  BY <1>5
<1> HIDE DEF at
<1>7. \A x \in S : at[rank[x]] = x
  BY <1>1, <1>3, <1>5
<1>8. ASSUME NEW n \in 1..m, NEW k \in 1..m, n < k PROVE <<at[n], at[k]>> \in R
  <2>1. at[n] \in S /\ at[k] \in S /\ rank[at[n]] = n /\ rank[at[k]] = k
    BY <1>5
  <2>2. \/ at[n] = at[k] \/ <<at[n], at[k]>> \in R \/ <<at[k], at[n]>> \in R
    BY <2>1 DEF Ordered
  <2>3. <<at[k], at[n]>> \in R => k < n
    BY <1>1, <2>1
  <2> QED
    BY <1>2, <1>8, <2>1, <2>2, <2>3
<1> QED
  BY <1>1, <1>5, <1>6, <1>7, <1>8

LEMMA Multiple ==
  ASSUME NEW d \in Int, NEW n \in Nat \ {0}
  PROVE  (d * n) \div n = d /\ (d * n) % n = 0
<1> DEFINE x == d * n
           y == x \div n
           r == x % n
<1>1. x \in Int
  OBVIOUS
<1>2. y \in Int /\ r \in 0..(n - 1) /\ x = y * n + r
  <2> HIDE DEF x
  <2> QED
    BY <1>1, DivMod
<1>3. d * n = y * n + r
  BY <1>2
<1> HIDE DEF x, y, r
<1>4. (d - y) * n = r
  BY <1>2, <1>3
<1>5. /\ \A c \in Int : c >= 1 => c * n >= n
      /\ \A c \in Int : c <= -1 => c * n <= -n
  OBVIOUS
<1>6. d - y \in Int /\ 0 <= r /\ r < n
  BY <1>2
<1>7. d - y = 0
  BY <1>4, <1>5, <1>6
<1>8. d = y /\ r = 0
  BY <1>2, <1>4, <1>7
<1> QED
  BY <1>8 DEF x, y, r

\* The greatest multiple up to a number.
LEMMA MultipleBelow ==
  ASSUME NEW x \in Int, NEW n \in Nat \ {0}, NEW y, y = (x \div n) * n
  PROVE  /\ y \in Int /\ y <= x /\ x < y + n /\ y % n = 0
         /\ \A k \in Int : k * n <= x => k * n <= y
<1> DEFINE d == x \div n
           r == x % n
<1>1. d \in Int /\ r \in 0..(n - 1) /\ x = d * n + r
  BY DivMod
<1> HIDE DEF d, r
<1>2. y = d * n /\ y \in Int
  BY <1>1 DEF d
<1>3. y <= x /\ x < y + n
  BY <1>1, <1>2
<1>4. y % n = 0
  BY <1>1, <1>2, Multiple
<1>5. ASSUME NEW k \in Int, k * n <= x PROVE k * n <= y
  <2>1. \A c \in Int : c >= 1 => c * n >= n
    OBVIOUS
  <2>2. (k - d) * n = k * n - d * n /\ k - d \in Int /\ k * n \in Int
    BY <1>1
  <2>3. ~(k - d >= 1)
    BY <1>2, <1>3, <1>5, <2>1, <2>2
  <2>4. \A c \in Int : c <= 0 => c * n <= 0
    OBVIOUS
  <2> QED
    BY <1>2, <2>2, <2>3, <2>4
<1> QED
  BY <1>2, <1>3, <1>4, <1>5

\* The least multiple from a number on.
LEMMA MultipleAbove ==
  ASSUME NEW x \in Int, NEW n \in Nat \ {0}, NEW y, y = ((x + n - 1) \div n) * n
  PROVE  /\ y \in Int /\ y >= x /\ y < x + n /\ y % n = 0
         /\ \A k \in Int : k * n >= x => k * n >= y
<1> DEFINE z == x + n - 1
           d == z \div n
<1>1. z \in Int
  OBVIOUS
<1>2. y = d * n /\ d \in Int
  <2>1. d \in Int
    <3> HIDE DEF z
    <3> QED
      BY <1>1, DivMod
  <2> QED
    BY <2>1
<1>3. y \in Int /\ y <= z /\ z < y + n /\ y % n = 0
  <2>1. y = (z \div n) * n
    OBVIOUS
  <2> HIDE DEF z, d
  <2> QED
    BY <1>1, <2>1, MultipleBelow
<1>4. y >= x /\ y < x + n
  BY <1>3
<1> HIDE DEF d, z
<1>5. ASSUME NEW k \in Int, k * n >= x PROVE k * n >= y
  <2>1. \A c \in Int : c >= 1 => c * n >= n
    OBVIOUS
  <2>2. (d - k) * n = d * n - k * n /\ d - k \in Int /\ k * n \in Int
    BY <1>2
  <2>3. ~(d - k >= 1)
    BY <1>2, <1>3, <1>4, <1>5, <2>1, <2>2
  <2>4. \A c \in Int : c <= 0 => c * n <= 0
    OBVIOUS
  <2> QED
    BY <1>2, <1>3, <2>2, <2>3, <2>4
<1> QED
  BY <1>3, <1>4, <1>5

\* The image of a finite set.
LEMMA ImageIsFinite ==
  ASSUME NEW S, IsFiniteSet(S), NEW f
  PROVE  IsFiniteSet({f[x] : x \in S})
<1> DEFINE Img(T) == {f[x] : x \in T}
           B == {T \in SUBSET S : ~IsFiniteSet(Img(T))}
<1>1. B \in SUBSET (SUBSET S)
  OBVIOUS
<1>2. ASSUME B # {} PROVE FALSE
  <2>1. PICK T \in B : \A U \in B : U \subseteq T => U = T
    <3> HIDE DEF B
    <3> QED
      BY <1>1, <1>2, MinimalSubset
  <2>2. T # {}
    <3>1. Img({}) = {}
      OBVIOUS
    <3>2. IsFiniteSet(Img({}))
      BY <3>1, FS_EmptySet
    <3> QED
      BY <2>1, <3>2
  <2>3. PICK x \in T : TRUE
    BY <2>2
  <2>4. T \ {x} \notin B
    BY <2>1, <2>3
  <2>5. IsFiniteSet(Img(T \ {x}))
    BY <2>1, <2>4
  <2>6. Img(T) = Img(T \ {x}) \cup {f[x]}
    BY <2>3
  <2>7. IsFiniteSet(Img(T))
    <3> DEFINE A == Img(T \ {x})
               v == f[x]
    <3>1. IsFiniteSet(A) /\ Img(T) = A \cup {v}
      BY <2>5, <2>6
    <3> HIDE DEF A, v
    <3>2. IsFiniteSet(A \cup {v})
      BY <3>1, FS_AddElement
    <3> HIDE DEF Img
    <3> QED
      BY <3>1, <3>2
  <2> QED
    BY <2>1, <2>7
<1> QED
  BY <1>2

\* A sum of nothing negative is no less than that of a part.
LEMMA SumOfPart ==
  ASSUME NEW S, IsFiniteSet(S), NEW f, \A x \in S : f[x] \in Nat, NEW T \in SUBSET S
  PROVE  SumFunctionOnSet(f, T) <= SumFunctionOnSet(f, S)
<1> DEFINE g == [x \in S |-> IF x \in T THEN f[x] ELSE 0]
<1>1. \A x \in S : g[x] = IF x \in T THEN f[x] ELSE 0
  OBVIOUS
<1> HIDE DEF g
<1>2. \A x \in S : g[x] \in Int /\ f[x] \in Int /\ g[x] <= f[x]
  BY <1>1
<1>3. SumFunctionOnSet(g, S) <= SumFunctionOnSet(f, S)
  BY <1>2, SumMonotone
<1>4. SumFunctionOnSet(g, S) = SumFunctionOnSet(g, T)
  BY <1>1, <1>2, SumSupported
<1>5. IsFiniteSet(T)
  BY FS_Subset
<1>6. \A x \in T : f[x] \in Int /\ g[x] = f[x]
  BY <1>1, <1>2
<1>7. SumFunctionOnSet(f, T) = SumFunctionOnSet(g, T)
  BY <1>5, <1>6, SumSame
<1> QED
  BY <1>3, <1>4, <1>7

\* A sum along a sequence that has no member twice.
Placed(at, k) == {at[n] : n \in 1..k}

SumsAlong(f, S, at, m) ==
  /\ SumFunctionOnSet(f, Placed(at, 0)) = 0
  /\ \A k \in 0..m : /\ Placed(at, k) \in SUBSET S
                     /\ SumFunctionOnSet(f, Placed(at, k)) \in Int
  /\ \A k \in 1..m : SumFunctionOnSet(f, Placed(at, k))
                       = SumFunctionOnSet(f, Placed(at, k - 1)) + f[at[k]]

LEMMA SumAlong ==
  ASSUME NEW S, IsFiniteSet(S), NEW f, \A x \in S : f[x] \in Int,
         NEW m \in Nat, NEW at \in [1..m -> S],
         \A n \in 1..m : \A k \in 1..m : at[n] = at[k] => n = k
  PROVE  SumsAlong(f, S, at, m)
<1>1. Placed(at, 0) = {}
  BY DEF Placed
<1>2. SumFunctionOnSet(f, Placed(at, 0)) = 0
  BY <1>1, SumEmpty
<1>3. ASSUME NEW k \in 0..m
      PROVE  /\ Placed(at, k) \in SUBSET S
             /\ SumFunctionOnSet(f, Placed(at, k)) \in Int
             /\ IsFiniteSet(Placed(at, k))
  <2>1. Placed(at, k) \in SUBSET S
    BY DEF Placed
  <2>2. IsFiniteSet(Placed(at, k))
    BY <2>1, FS_Subset
  <2>3. \A x \in Placed(at, k) : f[x] \in Int
    BY <2>1
  <2>4. SumFunctionOnSet(f, Placed(at, k)) \in Int
    BY <2>2, <2>3, SumType
  <2> QED
    BY <2>1, <2>2, <2>4
<1>4. ASSUME NEW k \in 1..m
      PROVE  SumFunctionOnSet(f, Placed(at, k))
               = SumFunctionOnSet(f, Placed(at, k - 1)) + f[at[k]]
  <2>1. at[k] \in Placed(at, k)
    BY DEF Placed
  <2>2. Placed(at, k) \ {at[k]} = Placed(at, k - 1)
    <3>1. ASSUME NEW x PROVE x \in Placed(at, k) /\ x # at[k] <=> x \in Placed(at, k - 1)
      <4>1. ASSUME x \in Placed(at, k), x # at[k] PROVE x \in Placed(at, k - 1)
        <5>1. PICK n \in 1..k : x = at[n]
          BY <4>1 DEF Placed
        <5>2. n \in 1..(k - 1)
          BY <4>1, <5>1
        <5> QED
          BY <5>1, <5>2 DEF Placed
      <4>2. ASSUME x \in Placed(at, k - 1) PROVE x \in Placed(at, k) /\ x # at[k]
        <5>1. PICK n \in 1..(k - 1) : x = at[n]
          BY <4>2 DEF Placed
        <5>2. n \in 1..k /\ n \in 1..m /\ n # k
          BY <5>1
        <5> QED
          BY <5>1, <5>2 DEF Placed
      <4> QED
        BY <4>1, <4>2
    <3> QED
      BY <3>1
  <2>3. k \in 0..m
    OBVIOUS
  <2>4. IsFiniteSet(Placed(at, k)) /\ \A x \in Placed(at, k) : f[x] \in Int
    BY <1>3, <2>3
  <2>5. SumFunctionOnSet(f, Placed(at, k))
          = f[at[k]] + SumFunctionOnSet(f, Placed(at, k) \ {at[k]})
    BY <2>1, <2>4, SumWithout
  <2>6. k - 1 \in 0..m
    OBVIOUS
  <2>7. SumFunctionOnSet(f, Placed(at, k - 1)) \in Int /\ f[at[k]] \in Int
    BY <1>3, <2>6
  <2>8. SumFunctionOnSet(f, Placed(at, k))
          = f[at[k]] + SumFunctionOnSet(f, Placed(at, k - 1))
    BY <2>2, <2>5
  <2> DEFINE X == SumFunctionOnSet(f, Placed(at, k - 1))
             Y == f[at[k]]
  <2> HIDE DEF X, Y
  <2> QED
    BY <2>7, <2>8 DEF X, Y
<1> QED
  BY <1>2, <1>3, <1>4 DEF SumsAlong
=============================================================================
