------------------------------- MODULE FiniteSums -------------------------------
(***************************************************************************)
(* Induction over data, and sums defined by it.  The induction rules of    *)
(* the library take a predicate; here the induction is over a set, from    *)
(* the well-foundedness of the natural numbers.                            *)
(***************************************************************************)
EXTENDS Integers, FiniteSets, FiniteSetsExt, Functions, Folds, WellFoundedInduction, FiniteSetTheorems, TLAPS

\* Every non-empty set of natural numbers has a least element.
LEMMA Least ==
  ASSUME NEW T, T \subseteq Nat, T # {}
  PROVE  \E m \in T : \A k \in T : m <= k
<1>1. \E m \in T : \A k \in T : <<k, m>> \notin OpToRel(<, Nat)
  BY NatLessThanWellFounded, WFMin
<1>2. \A k, m \in Nat : <<k, m>> \in OpToRel(<, Nat) <=> k < m
  BY DEF OpToRel
<1>3. \E R : /\ \E m \in T : \A k \in T : <<k, m>> \notin R
             /\ \A k, m \in Nat : <<k, m>> \in R <=> k < m
  BY <1>1, <1>2, Zenon
<1>4. PICK m \in T : \A k \in T : ~(k < m)
  BY <1>3, Zenon
<1>5. \A k \in T : m <= k
  BY <1>4
<1> QED BY <1>5

\* What holds of 0, and of n + 1 if it holds of n, holds of every natural number.
LEMMA SetInduction ==
  ASSUME NEW T, 0 \in T, \A n \in Nat : n \in T => n + 1 \in T
  PROVE  \A n \in Nat : n \in T
<1> SUFFICES ASSUME Nat \ T # {} PROVE FALSE
  OBVIOUS
<1>1. PICK m \in Nat \ T : \A k \in Nat \ T : m <= k
  BY Least
<1>2. m # 0 /\ m - 1 \in Nat
  BY <1>1
<1>3. m - 1 \in T
  BY <1>1, <1>2
<1> QED BY <1>1, <1>2, <1>3

--------------------------------------------------------------------------------
(* The least and the greatest of a set. *)

\* The greatest of a set of numbers is the member that no member exceeds.
LEMMA Greatest ==
  ASSUME NEW S, S \subseteq Int, NEW m \in S, \A x \in S : x <= m
  PROVE  Max(S) = m
<1>1. \A y \in S : (\A x \in S : x <= y) => y = m
  OBVIOUS
<1> QED BY <1>1, Zenon DEF Max

\* A set of natural numbers that has one has a least one.
LEMMA Lowest ==
  ASSUME NEW S, S \subseteq Nat, S # {}
  PROVE  Min(S) \in S /\ \A x \in S : Min(S) <= x
<1>1. PICK m \in S : \A x \in S : m <= x
  BY Least
<1> QED BY <1>1 DEF Min

\* The lesser and the greater of two numbers.
LEMMA OfTwo ==
  ASSUME NEW a \in Int, NEW b \in Int
  PROVE  /\ Min({a, b}) = IF a <= b THEN a ELSE b
         /\ Max({a, b}) = IF a >= b THEN a ELSE b
<1> DEFINE least == IF a <= b THEN a ELSE b
           most == IF a >= b THEN a ELSE b
<1>1. least \in {a, b} /\ \A y \in {a, b} : least <= y
  OBVIOUS
<1>2. \A x \in {a, b} : (\A y \in {a, b} : x <= y) => x = least
  BY <1>1
<1>3. most \in {a, b} /\ \A y \in {a, b} : y <= most
  OBVIOUS
<1>4. Max({a, b}) = most
  <2> HIDE DEF most
  <2> QED BY <1>3, Greatest
<1>5. Min({a, b}) = least
  <2> HIDE DEF least
  <2> QED BY <1>1, <1>2, Zenon DEF Min
<1> QED BY <1>4, <1>5

\* The least of a set of numbers is the member that exceeds no member.
LEMMA Smallest ==
  ASSUME NEW S, S \subseteq Int, NEW m \in S, \A x \in S : m <= x
  PROVE  Min(S) = m
<1>1. \A y \in S : (\A x \in S : y <= x) => y = m
  OBVIOUS
<1> QED BY <1>1, Zenon DEF Min

--------------------------------------------------------------------------------
(* Sums of the first n numbers of a table. *)

IsPrefixSum(F, C, n) == F = [i \in 0 .. n |-> IF i = 0 THEN 0 ELSE F[i - 1] + C[i]]

\* The recursive definition of these sums has a solution.
LEMMA PrefixSum ==
  ASSUME NEW C, NEW N \in Nat
  PROVE  \E F : IsPrefixSum(F, C, N)
<1> DEFINE T == {n \in Nat : \E F : IsPrefixSum(F, C, n)}
<1>1. 0 \in T
  <2> DEFINE F == [i \in 0 .. 0 |-> 0]
  <2>1. IsPrefixSum(F, C, 0)
    BY DEF IsPrefixSum
  <2> QED BY <2>1
<1>2. ASSUME NEW n \in Nat, n \in T PROVE n + 1 \in T
  <2>1. PICK F : IsPrefixSum(F, C, n)
    BY <1>2
  <2> DEFINE G == [i \in 0 .. n + 1 |-> IF i = n + 1 THEN F[n] + C[n + 1] ELSE F[i]]
  <2>2. \A i \in 0 .. n + 1 : G[i] = IF i = 0 THEN 0 ELSE G[i - 1] + C[i]
    <3> SUFFICES ASSUME NEW i \in 0 .. n + 1 PROVE G[i] = IF i = 0 THEN 0 ELSE G[i - 1] + C[i]
      OBVIOUS
    <3>1. i # 0 => i - 1 \in 0 .. n /\ G[i - 1] = F[i - 1]
      OBVIOUS
    <3>2. i \in 0 .. n => F[i] = IF i = 0 THEN 0 ELSE F[i - 1] + C[i]
      BY <2>1 DEF IsPrefixSum
    <3> QED BY <3>1, <3>2
  <2>3. IsPrefixSum(G, C, n + 1)
    <3> HIDE DEF G
    <3>1. G = [i \in 0 .. n + 1 |-> G[i]]
      BY DEF G
    <3> QED BY <2>2, <3>1 DEF IsPrefixSum
  <2> QED BY <2>3
<1> HIDE DEF T
<1>3. N \in T
  BY <1>1, <1>2, SetInduction
<1> QED BY <1>3 DEF T

\* Up to the place N, two tables grow by the same numbers, F k places later than G.
GrowAlike(F, G, k, N) ==
  \A n \in 1 .. N : \E c \in Int : G[n] = G[n - 1] + c /\ F[k + n] = F[k + n - 1] + c

\* Two such tables keep their distance d.
LEMMA SameGrowth ==
  ASSUME NEW N \in Nat, NEW k \in Nat, NEW d \in Int, NEW F, NEW G,
         GrowAlike(F, G, k, N), G[0] \in Int, F[k] = G[0] + d
  PROVE  G[N] \in Int /\ F[k + N] = G[N] + d
<1> DEFINE T == {n \in Nat : n <= N => G[n] \in Int /\ F[k + n] = G[n] + d}
<1>1. 0 \in T
  <2>1. k + 0 = k
    OBVIOUS
  <2> QED BY <2>1
<1>2. ASSUME NEW n \in Nat, n \in T PROVE n + 1 \in T
  <2> SUFFICES ASSUME n + 1 <= N PROVE G[n + 1] \in Int /\ F[k + (n + 1)] = G[n + 1] + d
    OBVIOUS
  <2>1. n + 1 \in 1 .. N /\ (n + 1) - 1 = n /\ k + (n + 1) - 1 = k + n
    OBVIOUS
  <2>2. G[n] \in Int /\ F[k + n] = G[n] + d
    BY <1>2
  <2>3. PICK c \in Int : G[n + 1] = G[n] + c /\ F[k + (n + 1)] = F[k + n] + c
    BY <2>1 DEF GrowAlike
  <2> QED BY <2>2, <2>3
<1> HIDE DEF T
<1>3. N \in T
  BY <1>1, <1>2, SetInduction
<1> QED BY <1>3 DEF T

--------------------------------------------------------------------------------
(* Sums over the elements of a finite set. *)

Chosen(s)        == CHOOSE x \in s : TRUE
SumStep(F, f, s) == IF s = {} THEN 0 ELSE f[Chosen(s)] + F[s \ {Chosen(s)}]
IsSum(F, f, S)   == F = [s \in SUBSET S |-> SumStep(F, f, s)]

\* The subsets of a finite set are reached by their cardinality.
LEMMA CardinalityInduction ==
  ASSUME NEW S, IsFiniteSet(S), NEW P, {} \in P,
         \A s \in SUBSET S : s # {} /\ s \ {Chosen(s)} \in P => s \in P
  PROVE  \A s \in SUBSET S : s \in P
<1> DEFINE T == {n \in Nat : \A s \in SUBSET S : Cardinality(s) = n => s \in P}
<1>0. \A s \in SUBSET S : IsFiniteSet(s) /\ Cardinality(s) \in Nat
  BY FS_Subset, FS_CardinalityType
<1>1. 0 \in T
  BY <1>0, FS_EmptySet
<1>2. ASSUME NEW n \in Nat, n \in T PROVE n + 1 \in T
  <2> SUFFICES ASSUME NEW s \in SUBSET S, Cardinality(s) = n + 1 PROVE s \in P
    OBVIOUS
  <2>1. s # {}
    BY FS_EmptySet
  <2>2. Chosen(s) \in s
    BY <2>1 DEF Chosen
  <2>3. Cardinality(s \ {Chosen(s)}) = n
    <3>1. Cardinality(s \ {Chosen(s)}) = Cardinality(s) - 1
      BY <1>0, <2>2, FS_RemoveElement
    <3> QED BY <3>1
  <2>4. s \ {Chosen(s)} \in P
    BY <1>2, <2>3
  <2> QED BY <2>1, <2>4
<1> HIDE DEF T
<1>3. \A n \in Nat : n \in T
  BY <1>1, <1>2, SetInduction
<1> QED BY <1>0, <1>3 DEF T

\* The recursive definition of the sum has a solution.
LEMMA SumExists ==
  ASSUME NEW f, NEW S, IsFiniteSet(S)
  PROVE  \E F : IsSum(F, f, S)
<1> DEFINE Upto(F, n) == /\ F = [s \in SUBSET S |-> F[s]]
                         /\ \A s \in SUBSET S : Cardinality(s) <= n => F[s] = SumStep(F, f, s)
           T == {n \in Nat : \E F : Upto(F, n)}
<1>0. \A s \in SUBSET S : /\ IsFiniteSet(s) /\ Cardinality(s) \in Nat
                          /\ Cardinality(s) <= Cardinality(S)
  BY FS_Subset, FS_CardinalityType
<1>1. \A s \in SUBSET S : s # {} => /\ Chosen(s) \in s
                                  /\ s \ {Chosen(s)} \in SUBSET S
                                  /\ Cardinality(s \ {Chosen(s)}) = Cardinality(s) - 1
  <2> SUFFICES ASSUME NEW s \in SUBSET S, s # {}
               PROVE  /\ Chosen(s) \in s
                      /\ Cardinality(s \ {Chosen(s)}) = Cardinality(s) - 1
    OBVIOUS
  <2>1. Chosen(s) \in s
    BY DEF Chosen
  <2> QED BY <1>0, <2>1, FS_RemoveElement
<1>2. 0 \in T
  <2> DEFINE F == [s \in SUBSET S |-> 0]
  <2>1. \A s \in SUBSET S : Cardinality(s) <= 0 => s = {}
    BY <1>0, FS_EmptySet
  <2>2. Upto(F, 0)
    BY <2>1 DEF SumStep
  <2> QED BY <2>2
<1>3. ASSUME NEW n \in Nat, n \in T PROVE n + 1 \in T
  <2>1. PICK F : Upto(F, n)
    BY <1>3
  <2> DEFINE G == [s \in SUBSET S |-> IF Cardinality(s) <= n THEN F[s] ELSE SumStep(F, f, s)]
  <2>2. ASSUME NEW s \in SUBSET S, Cardinality(s) <= n + 1 PROVE G[s] = SumStep(G, f, s)
    <3>1. CASE s = {}
      BY <2>1, <3>1, FS_EmptySet DEF SumStep
    <3>2. CASE s # {}
      <4>1. G[s \ {Chosen(s)}] = F[s \ {Chosen(s)}]
        BY <1>0, <1>1, <2>2, <3>2
      <4>2. SumStep(G, f, s) = SumStep(F, f, s)
        BY <3>2, <4>1 DEF SumStep
      <4> QED BY <2>1, <4>2
    <3> QED BY <3>1, <3>2
  <2>3. G = [s \in SUBSET S |-> G[s]]
    OBVIOUS
  <2> HIDE DEF G
  <2>4. Upto(G, n + 1)
    BY <2>2, <2>3
  <2>5. \E H : Upto(H, n + 1)
    BY <2>4, Zenon
  <2> HIDE DEF Upto
  <2> QED BY <2>5
<1>4. Cardinality(S) \in T
  <2> HIDE DEF T
  <2>1. \A n \in Nat : n \in T
    BY <1>2, <1>3, SetInduction
  <2> QED BY <2>1, FS_CardinalityType
<1>5. PICK F : Upto(F, Cardinality(S))
  BY <1>4
<1>6. \A s \in SUBSET S : F[s] = SumStep(F, f, s)
  BY <1>0, <1>5
<1>7. IsSum(F, f, S)
  BY <1>5, <1>6 DEF IsSum
<1> QED BY <1>7

\* A sum of natural numbers is one, and no term exceeds it.
LEMMA SumType ==
  ASSUME NEW S, IsFiniteSet(S), NEW f \in [S -> Nat], NEW F, IsSum(F, f, S)
  PROVE  F[S] \in Nat
<1> DEFINE P == {s \in SUBSET S : F[s] \in Nat}
<1>1. {} \in P
  BY DEF IsSum, SumStep
<1>2. ASSUME NEW s \in SUBSET S, s # {}, s \ {Chosen(s)} \in P PROVE s \in P
  <2>1. Chosen(s) \in s
    BY <1>2 DEF Chosen
  <2>2. F[s] = f[Chosen(s)] + F[s \ {Chosen(s)}]
    BY <1>2 DEF IsSum, SumStep
  <2> QED BY <1>2, <2>1, <2>2
<1> HIDE DEF P
<1>3. \A s \in SUBSET S : s \in P
  BY <1>1, <1>2, CardinalityInduction
<1> QED BY <1>3 DEF P

\* A term that changes changes the sum by as much.
LEMMA SumChange ==
  ASSUME NEW S, IsFiniteSet(S), NEW f \in [S -> Int], NEW g \in [S -> Int],
         NEW c \in S, \A x \in S \ {c} : g[x] = f[x],
         NEW F, IsSum(F, f, S), NEW G, IsSum(G, g, S)
  PROVE  G[S] = F[S] + g[c] - f[c]
<1> DEFINE P == {s \in SUBSET S : /\ F[s] \in Int
                                 /\ G[s] = F[s] + IF c \in s THEN g[c] - f[c] ELSE 0}
<1>1. {} \in P
  BY DEF IsSum, SumStep
<1>2. ASSUME NEW s \in SUBSET S, s # {}, s \ {Chosen(s)} \in P PROVE s \in P
  <2> DEFINE x == Chosen(s)
  <2>1. x \in s
    BY <1>2 DEF Chosen
  <2>2. F[s] = f[x] + F[s \ {x}] /\ G[s] = g[x] + G[s \ {x}]
    BY <1>2 DEF IsSum, SumStep
  <2>3. G[s \ {x}] = F[s \ {x}] + IF c \in s \ {x} THEN g[c] - f[c] ELSE 0
    BY <1>2
  <2> HIDE DEF x
  <2>4. f[x] \in Int /\ g[x] \in Int /\ (x # c => g[x] = f[x]) /\ F[s \ {x}] \in Int
    BY <1>2, <2>1 DEF x
  <2>5. CASE c = x
    BY <2>1, <2>2, <2>3, <2>4, <2>5
  <2>6. CASE c # x
    BY <2>1, <2>2, <2>3, <2>4, <2>6
  <2> QED BY <2>5, <2>6
<1> HIDE DEF P
<1>3. \A s \in SUBSET S : s \in P
  BY <1>1, <1>2, CardinalityInduction
<1>4. F[S] \in Int /\ G[S] = F[S] + IF c \in S THEN g[c] - f[c] ELSE 0
  BY <1>3 DEF P
<1> QED BY <1>4

\* A sum of zeros is zero.
LEMMA SumOfZeros ==
  ASSUME NEW S, IsFiniteSet(S), NEW f, \A x \in S : f[x] = 0, NEW F, IsSum(F, f, S)
  PROVE  F[S] = 0
<1> DEFINE P == {s \in SUBSET S : F[s] = 0}
<1>1. {} \in P
  BY DEF IsSum, SumStep
<1>2. ASSUME NEW s \in SUBSET S, s # {}, s \ {Chosen(s)} \in P PROVE s \in P
  <2>1. Chosen(s) \in s
    BY <1>2 DEF Chosen
  <2>2. F[s] = f[Chosen(s)] + F[s \ {Chosen(s)}]
    BY <1>2 DEF IsSum, SumStep
  <2> QED BY <1>2, <2>1, <2>2
<1> HIDE DEF P
<1>3. \A s \in SUBSET S : s \in P
  BY <1>1, <1>2, CardinalityInduction
<1> QED BY <1>3 DEF P

\* The fold that adds up a function is the sum over its domain.
LEMMA FoldIsSum ==
  ASSUME NEW f, NEW S, DOMAIN f = S, IsFiniteSet(S)
  PROVE  \E F : IsSum(F, f, S) /\ FoldFunction(LAMBDA a, b : a + b, 0, f) = F[S]
<1> DEFINE F == CHOOSE H : IsSum(H, f, S)
<1>1. IsSum(F, f, S)
  BY SumExists
<1>2. FoldFunction(LAMBDA a, b : a + b, 0, f) = F[S]
  BY DEF FoldFunction, FoldFunctionOnSet, MapThenFoldSet, IsSum, SumStep, Chosen
<1> HIDE DEF F
<1> QED BY <1>1, <1>2
=================================================================================
