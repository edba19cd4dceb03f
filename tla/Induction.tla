------------------------------- MODULE Induction -------------------------------
(***************************************************************************)
(* Induction stated with sets, and what follows from it about finite sets  *)
(* of numbers and about sums: the facts that the proofs of the other       *)
(* modules share.                                                          *)
(***************************************************************************)
EXTENDS Integers, FiniteSets, FiniteSetsExt, FiniteSetTheorems, WellFoundedInduction,
        TLAPS

(* A set of numbers has a least one.                                       *)
LEMMA LeastNatural ==
    ASSUME NEW T \in SUBSET Nat, T # {}
    PROVE  \E n \in T : \A m \in T : n <= m
  <1>. DEFINE R == OpToRel(<, Nat)
  <1>1. IsWellFoundedOn(R, Nat)
    BY NatLessThanWellFounded
  <1>2. \A m, n \in Nat : <<m, n>> \in R <=> m < n
    BY DEF OpToRel
  <1>. HIDE DEF R
  <1>3. PICK n \in T : \A m \in T : <<m, n>> \notin R
    BY <1>1, WFMin
  <1>4. \A m \in T : ~(m < n)
    BY <1>2, <1>3
  <1>5. \A m \in T : m \in Nat /\ n \in Nat
    OBVIOUS
  <1>. QED  BY <1>3, <1>4, <1>5

(* Mathematical induction.                                                 *)
LEMMA NaturalInduction ==
    ASSUME NEW T, 0 \in T, \A n \in Nat : n \in T => n + 1 \in T
    PROVE  \A n \in Nat : n \in T
  <1>. SUFFICES ASSUME NEW k \in Nat, k \notin T  PROVE FALSE
    OBVIOUS
  <1>. DEFINE Outside == {n \in Nat : n \notin T}
  <1>1. PICK n \in Outside : \A m \in Outside : n <= m
    BY LeastNatural
  <1>2. n \in Nat /\ n # 0 /\ n - 1 \in Nat /\ n - 1 < n
    BY <1>1
  <1>3. n - 1 \in T
    BY <1>1, <1>2
  <1>. QED  BY <1>1, <1>2, <1>3

(* A finite set of numbers has a greatest one.                             *)
LEMMA GreatestNatural ==
    ASSUME NEW S \in SUBSET Nat, IsFiniteSet(S), S # {}
    PROVE  \E n \in S : \A m \in S : m <= n
  <1>1. PICK k \in Nat : ExistsSurjection(1 .. k, S)
    BY FS_NatSurjection
  <1>2. PICK f \in [1 .. k -> S] : \A x \in S : \E i \in 1 .. k : f[i] = x
    BY <1>1 DEF ExistsSurjection, Surjection
  <1>. DEFINE T == {n \in Nat : n \in 1 .. k => \E b \in Nat : \A i \in 1 .. n : f[i] <= b}
  <1>3. \A n \in Nat : n \in T
    <2>1. 0 \in T
      OBVIOUS
    <2>2. ASSUME NEW n \in Nat, n \in T
          PROVE  n + 1 \in T
      <3>. SUFFICES ASSUME n + 1 \in 1 .. k
                    PROVE  \E b \in Nat : \A i \in 1 .. n + 1 : f[i] <= b
        OBVIOUS
      <3>1. PICK b \in Nat : \A i \in 1 .. n : f[i] <= b
        <4>1. CASE n = 0
          BY <4>1
        <4>2. CASE n # 0
          BY <2>2, <4>2
        <4>. QED  BY <4>1, <4>2
      <3>2. f[n + 1] \in Nat
        OBVIOUS
      <3>3. \A i \in 1 .. n + 1 : i \in 1 .. n \/ i = n + 1
        OBVIOUS
      <3>4. \A i \in 1 .. n : f[i] \in Nat
        <4>1. 1 .. n \subseteq 1 .. k
          OBVIOUS
        <4>2. \A i \in 1 .. k : f[i] \in Nat
          OBVIOUS
        <4>. QED  BY <4>1, <4>2
      <3>5. \A i \in 1 .. n + 1 : f[i] <= b + f[n + 1]
        BY <3>1, <3>2, <3>3, <3>4
      <3>. QED  BY <3>2, <3>5
    <2>. HIDE DEF T
    <2>. QED  BY <2>1, <2>2, NaturalInduction
  <1>4. PICK b \in Nat : \A x \in S : x <= b
    <2>1. k # 0
      <3>1. PICK x \in S : TRUE
        OBVIOUS
      <3>2. PICK i \in 1 .. k : f[i] = x
        BY <1>2
      <3>. QED  BY <3>2
    <2>2. k \in T
      BY <1>3
    <2>3. \E b \in Nat : \A i \in 1 .. k : f[i] <= b
      BY <2>1, <2>2
    <2>. QED  BY <1>2, <2>3
  <1>. DEFINE Bounding == {n \in Nat : \A x \in S : x <= n}
  <1>5. PICK n \in Bounding : \A m \in Bounding : n <= m
    <2>1. b \in Bounding
      BY <1>4
    <2>. QED  BY <2>1, LeastNatural
  <1>6. CASE n \in S
    BY <1>5, <1>6
  <1>7. CASE n \notin S
    <2>1. n \in Nat /\ \A x \in S : x \in Nat /\ x <= n /\ x # n
      BY <1>5, <1>7
    <2>2. n # 0
      <3>1. PICK x \in S : TRUE
        OBVIOUS
      <3>2. x \in Nat /\ x <= n /\ x # n
        BY <2>1
      <3>. QED  BY <3>2
    <2>3. n - 1 \in Nat /\ n - 1 < n
      BY <2>1, <2>2
    <2>4. \A x \in S : x <= n - 1
      BY <2>1
    <2>5. n - 1 \in Bounding
      BY <2>3, <2>4
    <2>6. n <= n - 1
      BY <1>5, <2>5
    <2>. QED  BY <2>1, <2>6
  <1>. QED  BY <1>6, <1>7

(* The larger of two numbers.                                              *)
LEMMA MaxOfTwo ==
    ASSUME NEW a \in Int, NEW b \in Int
    PROVE  Max({a, b}) = IF a >= b THEN a ELSE b
  <1>. DEFINE m == IF a >= b THEN a ELSE b
  <1>1. m \in {a, b} /\ \A y \in {a, b} : m >= y
    OBVIOUS
  <1>2. \A x \in {a, b} : (\A y \in {a, b} : x >= y) => x = m
    OBVIOUS
  <1>. QED  BY <1>1, <1>2 DEF Max

(***************************************************************************)
(* Sums over a finite set, as the community modules fold them: what sums   *)
(* is a function on the subsets, which takes one element after the other.  *)
(***************************************************************************)
SumOf(f, S) == MapThenSumSet(LAMBDA x : f[x], S)

AnyOf(s) == CHOOSE x \in s : TRUE

Summing(f, S, sum) ==
    sum = [s \in SUBSET S |-> IF s = {} THEN 0 ELSE f[AnyOf(s)] + sum[s \ {AnyOf(s)}]]

(* The same, point by point.                                               *)
SumsUp(f, S, sum) ==
    /\ sum \in [SUBSET S -> Int]
    /\ sum[{}] = 0
    /\ \A s \in SUBSET S : s # {} => sum[s] = f[AnyOf(s)] + sum[s \ {AnyOf(s)}]

(* A subset without the element that is taken next.                        *)
LEMMA OneLess ==
    ASSUME NEW S, IsFiniteSet(S), NEW s \in SUBSET S, s # {}
    PROVE  /\ AnyOf(s) \in s
           /\ s \ {AnyOf(s)} \in SUBSET S
           /\ Cardinality(s) \in Nat
           /\ Cardinality(s \ {AnyOf(s)}) = Cardinality(s) - 1
  <1>1. AnyOf(s) \in s
    BY DEF AnyOf
  <1>2. IsFiniteSet(s) /\ Cardinality(s) \in Nat
    BY FS_Subset, FS_CardinalityType
  <1>. QED  BY <1>1, <1>2, FS_RemoveElement

(* Such a function exists.                                                 *)
LEMMA SummingExists ==
    ASSUME NEW S, IsFiniteSet(S), NEW f \in [S -> Int]
    PROVE  \E sum \in [SUBSET S -> Int] : Summing(f, S, sum)
  <1>. DEFINE Take(g, s) == IF s = {} THEN 0 ELSE f[AnyOf(s)] + g[s \ {AnyOf(s)}]
              Good(g, n) == /\ g \in [SUBSET S -> Int]
                            /\ \A s \in SUBSET S : Cardinality(s) <= n => g[s] = Take(g, s)
              T == {n \in Nat : \E g : Good(g, n)}
  <1>1. \A s \in SUBSET S : Cardinality(s) \in Nat /\ (Cardinality(s) = 0 => s = {})
    BY FS_Subset, FS_CardinalityType, FS_EmptySet
  <1>2. \E g : Good(g, 0)
    <2>. DEFINE g == [s \in SUBSET S |-> 0]
    <2>1. \A s \in SUBSET S : Cardinality(s) <= 0 => s = {}
      BY <1>1
    <2>2. Good(g, 0)
      BY <2>1
    <2>. HIDE DEF Good, g
    <2>. QED  BY <2>2
  <1>3. ASSUME NEW n \in Nat, NEW g, Good(g, n)
        PROVE  \E h : Good(h, n + 1)
    <2>1. \A s \in SUBSET S : Take(g, s) \in Int
      BY <1>3, OneLess
    <2>. DEFINE h == [s \in SUBSET S |-> IF Cardinality(s) <= n THEN g[s] ELSE Take(g, s)]
    <2>2. h \in [SUBSET S -> Int]
      BY <1>3, <2>1
    <2>3. ASSUME NEW s \in SUBSET S, Cardinality(s) <= n + 1
          PROVE  h[s] = Take(h, s)
      <3>1. h[s] = Take(g, s)
        BY <1>3
      <3>2. s # {} => h[s \ {AnyOf(s)}] = g[s \ {AnyOf(s)}]
        BY <2>3, OneLess
      <3>. QED  BY <3>1, <3>2
    <2>4. Good(h, n + 1)
      BY <2>2, <2>3
    <2>. HIDE DEF Good, h
    <2>. QED  BY <2>4
  <1>4. \A n \in Nat : n \in T
    <2>. HIDE DEF Good
    <2>1. 0 \in T /\ \A n \in Nat : n \in T => n + 1 \in T
      BY <1>2, <1>3
    <2>. HIDE DEF T
    <2>. QED  BY <2>1, NaturalInduction
  <1>5. Cardinality(S) \in Nat /\ \A s \in SUBSET S : Cardinality(s) <= Cardinality(S)
    BY FS_CardinalityType, FS_Subset
  <1>6. PICK g : Good(g, Cardinality(S))
    BY <1>4, <1>5
  <1>7. g = [s \in SUBSET S |-> Take(g, s)]
    BY <1>5, <1>6
  <1>. QED  BY <1>6, <1>7 DEF Summing

(* The sum is taken by one.                                                *)
LEMMA SumTaken ==
    ASSUME NEW S, IsFiniteSet(S), NEW f \in [S -> Int]
    PROVE  \E sum : SumsUp(f, S, sum) /\ SumOf(f, S) = sum[S]
  <1>. DEFINE sum == CHOOSE g : Summing(f, S, g)
  <1>1. SumOf(f, S) = sum[S]
    BY DEF SumOf, MapThenSumSet, MapThenFoldSet, Summing, AnyOf
  <1>2. Summing(f, S, sum)
    BY SummingExists
  <1>. HIDE DEF sum
  <1>3. sum = [s \in SUBSET S |-> IF s = {} THEN 0
                                  ELSE f[AnyOf(s)] + sum[s \ {AnyOf(s)}]]
    BY <1>2 DEF Summing
  <1>4. \A s \in SUBSET S :
          sum[s] = IF s = {} THEN 0 ELSE f[AnyOf(s)] + sum[s \ {AnyOf(s)}]
    BY <1>3
  <1>5. sum \in [SUBSET S -> Int]
    <2>. DEFINE T == {n \in Nat : \A s \in SUBSET S : Cardinality(s) = n => sum[s] \in Int}
    <2>1. 0 \in T
      <3>1. \A s \in SUBSET S : Cardinality(s) = 0 => s = {}
        BY FS_Subset, FS_EmptySet
      <3>2. sum[{}] = 0
        BY <1>4
      <3>. QED  BY <3>1, <3>2
    <2>2. ASSUME NEW n \in Nat, n \in T PROVE n + 1 \in T
      <3>. SUFFICES ASSUME NEW s \in SUBSET S, Cardinality(s) = n + 1
                    PROVE  sum[s] \in Int
        OBVIOUS
      <3>1. s # {}
        BY FS_EmptySet
      <3>2. sum[s \ {AnyOf(s)}] \in Int
        BY <2>2, <3>1, OneLess
      <3>. QED  BY <1>4, <3>1, <3>2, OneLess
    <2>3. \A n \in Nat : n \in T
      <3>. HIDE DEF T
      <3>. QED  BY <2>1, <2>2, NaturalInduction
    <2>4. \A s \in SUBSET S : Cardinality(s) \in Nat
      BY FS_Subset, FS_CardinalityType
    <2>5. \A s \in SUBSET S : sum[s] \in Int
      BY <2>3, <2>4
    <2>. QED  BY <1>3, <2>5
  <1>6. SumsUp(f, S, sum)
    BY <1>4, <1>5 DEF SumsUp
  <1>. HIDE DEF sum
  <1>. QED  BY <1>1, <1>6

(* The larger the terms, the larger the sum.                               *)
LEMMA SumGrows ==
    ASSUME NEW S, IsFiniteSet(S), NEW f \in [S -> Int], NEW g \in [S -> Int],
           \A x \in S : f[x] <= g[x]
    PROVE  SumOf(f, S) \in Int /\ SumOf(g, S) \in Int /\ SumOf(f, S) <= SumOf(g, S)
  <1>1. PICK F : SumsUp(f, S, F) /\ SumOf(f, S) = F[S]
    BY SumTaken
  <1>2. PICK G : SumsUp(g, S, G) /\ SumOf(g, S) = G[S]
    BY SumTaken
  <1>. DEFINE T == {n \in Nat : \A s \in SUBSET S : Cardinality(s) = n => F[s] <= G[s]}
  <1>3. 0 \in T
    <2>1. \A s \in SUBSET S : Cardinality(s) = 0 => s = {}
      BY FS_Subset, FS_EmptySet
    <2>2. F[{}] <= G[{}]
      BY <1>1, <1>2 DEF SumsUp
    <2>. QED  BY <2>1, <2>2
  <1>4. ASSUME NEW n \in Nat, n \in T PROVE n + 1 \in T
    <2>. SUFFICES ASSUME NEW s \in SUBSET S, Cardinality(s) = n + 1
                  PROVE  F[s] <= G[s]
      OBVIOUS
    <2>1. s # {}
      BY FS_EmptySet
    <2>. DEFINE x == AnyOf(s)
    <2>2. x \in S /\ s \ {x} \in SUBSET S /\ Cardinality(s \ {x}) = n
      BY <2>1, OneLess
    <2>3. F[s] = f[x] + F[s \ {x}] /\ G[s] = g[x] + G[s \ {x}]
      BY <1>1, <1>2, <2>1 DEF SumsUp
    <2>. HIDE DEF x
    <2>4. F[s \ {x}] <= G[s \ {x}] /\ f[x] <= g[x]
      BY <1>4, <2>2
    <2>5. {f[x], g[x], F[s \ {x}], G[s \ {x}]} \subseteq Int
      BY <1>1, <1>2, <2>2 DEF SumsUp
    <2>. QED  BY <2>3, <2>4, <2>5
  <1>5. \A n \in Nat : n \in T
    <2>. HIDE DEF T
    <2>. QED  BY <1>3, <1>4, NaturalInduction
  <1>6. Cardinality(S) \in Nat
    BY FS_CardinalityType
  <1>. QED  BY <1>1, <1>2, <1>5, <1>6 DEF SumsUp

(* A sum of nothing but zeros.                                             *)
LEMMA SumOfZeros ==
    ASSUME NEW S, IsFiniteSet(S)
    PROVE  SumOf([x \in S |-> 0], S) = 0
  <1>. DEFINE f == [x \in S |-> 0]
  <1>1. PICK F : SumsUp(f, S, F) /\ SumOf(f, S) = F[S]
    BY SumTaken
  <1>. DEFINE T == {n \in Nat : \A s \in SUBSET S : Cardinality(s) = n => F[s] = 0}
  <1>2. 0 \in T
    <2>1. \A s \in SUBSET S : Cardinality(s) = 0 => s = {}
      BY FS_Subset, FS_EmptySet
    <2>. QED  BY <1>1, <2>1 DEF SumsUp
  <1>3. ASSUME NEW n \in Nat, n \in T PROVE n + 1 \in T
    <2>. SUFFICES ASSUME NEW s \in SUBSET S, Cardinality(s) = n + 1
                  PROVE  F[s] = 0
      OBVIOUS
    <2>1. s # {}
      BY FS_EmptySet
    <2>2. AnyOf(s) \in S /\ s \ {AnyOf(s)} \in SUBSET S
          /\ Cardinality(s \ {AnyOf(s)}) = n
      BY <2>1, OneLess
    <2>. QED  BY <1>1, <1>3, <2>1, <2>2 DEF SumsUp
  <1>4. \A n \in Nat : n \in T
    <2>. HIDE DEF T
    <2>. QED  BY <1>2, <1>3, NaturalInduction
  <1>5. Cardinality(S) \in Nat
    BY FS_CardinalityType
  <1>. QED  BY <1>1, <1>4, <1>5

(* What is taken next from a subset whose size is a successor.             *)
LEMMA NextTaken ==
    ASSUME NEW S, IsFiniteSet(S), NEW n \in Nat, NEW s \in SUBSET S, Cardinality(s) = n + 1
    PROVE  /\ s # {}
           /\ AnyOf(s) \in S
           /\ s \ {AnyOf(s)} \in SUBSET S
           /\ Cardinality(s \ {AnyOf(s)}) = n
  <1>1. s # {}
    BY FS_EmptySet
  <1>. QED  BY <1>1, OneLess

(* A sum looks at the terms of its set only.                               *)
LEMMA SumAgrees ==
    ASSUME NEW S, NEW f, NEW g, \A x \in S : f[x] = g[x]
    PROVE  SumOf(f, S) = SumOf(g, S)
  <1>1. ASSUME NEW s \in SUBSET S, s # {}  PROVE f[AnyOf(s)] = g[AnyOf(s)]
    BY <1>1 DEF AnyOf
  <1>2. ASSUME NEW sum
        PROVE  [s \in SUBSET S |-> IF s = {} THEN 0 ELSE f[AnyOf(s)] + sum[s \ {AnyOf(s)}]]
               = [s \in SUBSET S |-> IF s = {} THEN 0 ELSE g[AnyOf(s)] + sum[s \ {AnyOf(s)}]]
    BY <1>1
  <1>3. \A sum : Summing(f, S, sum) <=> Summing(g, S, sum)
    BY <1>2 DEF Summing
  <1>4. (CHOOSE h : Summing(f, S, h)) = (CHOOSE h : Summing(g, S, h))
    BY <1>3
  <1>. QED  BY <1>4 DEF SumOf, MapThenSumSet, MapThenFoldSet, Summing, AnyOf

(* On the subsets of a set too, the function gives their sums.             *)
LEMMA SumOnSubsets ==
    ASSUME NEW S, IsFiniteSet(S), NEW f, \A x \in S : f[x] \in Int
    PROVE  \E sum : SumsUp(f, S, sum) /\ \A s \in SUBSET S : SumOf(f, s) = sum[s]
  <1>1. ASSUME NEW s \in SUBSET S
        PROVE  \E sum : SumsUp(f, s, sum) /\ SumOf(f, s) = sum[s]
    <2>. DEFINE g == [x \in s |-> f[x]]
    <2>1. g \in [s -> Int] /\ \A x \in s : f[x] = g[x]
      OBVIOUS
    <2>2. IsFiniteSet(s)
      BY FS_Subset
    <2>. HIDE DEF g
    <2>3. SumOf(f, s) = SumOf(g, s)
      BY <2>1, SumAgrees
    <2>4. PICK sum : SumsUp(g, s, sum) /\ SumOf(g, s) = sum[s]
      BY <2>1, <2>2, SumTaken
    <2>5. SumsUp(f, s, sum)
      <3>1. \A r \in SUBSET s : r # {} => f[AnyOf(r)] = g[AnyOf(r)]
        BY <2>1 DEF AnyOf
      <3>. QED  BY <2>4, <3>1 DEF SumsUp
    <2>. QED  BY <2>3, <2>4, <2>5
  <1>2. PICK sum : SumsUp(f, S, sum)
    BY <1>1
  <1>3. ASSUME NEW s \in SUBSET S
        PROVE  SumOf(f, s) = sum[s]
    <2>1. PICK G : SumsUp(f, s, G) /\ SumOf(f, s) = G[s]
      BY <1>1
    <2>. DEFINE T == {n \in Nat : \A r \in SUBSET s : Cardinality(r) = n => G[r] = sum[r]}
    <2>2. IsFiniteSet(s) /\ SUBSET s \subseteq SUBSET S
      BY FS_Subset
    <2>3. 0 \in T
      <3>1. \A r \in SUBSET s : Cardinality(r) = 0 => r = {}
        BY <2>2, FS_Subset, FS_EmptySet
      <3>. QED  BY <1>2, <2>1, <3>1 DEF SumsUp
    <2>4. ASSUME NEW n \in Nat, n \in T PROVE n + 1 \in T
      <3>. SUFFICES ASSUME NEW r \in SUBSET s, Cardinality(r) = n + 1
                    PROVE  G[r] = sum[r]
        OBVIOUS
      <3>1. r # {} /\ r \ {AnyOf(r)} \in SUBSET s /\ Cardinality(r \ {AnyOf(r)}) = n
        BY <2>2, NextTaken
      <3>. QED  BY <1>2, <2>1, <2>2, <2>4, <3>1 DEF SumsUp
    <2>5. \A n \in Nat : n \in T
      <3>. HIDE DEF T
      <3>. QED  BY <2>3, <2>4, NaturalInduction
    <2>6. Cardinality(s) \in Nat
      BY <2>2, FS_CardinalityType
    <2>. QED  BY <2>1, <2>5, <2>6
  <1>. QED  BY <1>2, <1>3

(* A sum is a number, and any of its terms may be taken first.             *)
LEMMA SumRemove ==
    ASSUME NEW S, IsFiniteSet(S), NEW f, \A x \in S : f[x] \in Int
    PROVE  /\ SumOf(f, {}) = 0
           /\ \A s \in SUBSET S : SumOf(f, s) \in Int
           /\ \A s \in SUBSET S : \A z \in s : SumOf(f, s) = f[z] + SumOf(f, s \ {z})
  <1>1. PICK F : SumsUp(f, S, F) /\ \A s \in SUBSET S : SumOf(f, s) = F[s]
    BY SumOnSubsets
  <1>. DEFINE T == {n \in Nat : \A s \in SUBSET S : Cardinality(s) = n =>
                                  \A z \in s : F[s] = f[z] + F[s \ {z}]}
  <1>2. 0 \in T
    BY FS_Subset, FS_EmptySet
  <1>3. ASSUME NEW n \in Nat, n \in T PROVE n + 1 \in T
    <2>. SUFFICES ASSUME NEW s \in SUBSET S, Cardinality(s) = n + 1, NEW z \in s
                  PROVE  F[s] = f[z] + F[s \ {z}]
      OBVIOUS
    <2>. DEFINE a == AnyOf(s)
    <2>1. s # {} /\ a \in S /\ a \in s /\ Cardinality(s \ {a}) = n
      BY NextTaken, OneLess
    <2>2. F[s] = f[a] + F[s \ {a}]
      BY <1>1, <2>1 DEF SumsUp
    <2>. HIDE DEF a
    <2>3. CASE a = z
      BY <2>2, <2>3
    <2>4. CASE a # z
      <3>1. IsFiniteSet(s) /\ Cardinality(s \ {z}) = n
        <4>1. IsFiniteSet(s)
          BY FS_Subset
        <4>2. Cardinality(s \ {z}) = Cardinality(s) - 1
          BY <4>1, FS_RemoveElement
        <4>. QED  BY <4>1, <4>2
      <3>2. F[s \ {a}] = f[z] + F[(s \ {a}) \ {z}]
        BY <1>3, <2>1, <2>4
      <3>3. F[s \ {z}] = f[a] + F[(s \ {z}) \ {a}]
        BY <1>3, <2>1, <2>4, <3>1
      <3>4. (s \ {a}) \ {z} = (s \ {z}) \ {a}
        OBVIOUS
      <3>5. f[a] \in Int /\ f[z] \in Int /\ F[(s \ {a}) \ {z}] \in Int
        <4>1. (s \ {a}) \ {z} \in SUBSET S /\ z \in S
          OBVIOUS
        <4>2. F \in [SUBSET S -> Int]
          BY <1>1 DEF SumsUp
        <4>3. f[a] \in Int /\ f[z] \in Int
          BY <2>1, <4>1
        <4>4. F[(s \ {a}) \ {z}] \in Int
          BY <4>1, <4>2
        <4>. QED  BY <4>3, <4>4
      <3>6. F[s \ {z}] = f[a] + F[(s \ {a}) \ {z}]
        BY <3>3, <3>4
      <3>7. F[s] = f[a] + (f[z] + F[(s \ {a}) \ {z}])
        BY <2>2, <3>2
      <3>. QED  BY <3>5, <3>6, <3>7
    <2>. QED  BY <2>3, <2>4
  <1>4. \A n \in Nat : n \in T
    <2>. HIDE DEF T
    <2>. QED  BY <1>2, <1>3, NaturalInduction
  <1>5. \A s \in SUBSET S : Cardinality(s) \in Nat
    BY FS_Subset, FS_CardinalityType
  <1>6. \A s \in SUBSET S : \A z \in s : F[s] = f[z] + F[s \ {z}]
    BY <1>4, <1>5
  <1>7. \A s \in SUBSET S : F[s] \in Int
    BY <1>1 DEF SumsUp
  <1>8. F[{}] = 0
    BY <1>1 DEF SumsUp
  <1>9. {} \in SUBSET S /\ \A s \in SUBSET S : \A z \in s : s \ {z} \in SUBSET S
    OBVIOUS
  <1>. HIDE DEF T
  <1>. QED  BY <1>1, <1>6, <1>7, <1>8, <1>9

(* A sum of terms that are not negative.                                   *)
LEMMA SumNatural ==
    ASSUME NEW S, IsFiniteSet(S), NEW f, \A x \in S : f[x] \in Nat
    PROVE  SumOf(f, S) \in Nat
  <1>. DEFINE g == [x \in S |-> f[x]]
              zeros == [x \in S |-> 0]
  <1>1. g \in [S -> Int] /\ zeros \in [S -> Int] /\ \A x \in S : zeros[x] <= g[x] /\ f[x] = g[x]
    OBVIOUS
  <1>2. SumOf(zeros, S) = 0
    BY SumOfZeros
  <1>. HIDE DEF g, zeros
  <1>3. SumOf(f, S) = SumOf(g, S)
    BY <1>1, SumAgrees
  <1>4. SumOf(g, S) \in Int /\ SumOf(zeros, S) <= SumOf(g, S)
    BY <1>1, SumGrows
  <1>. QED  BY <1>2, <1>3, <1>4

(* A sum whose terms are those of two others together.                     *)
LEMMA SumAdds ==
    ASSUME NEW S, IsFiniteSet(S), NEW a, NEW f, NEW g,
           \A x \in S : a[x] \in Int /\ f[x] \in Int /\ g[x] = a[x] + f[x]
    PROVE  SumOf(g, S) = SumOf(a, S) + SumOf(f, S)
  <1>0. \A x \in S : a[x] \in Int /\ f[x] \in Int /\ g[x] \in Int
    OBVIOUS
  <1>1. PICK A : SumsUp(a, S, A) /\ \A s \in SUBSET S : SumOf(a, s) = A[s]
    BY <1>0, SumOnSubsets
  <1>2. PICK F : SumsUp(f, S, F) /\ \A s \in SUBSET S : SumOf(f, s) = F[s]
    BY <1>0, SumOnSubsets
  <1>3. PICK G : SumsUp(g, S, G) /\ \A s \in SUBSET S : SumOf(g, s) = G[s]
    BY <1>0, SumOnSubsets
  <1>. DEFINE T == {n \in Nat : \A s \in SUBSET S :
                                  Cardinality(s) = n => G[s] = A[s] + F[s]}
  <1>4. 0 \in T
    <2>1. \A s \in SUBSET S : Cardinality(s) = 0 => s = {}
      BY FS_Subset, FS_EmptySet
    <2>2. G[{}] = A[{}] + F[{}]
      BY <1>1, <1>2, <1>3 DEF SumsUp
    <2>. QED  BY <2>1, <2>2
  <1>5. ASSUME NEW n \in Nat, n \in T PROVE n + 1 \in T
    <2>. SUFFICES ASSUME NEW s \in SUBSET S, Cardinality(s) = n + 1
                  PROVE  G[s] = A[s] + F[s]
      OBVIOUS
    <2>. DEFINE x == AnyOf(s)
                r == s \ {x}
    <2>1. s # {} /\ x \in S /\ r \in SUBSET S /\ Cardinality(r) = n
      BY NextTaken
    <2>2. A[s] = a[x] + A[r] /\ F[s] = f[x] + F[r] /\ G[s] = g[x] + G[r]
      BY <1>1, <1>2, <1>3, <2>1 DEF SumsUp
    <2>. HIDE DEF x, r
    <2>3. G[r] = A[r] + F[r] /\ g[x] = a[x] + f[x]
      BY <1>5, <2>1
    <2>4. {a[x], f[x], A[r], F[r]} \subseteq Int
      BY <1>0, <1>1, <1>2, <2>1 DEF SumsUp
    <2>. QED  BY <2>2, <2>3, <2>4
  <1>6. \A n \in Nat : n \in T
    <2>. HIDE DEF T
    <2>. QED  BY <1>4, <1>5, NaturalInduction
  <1>7. Cardinality(S) \in Nat
    BY FS_CardinalityType
  <1>8. G[S] = A[S] + F[S]
    BY <1>6, <1>7
  <1>. HIDE DEF T
  <1>. QED  BY <1>1, <1>2, <1>3, <1>8

(* A sum whose terms differ from those of another at one place only.       *)
LEMMA SumMoves ==
    ASSUME NEW S, IsFiniteSet(S), NEW f, NEW g, NEW z \in S, NEW d \in Int,
           \A x \in S : f[x] \in Int,
           g[z] = f[z] + d, \A x \in S : x # z => g[x] = f[x]
    PROVE  SumOf(g, S) = SumOf(f, S) + d
  <1>1. \A x \in S : g[x] \in Int
    OBVIOUS
  <1>2. SumOf(f, S) = f[z] + SumOf(f, S \ {z}) /\ SumOf(f, S \ {z}) \in Int
    BY SumRemove
  <1>3. SumOf(g, S) = g[z] + SumOf(g, S \ {z})
    BY <1>1, SumRemove
  <1>4. SumOf(g, S \ {z}) = SumOf(f, S \ {z})
    BY SumAgrees
  <1>5. f[z] \in Int
    OBVIOUS
  <1>. QED  BY <1>2, <1>3, <1>4, <1>5

(* A sum taken group by group.                                             *)
LEMMA SumByGroups ==
    ASSUME NEW S, IsFiniteSet(S), NEW G, IsFiniteSet(G), NEW f, NEW k,
           \A x \in S : f[x] \in Int /\ k[x] \in G
    PROVE  SumOf([c \in G |-> SumOf(f, {x \in S : k[x] = c})], G) = SumOf(f, S)
  <1>. DEFINE Group(s, c) == {x \in s : k[x] = c}
              H(s) == [c \in G |-> SumOf(f, Group(s, c))]
              T == {n \in Nat : \A s \in SUBSET S :
                                  Cardinality(s) = n => SumOf(H(s), G) = SumOf(f, s)}
  <1>1. \A x \in S : f[x] \in Int
    OBVIOUS
  <1>2. 0 \in T
    <2>1. \A s \in SUBSET S : Cardinality(s) = 0 => s = {}
      BY FS_Subset, FS_EmptySet
    <2>2. SumOf(f, {}) = 0
      BY <1>1, SumRemove
    <2>. DEFINE zeros == [c \in G |-> 0]
    <2>3. \A c \in G : H({})[c] = zeros[c]
      BY <2>2
    <2>4. SumOf(zeros, G) = 0
      BY SumOfZeros
    <2>. HIDE DEF zeros, H
    <2>5. SumOf(H({}), G) = SumOf(zeros, G)
      BY <2>3, SumAgrees
    <2>. QED  BY <2>1, <2>2, <2>4, <2>5
  <1>3. ASSUME NEW n \in Nat, n \in T PROVE n + 1 \in T
    <2>. SUFFICES ASSUME NEW s \in SUBSET S, Cardinality(s) = n + 1
                  PROVE  SumOf(H(s), G) = SumOf(f, s)
      OBVIOUS
    <2>. DEFINE a == AnyOf(s)
                r == s \ {a}
    <2>1. s # {} /\ a \in S /\ a \in s /\ r \in SUBSET S /\ Cardinality(r) = n
      BY NextTaken, OneLess
    <2>. HIDE DEF a
    <2>2. \A c \in G : H(r)[c] \in Int
      <3>1. \A c \in G : Group(r, c) \in SUBSET S
        OBVIOUS
      <3>. HIDE DEF Group
      <3>. QED  BY <1>1, <3>1, SumRemove
    <2>3. H(s)[k[a]] = H(r)[k[a]] + f[a]
      <3>1. Group(s, k[a]) \in SUBSET S /\ a \in Group(s, k[a]) /\ k[a] \in G
        BY <2>1
      <3>2. Group(s, k[a]) \ {a} = Group(r, k[a])
        OBVIOUS
      <3>. HIDE DEF Group
      <3>3. SumOf(f, Group(s, k[a])) = f[a] + SumOf(f, Group(s, k[a]) \ {a})
        BY <1>1, <3>1, SumRemove
      <3>4. SumOf(f, Group(s, k[a])) = f[a] + SumOf(f, Group(r, k[a]))
        BY <3>2, <3>3
      <3>5. H(s)[k[a]] = f[a] + H(r)[k[a]]
        BY <3>1, <3>4
      <3>6. f[a] \in Int /\ H(r)[k[a]] \in Int
        BY <1>1, <2>1, <2>2, <3>1
      <3>. HIDE DEF H
      <3>. QED  BY <3>5, <3>6
    <2>4. \A c \in G : c # k[a] => H(s)[c] = H(r)[c]
      <3>1. \A c \in G : c # k[a] => Group(s, c) = Group(r, c)
        OBVIOUS
      <3>. HIDE DEF Group
      <3>. QED  BY <3>1
    <2>. HIDE DEF H, T
    <2>5. k[a] \in G /\ f[a] \in Int
      BY <2>1
    <2>6. SumOf(H(s), G) = SumOf(H(r), G) + f[a]
      BY <2>2, <2>3, <2>4, <2>5, SumMoves
    <2>7. SumOf(H(r), G) = SumOf(f, r)
      BY <1>3, <2>1 DEF T
    <2>8. SumOf(f, s) = f[a] + SumOf(f, r) /\ SumOf(f, r) \in Int
      BY <1>1, <2>1, SumRemove
    <2>. HIDE DEF r
    <2>. QED  BY <2>5, <2>6, <2>7, <2>8
  <1>4. \A n \in Nat : n \in T
    <2>. HIDE DEF T
    <2>. QED  BY <1>2, <1>3, NaturalInduction
  <1>5. Cardinality(S) \in Nat
    BY FS_CardinalityType
  <1>6. SumOf(H(S), G) = SumOf(f, S)
    <2>. HIDE DEF H
    <2>. QED  BY <1>4, <1>5
  <1>. QED  BY <1>6

(* A sum over a set and what is left of another.                           *)
LEMMA SumSplits ==
    ASSUME NEW S, IsFiniteSet(S), NEW R \in SUBSET S, NEW f, \A x \in S : f[x] \in Int
    PROVE  SumOf(f, S) = SumOf(f, R) + SumOf(f, S \ R)
  <1>. DEFINE T == {n \in Nat : \A s \in SUBSET S : Cardinality(s) = n =>
                      SumOf(f, s) = SumOf(f, s \cap R) + SumOf(f, s \ R)}
  <1>1. 0 \in T
    <2>1. \A s \in SUBSET S : Cardinality(s) = 0 => s = {}
      BY FS_Subset, FS_EmptySet
    <2>2. SumOf(f, {}) = 0
      BY SumRemove
    <2>3. {} \cap R = {} /\ {} \ R = {}
      OBVIOUS
    <2>4. SumOf(f, {} \cap R) = 0 /\ SumOf(f, {} \ R) = 0
      BY <2>2, <2>3
    <2>5. SumOf(f, {}) = SumOf(f, {} \cap R) + SumOf(f, {} \ R)
      BY <2>2, <2>4
    <2>. QED  BY <2>1, <2>5
  <1>2. ASSUME NEW n \in Nat, n \in T PROVE n + 1 \in T
    <2>. SUFFICES ASSUME NEW s \in SUBSET S, Cardinality(s) = n + 1
                  PROVE  SumOf(f, s) = SumOf(f, s \cap R) + SumOf(f, s \ R)
      OBVIOUS
    <2>. DEFINE a == AnyOf(s)
                r == s \ {a}
    <2>1. s # {} /\ a \in S /\ a \in s /\ r \in SUBSET S /\ Cardinality(r) = n
      BY NextTaken, OneLess
    <2>. HIDE DEF a
    <2>2. SumOf(f, r) = SumOf(f, r \cap R) + SumOf(f, r \ R)
      BY <1>2, <2>1
    <2>3. SumOf(f, s) = f[a] + SumOf(f, r)
      BY <2>1, SumRemove
    <2>4. /\ f[a] \in Int
          /\ SumOf(f, r \cap R) \in Int
          /\ SumOf(f, r \ R) \in Int
      <3>1. r \cap R \in SUBSET S /\ r \ R \in SUBSET S
        OBVIOUS
      <3>. QED  BY <2>1, <3>1, SumRemove
    <2>5. CASE a \in R
      <3>1. s \cap R \in SUBSET S /\ a \in s \cap R
            /\ (s \cap R) \ {a} = r \cap R /\ s \ R = r \ R
        BY <2>1, <2>5
      <3>2. SumOf(f, s \cap R) = f[a] + SumOf(f, r \cap R)
        BY <3>1, SumRemove
      <3>3. SumOf(f, s \ R) = SumOf(f, r \ R)
        BY <3>1
      <3>. QED  BY <2>2, <2>3, <2>4, <3>2, <3>3
    <2>6. CASE a \notin R
      <3>1. s \ R \in SUBSET S /\ a \in s \ R
            /\ (s \ R) \ {a} = r \ R /\ s \cap R = r \cap R
        BY <2>1, <2>6
      <3>2. SumOf(f, s \ R) = f[a] + SumOf(f, r \ R)
        BY <3>1, SumRemove
      <3>3. SumOf(f, s \cap R) = SumOf(f, r \cap R)
        BY <3>1
      <3>. QED  BY <2>2, <2>3, <2>4, <3>2, <3>3
    <2>. QED  BY <2>5, <2>6
  <1>3. \A n \in Nat : n \in T
    <2>. HIDE DEF T
    <2>. QED  BY <1>1, <1>2, NaturalInduction
  <1>4. Cardinality(S) \in Nat /\ S \cap R = R
    BY FS_CardinalityType
  <1>. QED  BY <1>3, <1>4

(* Terms that are zero may be left out.                                    *)
LEMMA SumWithoutZeros ==
    ASSUME NEW S, IsFiniteSet(S), NEW R \in SUBSET S, NEW f, \A x \in S : f[x] \in Int,
           \A x \in S \ R : f[x] = 0
    PROVE  SumOf(f, S) = SumOf(f, R)
  <1>. DEFINE zeros == [x \in S \ R |-> 0]
  <1>1. \A x \in S \ R : f[x] = zeros[x]
    OBVIOUS
  <1>2. IsFiniteSet(S \ R)
    BY FS_Subset
  <1>3. SumOf(zeros, S \ R) = 0
    BY <1>2, SumOfZeros
  <1>. HIDE DEF zeros
  <1>4. SumOf(f, S \ R) = 0
    BY <1>1, <1>3, SumAgrees
  <1>5. SumOf(f, R) \in Int
    BY SumRemove
  <1>. QED  BY <1>4, <1>5, SumSplits

(* A sum whose terms are at most those of two others together.             *)
LEMMA SumOfTwo ==
    ASSUME NEW S, IsFiniteSet(S), NEW a \in [S -> Int], NEW f \in [S -> Int],
           NEW g \in [S -> Int], \A x \in S : g[x] <= a[x] + f[x]
    PROVE  SumOf(g, S) <= SumOf(a, S) + SumOf(f, S)
  <1>. DEFINE h == [x \in S |-> a[x] + f[x]]
  <1>1. h \in [S -> Int] /\ \A x \in S : g[x] <= h[x]
    OBVIOUS
  <1>2. \A x \in S : a[x] \in Int /\ f[x] \in Int /\ h[x] = a[x] + f[x]
    OBVIOUS
  <1>. HIDE DEF h
  <1>3. SumOf(h, S) = SumOf(a, S) + SumOf(f, S)
    BY <1>2, SumAdds
  <1>4. SumOf(g, S) <= SumOf(h, S)
    BY <1>1, SumGrows
  <1>. QED  BY <1>3, <1>4

(* A sum whose terms exceed those of another by d at one place, and        *)
(* nowhere else, exceeds it by d at most.                                  *)
LEMMA SumStep ==
    ASSUME NEW S, IsFiniteSet(S), NEW f \in [S -> Int], NEW g \in [S -> Int],
           NEW z \in S, NEW d \in Int,
           g[z] <= f[z] + d, \A x \in S : x # z => g[x] <= f[x]
    PROVE  SumOf(g, S) <= SumOf(f, S) + d
  <1>. DEFINE rest == S \ {z}
              a == [x \in rest |-> f[x]]
              b == [x \in rest |-> g[x]]
  <1>1. \A x \in S : f[x] \in Int /\ g[x] \in Int
    OBVIOUS
  <1>2. SumOf(f, S) = f[z] + SumOf(f, rest) /\ SumOf(g, S) = g[z] + SumOf(g, rest)
    BY <1>1, SumRemove
  <1>3. SumOf(f, rest) = SumOf(a, rest) /\ SumOf(g, rest) = SumOf(b, rest)
    <2>1. (\A x \in rest : f[x] = a[x]) /\ \A x \in rest : g[x] = b[x]
      OBVIOUS
    <2>. HIDE DEF a, b
    <2>. QED  BY <2>1, SumAgrees
  <1>4. /\ SumOf(a, rest) \in Int /\ SumOf(b, rest) \in Int
        /\ SumOf(b, rest) <= SumOf(a, rest)
    <2>1. /\ IsFiniteSet(rest) /\ a \in [rest -> Int] /\ b \in [rest -> Int]
          /\ \A x \in rest : b[x] <= a[x]
      BY FS_Subset
    <2>. HIDE DEF rest, a, b
    <2>. QED  BY <2>1, SumGrows
  <1>. HIDE DEF rest, a, b
  <1>5. f[z] \in Int /\ g[z] \in Int
    BY <1>1
  <1>. QED  BY <1>2, <1>3, <1>4, <1>5
===============================================================================
