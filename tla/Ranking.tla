------------------------------ MODULE Ranking ------------------------------
(***************************************************************************)
(* Ranks in a finite set with a strict total order, on which the proofs    *)
(* about sorted and about filtered sequences rest: the number of elements  *)
(* up to one is a bijection to 1 .. the number of elements, so that every  *)
(* number names an element.  No induction is needed for it.                *)
(***************************************************************************)
EXTENDS Integers, FiniteSetTheorems, TLAPS

\* The order is a set of pairs, smaller elements first.
IsStrictOrder(R, S) ==
    /\ \A i \in S : <<i, i>> \notin R
    /\ \A i, j, k \in S : <<i, j>> \in R /\ <<j, k>> \in R => <<i, k>> \in R
    /\ \A i, j \in S : i = j \/ <<i, j>> \in R \/ <<j, i>> \in R

UpTo(R, S, i) == {j \in S : j = i \/ <<j, i>> \in R}

Rank(R, S) == [i \in S |-> Cardinality(UpTo(R, S, i))]

LEMMA UpToFinite ==
    ASSUME NEW S, IsFiniteSet(S), NEW R, NEW i \in S
    PROVE  /\ IsFiniteSet(UpTo(R, S, i))
           /\ Cardinality(UpTo(R, S, i)) \in 1 .. Cardinality(S)
<1> DEFINE D == UpTo(R, S, i)
<1>1. D \in SUBSET S /\ i \in D
  BY DEF UpTo
<1> HIDE DEF D
<1>2. IsFiniteSet(D) /\ Cardinality(D) <= Cardinality(S)
  BY <1>1, FS_Subset
<1>3. Cardinality(D) \in Nat /\ Cardinality(S) \in Nat
  BY <1>2, FS_CardinalityType
<1>4. Cardinality(D) # 0
  BY <1>1, <1>2, FS_EmptySet
<1> QED  BY <1>2, <1>3, <1>4 DEF D

\* A smaller element has a smaller rank.
LEMMA SmallerRank ==
    ASSUME NEW S, IsFiniteSet(S), NEW R, IsStrictOrder(R, S),
           NEW i \in S, NEW k \in S, <<i, k>> \in R
    PROVE  Rank(R, S)[i] < Rank(R, S)[k]
<1> DEFINE D == UpTo(R, S, i)
           E == UpTo(R, S, k)
<1>1. D \subseteq E /\ k \in E /\ k \notin D
  BY DEF UpTo, IsStrictOrder
<1>2. /\ IsFiniteSet(E) /\ Cardinality(D) \in Nat /\ Cardinality(E) \in Nat
      /\ Rank(R, S)[i] = Cardinality(D) /\ Rank(R, S)[k] = Cardinality(E)
  BY UpToFinite DEF Rank
<1> HIDE DEF D, E
<1>3. Cardinality(D) <= Cardinality(E) /\ Cardinality(D) # Cardinality(E)
  BY <1>1, <1>2, FS_Subset
<1> QED  BY <1>2, <1>3

\* The ranks are a bijection that keeps the order.
THEOREM RankBijection ==
    ASSUME NEW S, IsFiniteSet(S), NEW R, IsStrictOrder(R, S)
    PROVE  /\ Rank(R, S) \in Bijection(S, 1 .. Cardinality(S))
           /\ \A i, k \in S : Rank(R, S)[i] < Rank(R, S)[k] <=> <<i, k>> \in R
<1> DEFINE f == Rank(R, S)
           n == Cardinality(S)
<1>1. f \in [S -> 1 .. n]
  BY UpToFinite DEF Rank
<1>2. n \in Nat /\ IsFiniteSet(1 .. n) /\ Cardinality(1 .. n) = n
  <2>1. n \in Nat
    BY FS_CardinalityType
  <2> HIDE DEF n
  <2>2. IsFiniteSet(1 .. n) /\ Cardinality(1 .. n) = IF 1 > n THEN 0 ELSE n - 1 + 1
    BY <2>1, FS_Interval
  <2> QED  BY <2>1, <2>2
<1>3. \A i, k \in S : <<i, k>> \in R => f[i] < f[k]
  BY SmallerRank
<1>4. \A i, k \in S : f[i] \in Nat /\ f[k] \in Nat
  BY <1>1
<1> HIDE DEF f
<1>5. \A i, k \in S : f[i] < f[k] => <<i, k>> \in R
  <2> SUFFICES ASSUME NEW i \in S, NEW k \in S, f[i] < f[k], <<i, k>> \notin R
               PROVE  FALSE
    OBVIOUS
  <2>1. i = k \/ <<k, i>> \in R
    BY DEF IsStrictOrder
  <2>2. f[k] <= f[i] /\ f[i] \in Nat /\ f[k] \in Nat
    BY <1>3, <1>4, <2>1
  <2> QED  BY <2>2
<1>6. f \in Injection(S, 1 .. n)
  <2>1. \A i, k \in S : f[i] = f[k] => i = k
    <3> SUFFICES ASSUME NEW i \in S, NEW k \in S, f[i] = f[k], i # k PROVE FALSE
      OBVIOUS
    <3>1. <<i, k>> \in R \/ <<k, i>> \in R
      BY DEF IsStrictOrder
    <3>2. (f[i] < f[k] \/ f[k] < f[i]) /\ f[i] \in Nat /\ f[k] \in Nat
      BY <1>3, <1>4, <3>1
    <3> QED  BY <3>2
  <2> HIDE DEF n
  <2> QED  BY <1>1, <2>1 DEF Injection, IsInjective
<1>7. f \in Surjection(S, 1 .. n)
  <2>1. n = Cardinality(S)
    OBVIOUS
  <2> HIDE DEF n
  <2> QED  BY <1>2, <1>6, <2>1, FS_Injection
<1>8. f \in Bijection(S, 1 .. n)
  BY <1>6, <1>7 DEF Bijection
<1> QED  BY <1>3, <1>5, <1>8 DEF f

\* Every rank is taken.
COROLLARY RankReached ==
    ASSUME NEW S, IsFiniteSet(S), NEW R, IsStrictOrder(R, S),
           NEW m \in 1 .. Cardinality(S)
    PROVE  \E i \in S : Rank(R, S)[i] = m
<1>1. Rank(R, S) \in Surjection(S, 1 .. Cardinality(S))
  BY RankBijection DEF Bijection
<1> QED  BY <1>1 DEF Surjection

=============================================================================
