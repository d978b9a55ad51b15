------------------------------ MODULE SetFacts ------------------------------
(***************************************************************************)
(* Facts about the least and the greatest element of a set of numbers,     *)
(* which FiniteSetsExt defines with CHOOSE, and about lists.               *)
(***************************************************************************)
EXTENDS Lists, FiniteSetsExt, FiniteSetTheorems, WellFoundedInduction, TLAPS

\* A nonempty set of numbers has a minimum.
LEMMA MinOf ==
  ASSUME NEW S \in SUBSET Nat, S # {}
  PROVE  Min(S) \in S /\ \A y \in S : Min(S) <= y
  <1> DEFINE R == {ss \in Nat \X Nat : ss[1] < ss[2]}
  <1>1. IsWellFoundedOn(R, Nat)
    BY NatLessThanWellFounded DEF OpToRel
  <1>2. \E x \in S : \A y \in S : <<y, x>> \notin R
    <2> HIDE DEF R
    <2> QED BY <1>1, WFMin
  <1>3. \E x \in S : \A y \in S : x <= y
    <2>1. PICK x \in S : \A y \in S : <<y, x>> \notin R
      BY <1>2
    <2>2. \A y \in S : x <= y
      <3> TAKE y \in S
      <3>1. <<y, x>> \in Nat \X Nat /\ ~ (y < x)
        BY <2>1
      <3> QED BY <3>1
    <2> QED BY <2>2
  <1> QED
    BY <1>3 DEF Min

\* A nonempty set of numbers with a bound has a maximum.
LEMMA MaxOf ==
  ASSUME NEW n \in Nat, NEW S \in SUBSET (0..n), S # {}
  PROVE  Max(S) \in S /\ \A y \in S : y <= Max(S)
  <1> DEFINE R == {n - x : x \in S}
  <1>0. \A x \in S : x \in Nat /\ n - x \in Nat
    OBVIOUS
  <1>1. R \in SUBSET Nat /\ R # {}
    BY <1>0
  <1>2. Min(R) \in R /\ \A y \in R : Min(R) <= y
    <2> HIDE DEF R
    <2> QED BY <1>1, MinOf
  <1>3. PICK x \in S : Min(R) = n - x
    BY <1>2
  <1>4. \A y \in S : y <= x
    <2> TAKE y \in S
    <2>1. n - y \in R
      OBVIOUS
    <2>2. Min(R) <= n - y
      BY <1>2, <2>1
    <2>3. x \in Nat /\ y \in Nat /\ n \in Nat
      BY <1>0
    <2>4. n - x <= n - y
      BY <1>3, <2>2
    <2> HIDE DEF R
    <2> QED BY <2>3, <2>4
  <1> QED
    BY <1>4 DEF Max

\* Numbering the elements of a finite set of numbers: each has a number, and each
\* number up to their count is that of one element.
LEMMA NthOf ==
  ASSUME NEW n \in Nat, NEW I \in SUBSET (1..n)
  PROVE  /\ Cardinality(I) \in 0..n
         /\ \A j \in 1..Cardinality(I) :
              Nth(I, j) \in I /\ Cardinality({k \in I : k <= Nth(I, j)}) = j
         /\ \A i \in I : \E j \in 1..Cardinality(I) : Nth(I, j) = i
  <1> DEFINE Upto(i) == {k \in I : k <= i}
             c == Cardinality(I)
             f == [i \in I |-> Cardinality(Upto(i))]
  <1>1. IsFiniteSet(1..n) /\ Cardinality(1..n) = n
    BY FS_Interval
  <1>2. IsFiniteSet(I) /\ c \in Nat /\ c <= n
    BY <1>1, FS_Subset, FS_CardinalityType
  <1>3. ASSUME NEW i \in I
        PROVE  /\ IsFiniteSet(Upto(i)) /\ Cardinality(Upto(i)) \in 1..c
    <2>1. Upto(i) \in SUBSET I /\ i \in Upto(i)
      OBVIOUS
    <2>2. IsFiniteSet(Upto(i)) /\ Cardinality(Upto(i)) <= c /\ Cardinality(Upto(i)) \in Nat
      BY <1>2, <2>1, FS_Subset, FS_CardinalityType
    <2>3. Cardinality(Upto(i)) # 0
      BY <2>1, <2>2, FS_EmptySet
    <2> QED BY <1>2, <2>2, <2>3
  <1>4. ASSUME NEW i \in I, NEW k \in I, i < k
        PROVE  Cardinality(Upto(i)) # Cardinality(Upto(k))
    <2>0. \A x \in 1..n : x <= i => x <= k
      BY <1>4
    <2>1. Upto(i) \in SUBSET Upto(k)
      BY <2>0
    <2>2. k \in Upto(k) /\ k \notin Upto(i)
      BY <1>4
    <2>3. Upto(k) # Upto(i)
      BY <2>2
    <2> HIDE DEF Upto
    <2> QED BY <1>3, <2>1, <2>3, FS_Subset
  <1>5. ASSUME NEW i \in I, NEW k \in I, Cardinality(Upto(i)) = Cardinality(Upto(k))
        PROVE  i = k
    <2>1. i \in Int /\ k \in Int
      OBVIOUS
    <2> HIDE DEF Upto
    <2> QED BY <1>4, <1>5, <2>1
  <1>6. f \in Injection(I, 1..c)
    <2> HIDE DEF Upto
    <2> QED BY <1>3, <1>5 DEF Injection, IsInjective
  <1>7. IsFiniteSet(1..c) /\ Cardinality(1..c) = c
    <2>1. c \in Int /\ 1 \in Int
      BY <1>2
    <2>2. Cardinality(1..c) = IF 1 > c THEN 0 ELSE c - 1 + 1
      BY <2>1, FS_Interval
    <2> QED BY <1>2, <2>1, <2>2, FS_Interval
  <1>8. f \in Surjection(I, 1..c)
    <2> HIDE DEF f
    <2> QED BY <1>6, <1>7, FS_Injection
  <1>9. ASSUME NEW j \in 1..c
        PROVE  Nth(I, j) \in I /\ Cardinality(Upto(Nth(I, j))) = j
    <2>1. \E i \in I : Cardinality(Upto(i)) = j
      <3> HIDE DEF Upto
      <3> QED BY <1>8 DEF Surjection
    <2> QED BY <2>1 DEF Nth
  <1>10. ASSUME NEW i \in I
         PROVE  \E j \in 1..c : Nth(I, j) = i
    <2> DEFINE j == Cardinality(Upto(i))
    <2>1. j \in 1..c
      BY <1>3
    <2>2. Nth(I, j) \in I /\ Cardinality(Upto(Nth(I, j))) = j
      BY <1>9, <2>1
    <2>3. Nth(I, j) = i
      <3> HIDE DEF Upto
      <3> QED BY <1>5, <2>2
    <2> QED BY <2>1, <2>3
  <1> QED BY <1>2, <1>9, <1>10

\* What is left of a list are the entries that were not erased, each once.
LEMMA EraseAtFacts ==
  ASSUME NEW S, NEW q \in Seq(S), NEW I
  PROVE  LET n == EraseAt(q, I) IN
         /\ n \in Seq(S) /\ Len(n) <= Len(q) /\ DOMAIN n = 1..Len(n)
         /\ \E f \in [DOMAIN n -> DOMAIN q \ I] :
              /\ \A j \in DOMAIN n : n[j] = q[f[j]]
              /\ \A j, k \in DOMAIN n : f[j] = f[k] => j = k
              /\ \A i \in DOMAIN q \ I : \E j \in DOMAIN n : f[j] = i
  <1> DEFINE kept == DOMAIN q \ I
             c == Cardinality(kept)
             n == EraseAt(q, I)
             f == [j \in 1..c |-> Nth(kept, j)]
  <1>1. Len(q) \in Nat /\ DOMAIN q = 1..Len(q) /\ \A i \in DOMAIN q : q[i] \in S
    OBVIOUS
  <1>2. kept \in SUBSET (1..Len(q))
    BY <1>1
  <1>3. /\ c \in 0..Len(q)
        /\ \A j \in 1..c : Nth(kept, j) \in kept /\ Cardinality({k \in kept : k <= Nth(kept, j)}) = j
        /\ \A i \in kept : \E j \in 1..c : Nth(kept, j) = i
    <2> HIDE DEF kept
    <2> QED BY <1>1, <1>2, NthOf
  <1>4. n = [j \in 1..c |-> q[Nth(kept, j)]]
    BY DEF EraseAt
  <1>5. \A j \in 1..c : q[Nth(kept, j)] \in S
    BY <1>1, <1>3
  <1> HIDE DEF kept, n
  <1>6. n \in Seq(S) /\ Len(n) = c /\ DOMAIN n = 1..c
    BY <1>1, <1>3, <1>4, <1>5
  <1>7. /\ f \in [DOMAIN n -> kept]
        /\ \A j \in DOMAIN n : n[j] = q[f[j]]
        /\ \A j, k \in DOMAIN n : f[j] = f[k] => j = k
        /\ \A i \in kept : \E j \in DOMAIN n : f[j] = i
    BY <1>3, <1>4, <1>6
  <1>8. Len(n) <= Len(q)
    BY <1>1, <1>3, <1>6
  <1> HIDE DEF f
  <1> QED BY <1>6, <1>7, <1>8 DEF kept, n
=============================================================================
