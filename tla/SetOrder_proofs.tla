--------------------------- MODULE SetOrder_proofs ---------------------------
(***************************************************************************)
(* The k-th element of a finite set in an order: there is one for every k  *)
(* up to the size of the set, and a different one.                         *)
(***************************************************************************)
EXTENDS SetOrder, FiniteSetTheorems, TLAPS

IsOrder(S, R) ==
  /\ \A x \in S : <<x, x>> \in R
  /\ \A x, y \in S : <<x, y>> \in R \/ <<y, x>> \in R
  /\ \A x, y \in S : <<x, y>> \in R /\ <<y, x>> \in R => x = y
  /\ \A x, y, z \in S : <<x, y>> \in R /\ <<y, z>> \in R => <<x, z>> \in R

UpTo(S, R, x) == {y \in S : <<y, x>> \in R}

LEMMA NumbersUpTo ==
  ASSUME NEW n \in Nat PROVE IsFiniteSet(1..n) /\ Cardinality(1..n) = n
BY FS_Interval, 1 \in Int, n \in Int

\* The rank of an element is a number up to the size of the set, and no other
\* element has it.
LEMMA RankTells ==
  ASSUME NEW S, IsFiniteSet(S), NEW R, IsOrder(S, R), NEW x \in S
  PROVE  /\ UpTo(S, R, x) \subseteq S /\ x \in UpTo(S, R, x)
         /\ IsFiniteSet(UpTo(S, R, x))
         /\ Cardinality(UpTo(S, R, x)) \in 1..Cardinality(S)
<1>1. UpTo(S, R, x) \subseteq S /\ x \in UpTo(S, R, x)
  BY DEF UpTo, IsOrder
<1>2. IsFiniteSet(UpTo(S, R, x)) /\ Cardinality(UpTo(S, R, x)) <= Cardinality(S)
  BY <1>1, FS_Subset
<1>3. Cardinality(UpTo(S, R, x)) \in Nat /\ Cardinality(UpTo(S, R, x)) # 0
  BY <1>1, <1>2, FS_CardinalityType, FS_EmptySet
<1>4. Cardinality(S) \in Nat
  BY FS_CardinalityType
<1> QED BY <1>1, <1>2, <1>3, <1>4

LEMMA RankGrows ==
  ASSUME NEW S, IsFiniteSet(S), NEW R, IsOrder(S, R), NEW x \in S, NEW y \in S,
         <<x, y>> \in R
  PROVE  /\ Cardinality(UpTo(S, R, x)) <= Cardinality(UpTo(S, R, y))
         /\ Cardinality(UpTo(S, R, x)) = Cardinality(UpTo(S, R, y)) => x = y
<1>1. UpTo(S, R, x) \subseteq UpTo(S, R, y)
  BY DEF UpTo, IsOrder
<1>2. ASSUME Cardinality(UpTo(S, R, x)) = Cardinality(UpTo(S, R, y)) PROVE x = y
  <2>1. UpTo(S, R, x) = UpTo(S, R, y)
    BY <1>1, <1>2, RankTells, FS_Subset
  <2>2. <<y, x>> \in R
    BY <2>1, RankTells DEF UpTo
  <2> QED BY <2>2 DEF IsOrder
<1> QED BY <1>1, <1>2, RankTells, FS_Subset

LEMMA RankDiffers ==
  ASSUME NEW S, IsFiniteSet(S), NEW R, IsOrder(S, R), NEW x \in S, NEW y \in S,
         Cardinality(UpTo(S, R, x)) = Cardinality(UpTo(S, R, y))
  PROVE  x = y
<1>1. <<x, y>> \in R \/ <<y, x>> \in R
  BY DEF IsOrder
<1> QED BY <1>1, RankGrows

\* There is a k-th element for every k up to the size of the set: the rank is an
\* injection into as many numbers as there are elements.
LEMMA NthTells ==
  ASSUME NEW S, IsFiniteSet(S), NEW R, IsOrder(S, R), NEW k \in 1..Cardinality(S)
  PROVE  Nth(S, R, k) \in S /\ Cardinality(UpTo(S, R, Nth(S, R, k))) = k
<1> DEFINE rank == [x \in S |-> Cardinality(UpTo(S, R, x))]
           T    == 1..Cardinality(S)
<1>1. Cardinality(S) \in Nat
  BY FS_CardinalityType
<1>2. rank \in [S -> T] /\ DOMAIN rank = S
  BY RankTells
<1>3. \A x, y \in S : rank[x] = rank[y] => x = y
  BY RankDiffers
<1>4. rank \in Injection(S, T)
  <2> HIDE DEF rank
  <2> QED BY <1>2, <1>3 DEF Injection, IsInjective
<1>5. IsFiniteSet(T) /\ Cardinality(T) = Cardinality(S)
  BY <1>1, NumbersUpTo
<1>6. rank \in Surjection(S, T)
  BY <1>4, <1>5, FS_Injection
<1>7. \E x \in S : rank[x] = k
  BY <1>6 DEF Surjection
<1>8. \E x \in S : Cardinality({y \in S : <<y, x>> \in R}) = k
  BY <1>7 DEF UpTo
<1> QED BY <1>8 DEF Nth, UpTo

LEMMA NthDiffer ==
  ASSUME NEW S, IsFiniteSet(S), NEW R, IsOrder(S, R),
         NEW k \in 1..Cardinality(S), NEW l \in 1..Cardinality(S),
         Nth(S, R, k) = Nth(S, R, l)
  PROVE  k = l
BY NthTells

\* Every element is the k-th for some k.
LEMMA NthOfAll ==
  ASSUME NEW S, IsFiniteSet(S), NEW R, IsOrder(S, R), NEW x \in S
  PROVE  \E k \in 1..Cardinality(S) : Nth(S, R, k) = x
<1> DEFINE k == Cardinality(UpTo(S, R, x))
<1>1. k \in 1..Cardinality(S)
  BY RankTells
<1>2. Nth(S, R, k) \in S /\ Cardinality(UpTo(S, R, Nth(S, R, k))) = k
  BY <1>1, NthTells
<1>3. Nth(S, R, k) = x
  BY <1>2, RankDiffers
<1> QED BY <1>1, <1>3

\* ... and the order is that of k.
LEMMA NthInOrder ==
  ASSUME NEW S, IsFiniteSet(S), NEW R, IsOrder(S, R),
         NEW k \in 1..Cardinality(S), NEW l \in 1..Cardinality(S), k < l
  PROVE  /\ <<Nth(S, R, k), Nth(S, R, l)>> \in R
         /\ Nth(S, R, k) # Nth(S, R, l)
<1> DEFINE x == Nth(S, R, k)
           y == Nth(S, R, l)
<1>1. /\ x \in S /\ Cardinality(UpTo(S, R, x)) = k
      /\ y \in S /\ Cardinality(UpTo(S, R, y)) = l
  BY NthTells
<1>2. x # y
  BY <1>1
<1> HIDE DEF x, y
<1>3. ~(<<y, x>> \in R)
  <2> SUFFICES ASSUME <<y, x>> \in R PROVE FALSE
    OBVIOUS
  <2>1. Cardinality(UpTo(S, R, y)) <= Cardinality(UpTo(S, R, x))
    BY <1>1, RankGrows
  <2> QED BY <1>1, <2>1
<1>4. <<x, y>> \in R
  BY <1>1, <1>3 DEF IsOrder
<1> QED BY <1>2, <1>4 DEF x, y

LEMMA AscendingIsOrder ==
  ASSUME NEW S, S \subseteq Int PROVE IsOrder(S, Ascending(S))
<1>1. \A x, y \in S : <<x, y>> \in Ascending(S) <=> x <= y
  BY DEF Ascending
<1>2. \A x \in S : x \in Int
  OBVIOUS
<1> HIDE DEF Ascending
<1> QED BY <1>1, <1>2 DEF IsOrder

LEMMA NestedIsOrder ==
  ASSUME NEW S, S \subseteq Int \X Int PROVE IsOrder(S, NestedOrder(S))
<1>1. \A x, y \in S : <<x, y>> \in NestedOrder(S) <=>
                        \/ x[1] < y[1]
                        \/ x[1] = y[1] /\ x[2] <= y[2]
  BY DEF NestedOrder
<1>2. \A x \in S : x[1] \in Int /\ x[2] \in Int
  OBVIOUS
<1>3. \A x, y \in S : x[1] = y[1] /\ x[2] = y[2] => x = y
  OBVIOUS
<1>4. \A x \in S : <<x, x>> \in NestedOrder(S)
  BY <1>1, <1>2
<1>5. \A x, y \in S : <<x, y>> \in NestedOrder(S) \/ <<y, x>> \in NestedOrder(S)
  <2> SUFFICES ASSUME NEW x \in S, NEW y \in S
               PROVE  <<x, y>> \in NestedOrder(S) \/ <<y, x>> \in NestedOrder(S)
    OBVIOUS
  <2>1. \A a, b \in Int : a < b \/ b < a \/ (a = b /\ a <= b)
    OBVIOUS
  <2>2. CASE x[1] < y[1]
    BY <1>1, <2>2
  <2>3. CASE y[1] < x[1]
    BY <1>1, <2>3
  <2>4. CASE x[1] = y[1]
    <3>1. x[2] <= y[2] \/ y[2] <= x[2]
      BY <1>2
    <3> QED BY <1>1, <2>4, <3>1
  <2> QED BY <1>2, <2>1, <2>2, <2>3, <2>4
<1>6. \A x, y \in S :
        <<x, y>> \in NestedOrder(S) /\ <<y, x>> \in NestedOrder(S) => x = y
  BY <1>1, <1>2, <1>3
<1>7. \A x, y, z \in S :
        <<x, y>> \in NestedOrder(S) /\ <<y, z>> \in NestedOrder(S)
          => <<x, z>> \in NestedOrder(S)
  BY <1>1, <1>2
<1> QED BY <1>4, <1>5, <1>6, <1>7 DEF IsOrder

\* The least of the numbers there are.
LEMMA FirstTells ==
  ASSUME NEW n \in Nat, NEW S, S \subseteq 1..n, S # {}
  PROVE  Nth(S, Ascending(S), 1) \in S
<1>1. IsFiniteSet(S)
  <2>1. IsFiniteSet(1..n)
    BY NumbersUpTo
  <2> QED BY <2>1, FS_Subset
<1>2. Cardinality(S) \in Nat /\ Cardinality(S) # 0
  BY <1>1, FS_CardinalityType, FS_EmptySet
<1>3. 1 \in 1..Cardinality(S) /\ S \subseteq Int
  BY <1>2
<1> QED BY <1>1, <1>3, NthTells, AscendingIsOrder

=============================================================================
