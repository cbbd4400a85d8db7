------------------------------- MODULE Minima -------------------------------
(***************************************************************************)
(* Least elements and sorted sequences, in the form the other proofs cite. *)
(***************************************************************************)
EXTENDS Ordering, WellFoundedInduction, FiniteSetTheorems, TLAPS

LEMMA LeastNatural ==
  ASSUME NEW T \in SUBSET Nat, T # {}
  PROVE  \E x \in T : \A y \in T : x <= y
<1> DEFINE R == {ss \in Nat \X Nat : ss[1] < ss[2]}
<1>1. IsWellFoundedOn(R, Nat)
  BY NatLessThanWellFounded DEF OpToRel
<1>2. PICK x \in T : \A y \in T : ~ (<<y, x>> \in R)
  <2> HIDE DEF R
  <2> QED  BY <1>1, WFMin
<1>3. \A y \in T : ~ (y < x)
  BY <1>2
<1> QED  BY <1>3

(* The elements of S are told apart by how many come before them.          *)
LEMMA Ranks ==
  ASSUME NEW S, IsFiniteSet(S), NEW R, StrictOrder(S, R)
  PROVE  /\ \A x \in S : Cardinality(Before(S, R, x)) \in 0 .. Cardinality(S) - 1
         /\ \A x, y \in S :
              Cardinality(Before(S, R, x)) < Cardinality(Before(S, R, y)) => <<x, y>> \in R
         /\ \A x, y \in S :
              Cardinality(Before(S, R, x)) = Cardinality(Before(S, R, y)) => x = y
<1> DEFINE n       == Cardinality(S)
           rank(x) == Cardinality(Before(S, R, x))
<1>1. n \in Nat
  BY FS_CardinalityType
<1>2. ASSUME NEW x \in S
      PROVE  IsFiniteSet(Before(S, R, x)) /\ rank(x) \in 0 .. n - 1
             /\ Cardinality(Before(S, R, x) \cup {x}) = rank(x) + 1 /\ rank(x) \in Nat
  <2>1. Before(S, R, x) \subseteq S /\ x \notin Before(S, R, x)
        /\ Before(S, R, x) \cup {x} \subseteq S
    BY DEF Before, StrictOrder
  <2>2. IsFiniteSet(Before(S, R, x))
    BY <2>1, FS_Subset
  <2>3. rank(x) \in Nat /\ Cardinality(Before(S, R, x) \cup {x}) = rank(x) + 1
    BY <2>1, <2>2, FS_AddElement, FS_CardinalityType
  <2>4. Cardinality(Before(S, R, x) \cup {x}) <= n
    BY <2>1, FS_Subset
  <2> HIDE DEF rank, n
  <2> QED  BY <1>1, <2>2, <2>3, <2>4
<1>3. ASSUME NEW x \in S, NEW y \in S, <<x, y>> \in R PROVE rank(x) < rank(y)
  <2>1. Before(S, R, x) \cup {x} \subseteq Before(S, R, y)
    BY <1>3 DEF Before, StrictOrder
  <2>2. Cardinality(Before(S, R, x) \cup {x}) <= rank(y)
    BY <1>2, <2>1, FS_Subset
  <2>3. rank(x) \in Nat /\ rank(y) \in Nat
        /\ Cardinality(Before(S, R, x) \cup {x}) = rank(x) + 1
    BY <1>2
  <2> QED  BY <2>2, <2>3
<1>4. ASSUME NEW x \in S, NEW y \in S, rank(x) < rank(y) PROVE <<x, y>> \in R
  <2>1. rank(x) \in Nat /\ rank(y) \in Nat
    BY <1>2
  <2>2. x # y /\ ~ rank(y) < rank(x)
    BY <1>4, <2>1
  <2> QED  BY <1>3, <2>2 DEF StrictOrder
<1>5. ASSUME NEW x \in S, NEW y \in S, rank(x) = rank(y) PROVE x = y
  <2>1. rank(x) \in Nat /\ rank(y) \in Nat
    BY <1>2
  <2>2. ~ rank(x) < rank(y) /\ ~ rank(y) < rank(x)
    BY <1>5, <2>1
  <2> QED  BY <1>3, <2>2 DEF StrictOrder
<1> QED  BY <1>2, <1>4, <1>5 DEF n, rank

(* InOrder lists every element of S once, and in the order of R.           *)
LEMMA InOrderSorts ==
  ASSUME NEW S, IsFiniteSet(S), NEW R, StrictOrder(S, R)
  PROVE  /\ Cardinality(S) \in Nat
         /\ InOrder(S, R) \in [1 .. Cardinality(S) -> S]
         /\ \A x \in S : \E k \in 1 .. Cardinality(S) : InOrder(S, R)[k] = x
         /\ \A j, k \in 1 .. Cardinality(S) :
              j < k => <<InOrder(S, R)[j], InOrder(S, R)[k]>> \in R
<1> DEFINE n       == Cardinality(S)
           rank(x) == Cardinality(Before(S, R, x))
           s       == InOrder(S, R)
<1>1. n \in Nat
  BY FS_CardinalityType
<1>2. \A x \in S : rank(x) \in 0 .. n - 1
  BY Ranks
<1>3. \A x, y \in S : rank(x) < rank(y) => <<x, y>> \in R
  BY Ranks
<1>4. \A x, y \in S : rank(x) = rank(y) => x = y
  BY Ranks
<1> HIDE DEF n, rank
<1>5. \A k \in 1 .. n : \E x \in S : rank(x) = k - 1
  <2> DEFINE f == [x \in S |-> rank(x)]
  <2>1. f \in Injection(S, 0 .. n - 1)
    BY <1>2, <1>4 DEF Injection, IsInjective
  <2>2. IsFiniteSet(0 .. n - 1) /\ Cardinality(0 .. n - 1) = n
    <3>1. n - 1 \in Int
      BY <1>1
    <3>2. /\ IsFiniteSet(0 .. n - 1)
          /\ Cardinality(0 .. n - 1) = IF 0 > n - 1 THEN 0 ELSE (n - 1) - 0 + 1
      BY <3>1, FS_Interval
    <3> QED  BY <1>1, <3>2
  <2>3. Cardinality(S) = Cardinality(0 .. n - 1)
    BY <2>2 DEF n
  <2>4. f \in Surjection(S, 0 .. n - 1)
    <3> HIDE DEF f
    <3> QED  BY <2>1, <2>2, <2>3, FS_Injection
  <2> SUFFICES ASSUME NEW k \in 1 .. n PROVE \E x \in S : rank(x) = k - 1
    OBVIOUS
  <2>5. k - 1 \in 0 .. n - 1
    BY <1>1
  <2>6. \E x \in S : f[x] = k - 1
    BY <2>4, <2>5 DEF Surjection
  <2> QED  BY <2>6
<1>6. s = [k \in 1 .. n |-> CHOOSE x \in S : rank(x) = k - 1]
  BY DEF InOrder, n, rank
<1>7. \A k \in 1 .. n : s[k] \in S /\ rank(s[k]) = k - 1
  BY <1>5, <1>6
<1>8. s \in [1 .. n -> S]
  BY <1>6, <1>7
<1> HIDE DEF s
<1>9. ASSUME NEW x \in S PROVE \E k \in 1 .. n : s[k] = x
  <2>1. rank(x) \in 0 .. n - 1
    BY <1>2
  <2>2. rank(x) + 1 \in 1 .. n /\ (rank(x) + 1) - 1 = rank(x)
    BY <1>1, <2>1
  <2>3. s[rank(x) + 1] \in S /\ rank(s[rank(x) + 1]) = rank(x)
    BY <1>7, <2>2
  <2> QED  BY <1>4, <2>2, <2>3
<1>10. ASSUME NEW j \in 1 .. n, NEW k \in 1 .. n, j < k PROVE <<s[j], s[k]>> \in R
  <2>1. /\ s[j] \in S /\ rank(s[j]) = j - 1
        /\ s[k] \in S /\ rank(s[k]) = k - 1
    BY <1>7
  <2> QED  BY <1>3, <1>10, <2>1
<1> QED  BY <1>1, <1>8, <1>9, <1>10 DEF n, s

(* Nothing else does.                                                      *)
LEMMA InOrderOnly ==
  ASSUME NEW S, NEW R, StrictOrder(S, R), NEW n \in Nat, NEW s \in [1 .. n -> S],
         \A x \in S : \E k \in 1 .. n : s[k] = x,
         \A j, k \in 1 .. n : j < k => <<s[j], s[k]>> \in R
  PROVE  IsFiniteSet(S) /\ Cardinality(S) = n /\ InOrder(S, R) = s
<1>1. \A j, k \in 1 .. n : s[j] = s[k] => j = k
  <2> SUFFICES ASSUME NEW j \in 1 .. n, NEW k \in 1 .. n, s[j] = s[k], j # k PROVE FALSE
    OBVIOUS
  <2>1. j < k \/ k < j
    OBVIOUS
  <2>2. <<s[j], s[j]>> \in R
    BY <2>1
  <2> QED  BY <2>2 DEF StrictOrder
<1>2. s \in Bijection(1 .. n, S)
  BY <1>1 DEF Bijection, Injection, IsInjective, Surjection
<1>3. ExistsBijection(1 .. n, S)
  BY <1>2 DEF ExistsBijection
<1>4. Cardinality(S) = n /\ IsFiniteSet(S)
  BY <1>3, FS_CountingElements, FS_NatBijection
<1>5. ASSUME NEW k \in 1 .. n PROVE Cardinality(Before(S, R, s[k])) = k - 1
  <2> DEFINE T == {s[j] : j \in 1 .. k - 1}
             f == [j \in 1 .. k - 1 |-> s[j]]
  <2>1. Before(S, R, s[k]) = T
    <3>1. ASSUME NEW x \in S, <<x, s[k]>> \in R PROVE x \in T
      <4>1. PICK j \in 1 .. n : s[j] = x
        OBVIOUS
      <4>2. ~ k < j
        <5> SUFFICES ASSUME k < j PROVE FALSE
          OBVIOUS
        <5>1. <<s[k], x>> \in R /\ s[k] \in S
          BY <4>1
        <5>2. <<x, x>> \in R
          BY <3>1, <5>1 DEF StrictOrder
        <5> QED  BY <5>2 DEF StrictOrder
      <4>3. j # k
        BY <3>1, <4>1 DEF StrictOrder
      <4>4. j \in 1 .. k - 1
        BY <4>2, <4>3
      <4> QED  BY <4>1, <4>4
    <3>2. ASSUME NEW j \in 1 .. k - 1 PROVE s[j] \in S /\ <<s[j], s[k]>> \in R
      <4>1. j \in 1 .. n /\ j < k
        OBVIOUS
      <4> QED  BY <4>1
    <3> QED  BY <3>1, <3>2 DEF Before
  <2>2. f \in Bijection(1 .. k - 1, T)
    <3>1. \A j \in 1 .. k - 1 : j \in 1 .. n
      OBVIOUS
    <3> QED  BY <1>1, <3>1 DEF Bijection, Injection, IsInjective, Surjection
  <2>3. k - 1 \in Nat
    OBVIOUS
  <2> HIDE DEF T, f
  <2>4. ExistsBijection(1 .. k - 1, T)
    BY <2>2 DEF ExistsBijection
  <2>5. Cardinality(T) = k - 1
    BY <2>3, <2>4, FS_CountingElements
  <2> QED  BY <2>1, <2>5
<1>6. \A x, y \in S :
        Cardinality(Before(S, R, x)) = Cardinality(Before(S, R, y)) => x = y
  BY <1>4, Ranks
<1>7. ASSUME NEW k \in 1 .. n
      PROVE  (CHOOSE x \in S : Cardinality(Before(S, R, x)) = k - 1) = s[k]
  <2>1. s[k] \in S /\ Cardinality(Before(S, R, s[k])) = k - 1
    BY <1>5
  <2>2. \A x \in S : Cardinality(Before(S, R, x)) = k - 1 => x = s[k]
    BY <1>6, <2>1
  <2> QED  BY <2>1, <2>2
<1> QED  BY <1>4, <1>7 DEF InOrder

(* Numbers of 1..n that rise from each position to the next stay in place. *)
LEMMA RisingStaysInPlace ==
  ASSUME NEW n \in Nat, NEW f \in [1 .. n -> 1 .. n],
         \A k \in 2 .. n : f[k - 1] < f[k]
  PROVE  \A k \in 1 .. n : f[k] = k
<1>1. \A k \in 1 .. n : f[k] >= k
  <2> DEFINE T == {k \in 1 .. n : f[k] < k}
  <2> SUFFICES ASSUME NEW k \in 1 .. n, ~ f[k] >= k PROVE FALSE
    OBVIOUS
  <2>1. T \in SUBSET Nat /\ T # {}
    <3>1. f[k] \in 1 .. n
      OBVIOUS
    <3>2. k \in T
      BY <3>1
    <3>3. T \in SUBSET Nat
      OBVIOUS
    <3> QED  BY <3>2, <3>3, Zenon
  <2>2. PICK x \in T : \A y \in T : x <= y
    <3> HIDE DEF T
    <3> QED  BY <2>1, LeastNatural
  <2>3. x \in 1 .. n /\ f[x] < x /\ f[x] \in 1 .. n
    OBVIOUS
  <2>4. x - 1 \in 1 .. n /\ x \in 2 .. n
    BY <2>3
  <2>5. ~ x <= x - 1
    BY <2>3
  <2>6. ~ f[x - 1] < x - 1
    BY <2>2, <2>4, <2>5
  <2>7. f[x - 1] < f[x] /\ f[x - 1] \in 1 .. n
    BY <2>4
  <2> QED  BY <2>3, <2>6, <2>7
<1>2. \A k \in 1 .. n : f[k] <= k
  <2> DEFINE T == {m \in 0 .. n - 1 : f[n - m] > n - m}
  <2> SUFFICES ASSUME NEW k \in 1 .. n, f[k] > k PROVE FALSE
    OBVIOUS
  <2>1. T \in SUBSET Nat /\ T # {}
    <3>1. n - k \in 0 .. n - 1 /\ n - (n - k) = k
      OBVIOUS
    <3>2. f[n - (n - k)] > n - (n - k)
      BY <3>1
    <3>3. n - k \in T
      BY <3>1, <3>2
    <3>4. T \in SUBSET Nat
      OBVIOUS
    <3> QED  BY <3>3, <3>4, Zenon
  <2>2. PICK x \in T : \A y \in T : x <= y
    <3> HIDE DEF T
    <3> QED  BY <2>1, LeastNatural
  <2> DEFINE i == n - x
  <2>3. x \in 0 .. n - 1 /\ i \in 1 .. n /\ f[i] > i /\ f[i] \in 1 .. n
    <3>1. x \in 0 .. n - 1 /\ f[n - x] > n - x
      OBVIOUS
    <3>2. n - x \in 1 .. n
      BY <3>1
    <3> QED  BY <3>1, <3>2
  <2> HIDE DEF i
  <2>4. i + 1 \in 2 .. n /\ (i + 1) - 1 = i /\ i + 1 \in 1 .. n
    BY <2>3
  <2>5. f[i + 1] > f[i] /\ f[i + 1] \in 1 .. n
    BY <2>4
  <2>6. f[i + 1] > i + 1
    BY <2>3, <2>4, <2>5
  <2>7. x - 1 \in 0 .. n - 1 /\ n - (x - 1) = i + 1
    BY <2>3, <2>4 DEF i
  <2>8. x - 1 \in T
    BY <2>6, <2>7
  <2> HIDE DEF T
  <2>9. x <= x - 1
    BY <2>2, <2>8
  <2> QED  BY <2>3, <2>9
<1> QED
  <2> SUFFICES ASSUME NEW k \in 1 .. n PROVE f[k] = k
    OBVIOUS
  <2>1. f[k] \in 1 .. n /\ f[k] >= k /\ f[k] <= k
    BY <1>1, <1>2
  <2> QED  BY <2>1
=============================================================================
