------------------------------ MODULE ZALPProofs ------------------------------
(***************************************************************************)
(* Lemmas about the lists of ZALP.  A list is known by what it contains,   *)
(* by which element comes before which, and by having no element twice;    *)
(* each operation on lists is described in those terms once, and the       *)
(* proofs about the policies use nothing else.                             *)
(***************************************************************************)
EXTENDS ZALP, Least, FiniteSetTheorems, SequenceTheorems

Before(l, a, b) == \E i, j \in DOMAIN l : i < j /\ l[i] = a /\ l[j] = b

(***************************************************************************)
(* Counting positions.                                                     *)
(***************************************************************************)
LEMMA UpToN ==
  ASSUME NEW n \in Nat
  PROVE  IsFiniteSet(1 .. n) /\ Cardinality(1 .. n) = n
BY FS_Interval

LEMMA DisjointUnion ==
  ASSUME NEW S, IsFiniteSet(S), NEW T, IsFiniteSet(T), S \cap T = {}
  PROVE  Cardinality(S \cup T) = Cardinality(S) + Cardinality(T)
<1>1. Cardinality(S \cup T) = Cardinality(S) + Cardinality(T) - Cardinality({})
  BY FS_Union
<1>2. Cardinality(S) \in Nat /\ Cardinality(T) \in Nat /\ Cardinality({}) = 0
  BY FS_CardinalityType, FS_EmptySet
<1> QED BY <1>1, <1>2

LEMMA RankOrders ==
  ASSUME NEW n \in Nat, NEW K \in SUBSET (1 .. n)
  PROVE  /\ Cardinality(K) \in Nat
         /\ \A i \in K : Rank(K, i) \in 1 .. Cardinality(K)
         /\ \A i, j \in K : i < j => Rank(K, i) < Rank(K, j)
         /\ \A k \in 1 .. Cardinality(K) : \E i \in K : Rank(K, i) = k
<1>1. IsFiniteSet(K) /\ Cardinality(K) \in Nat
  <2>1. IsFiniteSet(1 .. n)
    BY UpToN
  <2>2. IsFiniteSet(K)
    BY <2>1, FS_Subset
  <2> QED BY <2>2, FS_CardinalityType
<1> DEFINE UpTo(i) == {j \in K : j <= i}
<1>2. \A i \in K : IsFiniteSet(UpTo(i)) /\ Cardinality(UpTo(i)) \in 1 .. Cardinality(K)
  <2> TAKE i \in K
  <2>1. UpTo(i) \in SUBSET K /\ i \in UpTo(i)
    OBVIOUS
  <2>2. /\ IsFiniteSet(UpTo(i)) /\ Cardinality(UpTo(i)) <= Cardinality(K)
        /\ Cardinality(UpTo(i)) \in Nat
    BY <1>1, <2>1, FS_Subset, FS_CardinalityType
  <2>3. Cardinality(UpTo(i)) # 0
    BY <2>1, <2>2, FS_EmptySet
  <2> QED BY <1>1, <2>2, <2>3
<1>3. \A i, j \in K : i < j => Cardinality(UpTo(i)) < Cardinality(UpTo(j))
  <2> TAKE i, j \in K
  <2> HAVE i < j
  <2>1. i \in Int /\ j \in Int /\ \A x \in K : x \in Int
    OBVIOUS
  <2>2. UpTo(i) \in SUBSET UpTo(j) /\ j \in UpTo(j) /\ j \notin UpTo(i)
    <3>1. \A x \in UpTo(i) : x \in UpTo(j)
      BY <2>1
    <3>2. j \in UpTo(j) /\ j \notin UpTo(i)
      BY <2>1
    <3> QED BY <3>1, <3>2
  <2>3. /\ Cardinality(UpTo(i)) <= Cardinality(UpTo(j))
        /\ Cardinality(UpTo(j)) = Cardinality(UpTo(i)) => UpTo(j) = UpTo(i)
    BY <1>2, <2>2, FS_Subset
  <2> QED BY <1>2, <2>2, <2>3
<1> DEFINE R == [i \in K |-> Cardinality(UpTo(i))]
<1>4. R \in Injection(K, 1 .. Cardinality(K))
  <2>1. R \in [K -> 1 .. Cardinality(K)]
    BY <1>2
  <2>2. \A i, j \in K : R[i] = R[j] => i = j
    BY <1>2, <1>3
  <2> QED BY <2>1, <2>2 DEF Injection, IsInjective
<1>5. R \in Surjection(K, 1 .. Cardinality(K))
  <2>1. IsFiniteSet(1 .. Cardinality(K)) /\ Cardinality(1 .. Cardinality(K)) = Cardinality(K)
    BY <1>1, UpToN
  <2> QED BY <1>4, <2>1, FS_Injection
<1>6. \A k \in 1 .. Cardinality(K) : \E i \in K : R[i] = k
  BY <1>5 DEF Surjection
<1> QED BY <1>1, <1>2, <1>3, <1>6 DEF Rank

------------------------------------------------------------------------------
(***************************************************************************)
(* The subsequence of l in S.                                              *)
(***************************************************************************)
PositionsIn(l, S) == {i \in DOMAIN l : l[i] \in S}

LEMMA OnlyIs ==
  ASSUME NEW T, NEW l \in Seq(T), NEW S
  PROVE  LET K == PositionsIn(l, S) IN
         /\ Only(l, S) \in Seq(T)
         /\ Len(Only(l, S)) = Cardinality(K)
         /\ Cardinality(K) \in Nat
         /\ \A i \in K : /\ Rank(K, i) \in 1 .. Cardinality(K)
                         /\ Only(l, S)[Rank(K, i)] = l[i]
         /\ \A k \in 1 .. Cardinality(K) : \E i \in K : Rank(K, i) = k
         /\ \A i, j \in K : i < j => Rank(K, i) < Rank(K, j)
<1> DEFINE K == PositionsIn(l, S)
<1>1. Len(l) \in Nat /\ DOMAIN l = 1 .. Len(l) /\ \A i \in 1 .. Len(l) : l[i] \in T
  OBVIOUS
<1>2. K \in SUBSET (1 .. Len(l))
  BY <1>1 DEF PositionsIn
<1>3. /\ Cardinality(K) \in Nat
      /\ \A i \in K : Rank(K, i) \in 1 .. Cardinality(K)
      /\ \A i, j \in K : i < j => Rank(K, i) < Rank(K, j)
      /\ \A k \in 1 .. Cardinality(K) : \E i \in K : Rank(K, i) = k
  BY <1>1, <1>2, RankOrders
<1> DEFINE At(k) == CHOOSE i \in K : Rank(K, i) = k
<1>4. Only(l, S) = [k \in 1 .. Cardinality(K) |-> l[At(k)]]
  BY DEF Only, PositionsIn
<1>5. \A k \in 1 .. Cardinality(K) : At(k) \in K /\ Rank(K, At(k)) = k
  BY <1>3
<1>6. \A i \in K : At(Rank(K, i)) = i
  <2> TAKE i \in K
  <2>1. At(Rank(K, i)) \in K /\ Rank(K, At(Rank(K, i))) = Rank(K, i)
    BY <1>3, <1>5
  <2>2. i \in Nat /\ At(Rank(K, i)) \in Nat
    BY <1>2, <2>1
  <2> HIDE DEF At
  <2> QED BY <1>3, <2>1, <2>2
<1> HIDE DEF At
<1>7. \A k \in 1 .. Cardinality(K) : l[At(k)] \in T
  BY <1>1, <1>2, <1>5
<1>8. Only(l, S) \in Seq(T) /\ Len(Only(l, S)) = Cardinality(K)
  BY <1>3, <1>4, <1>7, IsASeq
<1>9. \A i \in K : Only(l, S)[Rank(K, i)] = l[i]
  BY <1>3, <1>4, <1>6
<1> QED BY <1>3, <1>8, <1>9

(* What the operations of std::list do to the contents and to the order.   *)
LEMMA OnlyLemma ==
  ASSUME NEW T, NEW l \in Seq(T), NEW S
  PROVE  /\ Only(l, S) \in Seq(T)
         /\ \A x : Contains(Only(l, S), x) <=> Contains(l, x) /\ x \in S
         /\ \A x, y : Before(Only(l, S), x, y) <=> Before(l, x, y) /\ x \in S /\ y \in S
         /\ IsInjective(l) => IsInjective(Only(l, S))
<1> DEFINE K == PositionsIn(l, S)
           m == Only(l, S)
<1>1. /\ m \in Seq(T) /\ Len(m) = Cardinality(K) /\ Cardinality(K) \in Nat
      /\ \A i \in K : Rank(K, i) \in 1 .. Cardinality(K) /\ m[Rank(K, i)] = l[i]
      /\ \A k \in 1 .. Cardinality(K) : \E i \in K : Rank(K, i) = k
      /\ \A i, j \in K : i < j => Rank(K, i) < Rank(K, j)
  BY OnlyIs
<1>2. DOMAIN m = 1 .. Cardinality(K) /\ DOMAIN l = 1 .. Len(l) /\ Len(l) \in Nat
  BY <1>1
<1>3. \A i \in K : i \in DOMAIN l /\ i \in 1 .. Len(l) /\ l[i] \in S
  BY <1>2 DEF PositionsIn
<1>4. \A i \in 1 .. Len(l) : l[i] \in S => i \in K
  BY <1>2 DEF PositionsIn
<1> HIDE DEF K, m
<1>5. \A x : Contains(m, x) <=> Contains(l, x) /\ x \in S
  BY <1>1, <1>3, <1>4 DEF Contains
<1>6. \A x, y : Before(m, x, y) <=> Before(l, x, y) /\ x \in S /\ y \in S
  <2> TAKE x, y
  <2>1. ASSUME Before(m, x, y) PROVE Before(l, x, y) /\ x \in S /\ y \in S
    <3>1. PICK i, j \in DOMAIN m : i < j /\ m[i] = x /\ m[j] = y
      BY <2>1 DEF Before
    <3>2. PICK a, b \in K : Rank(K, a) = i /\ Rank(K, b) = j
      BY <1>1, <1>2, <3>1
    <3>3. l[a] = x /\ l[b] = y
      BY <1>1, <3>1, <3>2
    <3>4. a < b
      <4>1. a \in Int /\ b \in Int /\ i \in Int /\ j \in Int
        BY <1>2, <1>3, <3>1
      <4>2. ~ (b < a) /\ a # b
        BY <1>1, <3>1, <3>2, <4>1
      <4> QED BY <4>1, <4>2
    <3> QED BY <1>3, <3>3, <3>4 DEF Before
  <2>2. ASSUME Before(l, x, y), x \in S, y \in S PROVE Before(m, x, y)
    <3>1. PICK i, j \in DOMAIN l : i < j /\ l[i] = x /\ l[j] = y
      BY <2>2 DEF Before
    <3>2. i \in K /\ j \in K
      BY <1>2, <1>4, <2>2, <3>1
    <3> QED BY <1>1, <1>2, <3>1, <3>2 DEF Before
  <2> QED BY <2>1, <2>2
<1>7. IsInjective(l) => IsInjective(m)
  <2> SUFFICES ASSUME IsInjective(l), NEW i \in DOMAIN m, NEW j \in DOMAIN m, m[i] = m[j]
               PROVE  i = j
    BY DEF IsInjective
  <2>1. PICK a, b \in K : Rank(K, a) = i /\ Rank(K, b) = j
    BY <1>1, <1>2
  <2>2. l[a] = l[b]
    BY <1>1, <2>1
  <2>3. a = b
    BY <1>3, <2>2 DEF IsInjective
  <2> QED BY <2>1, <2>3
<1> QED BY <1>1, <1>5, <1>6, <1>7 DEF m

LEMMA WithoutLemma ==
  ASSUME NEW T, NEW l \in Seq(T), NEW S
  PROVE  /\ Without(l, S) \in Seq(T)
         /\ \A x : Contains(Without(l, S), x) <=> Contains(l, x) /\ x \notin S
         /\ \A x, y : Before(Without(l, S), x, y) <=> Before(l, x, y) /\ x \notin S /\ y \notin S
         /\ IsInjective(l) => IsInjective(Without(l, S))
<1>1. \A x : x \in ToSet(l) <=> Contains(l, x)
  BY DEF ToSet, Contains
<1>2. \A x, y : Before(l, x, y) => Contains(l, x) /\ Contains(l, y)
  BY DEF Before, Contains
<1> QED BY <1>1, <1>2, OnlyLemma DEF Without

LEMMA WithoutOne ==
  ASSUME NEW T, NEW l \in Seq(T), IsInjective(l), NEW f
  PROVE  /\ Without(l, {f}) \in Seq(T) /\ IsInjective(Without(l, {f}))
         /\ \A x : Contains(Without(l, {f}), x) <=> Contains(l, x) /\ x # f
         /\ \A x, y : Before(Without(l, {f}), x, y) <=> Before(l, x, y) /\ x # f /\ y # f
BY WithoutLemma

LEMMA ConcatLemma ==
  ASSUME NEW T, NEW l \in Seq(T), NEW m \in Seq(T)
  PROVE  /\ l \o m \in Seq(T)
         /\ \A x : Contains(l \o m, x) <=> Contains(l, x) \/ Contains(m, x)
         /\ \A x, y : Before(l \o m, x, y) <=>
              (Before(l, x, y) \/ Before(m, x, y) \/ (Contains(l, x) /\ Contains(m, y)))
         /\ (IsInjective(l) /\ IsInjective(m) /\ \A x : ~ (Contains(l, x) /\ Contains(m, x)))
              => IsInjective(l \o m)
<1> DEFINE c == l \o m
<1>1. /\ c \in Seq(T) /\ Len(c) = Len(l) + Len(m) /\ Len(l) \in Nat /\ Len(m) \in Nat
      /\ \A i \in 1 .. Len(l) + Len(m) : c[i] = IF i <= Len(l) THEN l[i] ELSE m[i - Len(l)]
      /\ DOMAIN c = 1 .. Len(l) + Len(m) /\ DOMAIN l = 1 .. Len(l) /\ DOMAIN m = 1 .. Len(m)
  BY ConcatProperties
<1> HIDE DEF c
<1>2. \A i \in 1 .. Len(l) : i \in DOMAIN c /\ c[i] = l[i]
  BY <1>1
<1>3. \A i \in 1 .. Len(m) : i + Len(l) \in DOMAIN c /\ c[i + Len(l)] = m[i]
  BY <1>1
<1>4. \A i \in DOMAIN c : \/ i \in 1 .. Len(l) /\ c[i] = l[i]
                          \/ i - Len(l) \in 1 .. Len(m) /\ c[i] = m[i - Len(l)] /\ i > Len(l)
  BY <1>1
<1>5. \A x : Contains(c, x) <=> Contains(l, x) \/ Contains(m, x)
  BY <1>1, <1>2, <1>3, <1>4 DEF Contains
<1>6. \A x, y : Before(c, x, y) <=>
        (Before(l, x, y) \/ Before(m, x, y) \/ (Contains(l, x) /\ Contains(m, y)))
  <2> TAKE x, y
  <2>1. ASSUME Before(c, x, y)
        PROVE  Before(l, x, y) \/ Before(m, x, y) \/ (Contains(l, x) /\ Contains(m, y))
    <3>1. PICK i, j \in DOMAIN c : i < j /\ c[i] = x /\ c[j] = y
      BY <2>1 DEF Before
    <3>2. CASE i \in 1 .. Len(l) /\ j \in 1 .. Len(l)
      BY <1>1, <1>2, <3>1, <3>2 DEF Before
    <3>3. CASE i \in 1 .. Len(l) /\ j \notin 1 .. Len(l)
      BY <1>1, <1>2, <1>4, <3>1, <3>3 DEF Contains
    <3>4. CASE i \notin 1 .. Len(l)
      BY <1>1, <1>4, <3>1, <3>4 DEF Before
    <3> QED BY <3>2, <3>3, <3>4
  <2>2. Before(l, x, y) => Before(c, x, y)
    BY <1>1, <1>2 DEF Before
  <2>3. ASSUME Before(m, x, y) PROVE Before(c, x, y)
    <3>1. PICK i, j \in 1 .. Len(m) : i < j /\ m[i] = x /\ m[j] = y
      BY <1>1, <2>3 DEF Before
    <3>2. i + Len(l) < j + Len(l)
      BY <1>1, <3>1
    <3> QED BY <1>3, <3>1, <3>2 DEF Before
  <2>4. ASSUME Contains(l, x), Contains(m, y) PROVE Before(c, x, y)
    <3>1. PICK i \in 1 .. Len(l), j \in 1 .. Len(m) : l[i] = x /\ m[j] = y
      BY <2>4 DEF Contains
    <3>2. i < j + Len(l)
      BY <1>1, <3>1
    <3> QED BY <1>2, <1>3, <3>1, <3>2 DEF Before
  <2> QED BY <2>1, <2>2, <2>3, <2>4
<1>7. (IsInjective(l) /\ IsInjective(m) /\ \A x : ~ (Contains(l, x) /\ Contains(m, x)))
        => IsInjective(c)
  <2> SUFFICES ASSUME IsInjective(l), IsInjective(m),
                      \A x : ~ (Contains(l, x) /\ Contains(m, x)),
                      NEW i \in DOMAIN c, NEW j \in DOMAIN c, c[i] = c[j]
               PROVE  i = j
    BY DEF IsInjective
  <2>1. CASE i \in 1 .. Len(l) /\ j \in 1 .. Len(l)
    BY <1>1, <1>2, <2>1 DEF IsInjective
  <2>2. CASE i \notin 1 .. Len(l) /\ j \notin 1 .. Len(l)
    <3>1. i - Len(l) = j - Len(l)
      BY <1>1, <1>4, <2>2 DEF IsInjective
    <3> QED BY <1>1, <3>1
  <2>3. CASE i \in 1 .. Len(l) /\ j \notin 1 .. Len(l)
    <3>1. c[i] = l[i] /\ j - Len(l) \in 1 .. Len(m) /\ c[j] = m[j - Len(l)]
      BY <1>2, <1>4, <2>3
    <3> QED BY <2>3, <3>1 DEF Contains
  <2>4. CASE i \notin 1 .. Len(l) /\ j \in 1 .. Len(l)
    <3>1. c[j] = l[j] /\ i - Len(l) \in 1 .. Len(m) /\ c[i] = m[i - Len(l)]
      BY <1>2, <1>4, <2>4
    <3> QED BY <2>4, <3>1 DEF Contains
  <2> QED BY <2>1, <2>2, <2>3, <2>4
<1> QED BY <1>1, <1>5, <1>6, <1>7 DEF c

LEMMA ConsLemma ==
  ASSUME NEW T, NEW l \in Seq(T), NEW f \in T
  PROVE  /\ Cons(f, l) \in Seq(T)
         /\ \A x : Contains(Cons(f, l), x) <=> x = f \/ Contains(l, x)
         /\ \A x, y : Before(Cons(f, l), x, y) <=> Before(l, x, y) \/ (x = f /\ Contains(l, y))
         /\ (IsInjective(l) /\ ~ Contains(l, f)) => IsInjective(Cons(f, l))
<1>1. <<f>> \in Seq(T)
  OBVIOUS
<1>2. \A x : Contains(<<f>>, x) <=> x = f
  BY DEF Contains
<1>3. IsInjective(<<f>>) /\ \A x, y : ~ Before(<<f>>, x, y)
  BY DEF IsInjective, Before
<1> HIDE DEF Contains, Before
<1> QED BY <1>1, <1>2, <1>3, ConcatLemma DEF Cons

LEMMA FrontLemma ==
  ASSUME NEW T, NEW l \in Seq(T), l # <<>>
  PROVE  /\ Front(l) \in Seq(T)
         /\ Last(l) \in T /\ Contains(l, Last(l))
         /\ \A x : Contains(Front(l), x) => Contains(l, x)
         /\ \A x : Contains(l, x) => Contains(Front(l), x) \/ x = Last(l)
         /\ \A x, y : Before(Front(l), x, y) => Before(l, x, y)
         /\ \A x : Contains(l, x) /\ x # Last(l) => Before(l, x, Last(l))
         /\ IsInjective(l) => IsInjective(Front(l)) /\ ~ Contains(Front(l), Last(l))
<1> DEFINE n == Len(l)
           m == Front(l)
<1>1. n \in Nat /\ n # 0 /\ DOMAIN l = 1 .. n /\ \A i \in 1 .. n : l[i] \in T
  BY EmptySeq
<1>2. /\ m \in Seq(T) /\ Len(m) = n - 1 /\ DOMAIN m = 1 .. (n - 1)
      /\ \A i \in 1 .. (n - 1) : m[i] = l[i]
  <2>1. \A i \in 1 .. (n - 1) : l[i] \in T
    BY <1>1
  <2>2. /\ SubSeq(l, 1, n - 1) \in Seq(T)
        /\ Len(SubSeq(l, 1, n - 1)) = IF 1 <= n - 1 THEN (n - 1) - 1 + 1 ELSE 0
        /\ \A i \in 1 .. (n - 1) - 1 + 1 : SubSeq(l, 1, n - 1)[i] = l[1 + i - 1]
    BY <1>1, <2>1, SubSeqProperties
  <2>3. m = SubSeq(l, 1, n - 1)
    BY DEF Front
  <2>4. Len(m) = n - 1
    BY <1>1, <2>2, <2>3
  <2> QED BY <1>1, <2>2, <2>3, <2>4
<1>3. Last(l) = l[n]
  BY DEF Last
<1> HIDE DEF n, m
<1>4. Last(l) \in T /\ Contains(l, Last(l))
  BY <1>1, <1>3 DEF Contains, n
<1>5. \A x : Contains(m, x) => Contains(l, x)
  BY <1>1, <1>2 DEF Contains, n
<1>6. \A x : Contains(l, x) => Contains(m, x) \/ x = Last(l)
  BY <1>1, <1>2, <1>3 DEF Contains, n
<1>7. \A x, y : Before(m, x, y) => Before(l, x, y)
  BY <1>1, <1>2 DEF Before
<1>8. \A x : Contains(l, x) /\ x # Last(l) => Before(l, x, Last(l))
  BY <1>1, <1>3 DEF Before, Contains, n
<1>9. IsInjective(l) => IsInjective(m) /\ ~ Contains(m, Last(l))
  BY <1>1, <1>2, <1>3 DEF IsInjective, Contains
<1> QED BY <1>2, <1>4, <1>5, <1>6, <1>7, <1>8, <1>9 DEF m

(* Without duplicates, Before is a strict order on what the list contains. *)
LEMMA OrderLemma ==
  ASSUME NEW T, NEW l \in Seq(T), IsInjective(l)
  PROVE  /\ \A x, y : Before(l, x, y) => Contains(l, x) /\ Contains(l, y) /\ x # y
                                         /\ ~ Before(l, y, x)
         /\ \A x, y : Contains(l, x) /\ Contains(l, y) /\ x # y
                         => Before(l, x, y) \/ Before(l, y, x)
<1>1. Len(l) \in Nat /\ DOMAIN l = 1 .. Len(l)
  OBVIOUS
<1> QED BY <1>1 DEF IsInjective, Before, Contains

LEMMA ToSetSeq ==
  ASSUME NEW T, NEW l \in Seq(T)
  PROVE  \A x : x \in ToSet(l) <=> Contains(l, x)
BY DEF ToSet, Contains

LEMMA LengthLemma ==
  ASSUME NEW T, NEW l \in Seq(T), IsInjective(l)
  PROVE  Len(l) \in Nat /\ IsFiniteSet(ToSet(l)) /\ Cardinality(ToSet(l)) = Len(l)
<1> DEFINE n == Len(l)
<1>1. n \in Nat /\ DOMAIN l = 1 .. n /\ l = [i \in 1 .. n |-> l[i]]
  OBVIOUS
<1> HIDE DEF n
<1>2. l \in Bijection(1 .. n, ToSet(l))
  <2>1. l \in [1 .. n -> ToSet(l)]
    BY <1>1 DEF ToSet
  <2>2. \A x \in ToSet(l) : \E i \in 1 .. n : l[i] = x
    BY <1>1 DEF ToSet
  <2> QED BY <1>1, <2>1, <2>2 DEF Bijection, Injection, Surjection, IsInjective
<1>3. IsFiniteSet(1 .. n) /\ Cardinality(1 .. n) = n
  BY <1>1, UpToN
<1>4. IsFiniteSet(ToSet(l)) /\ Cardinality(ToSet(l)) = Cardinality(1 .. n)
  BY <1>2, <1>3, FS_Bijection DEF ExistsBijection
<1> QED BY <1>1, <1>3, <1>4 DEF n

(* A list without duplicates is known by its contents and its order.       *)
LEMMA SameList ==
  ASSUME NEW T, NEW l \in Seq(T), NEW m \in Seq(T), IsInjective(l), IsInjective(m),
         \A x : Contains(l, x) <=> Contains(m, x),
         \A x, y : Before(l, x, y) => Before(m, x, y)
  PROVE  l = m
<1>1. ToSet(l) = ToSet(m)
  BY ToSetSeq, Zenon
<1>2. Len(l) = Len(m) /\ Len(l) \in Nat
  BY <1>1, LengthLemma
<1> DEFINE D == {k \in 1 .. Len(l) : l[k] # m[k]}
<1>3. ASSUME D # {} PROVE FALSE
  <2>1. D \in SUBSET Nat
    OBVIOUS
  <2>2. PICK k \in D : \A j \in D : k <= j
    BY <1>3, <2>1, LeastElement
  <2>3. k \in 1 .. Len(l) /\ l[k] # m[k] /\ \A j \in 1 .. Len(l) : j < k => l[j] = m[j]
    BY <1>2, <2>2
  <2>4. Contains(m, l[k]) /\ Contains(l, m[k])
    BY <1>2, <2>3 DEF Contains
  <2>5. PICK j \in 1 .. Len(l) : m[j] = l[k]
    BY <1>2, <2>4 DEF Contains
  <2>6. PICK i \in 1 .. Len(l) : l[i] = m[k]
    BY <2>4 DEF Contains
  <2>7. j > k
    BY <1>2, <2>3, <2>5 DEF IsInjective
  <2>8. i > k
    BY <1>2, <2>3, <2>6 DEF IsInjective
  <2>9. Before(m, m[k], l[k]) /\ Before(l, l[k], m[k])
    BY <1>2, <2>3, <2>5, <2>6, <2>7, <2>8 DEF Before
  <2> QED BY <2>9, OrderLemma
<1> QED BY <1>2, <1>3, SeqEqual

------------------------------------------------------------------------------
(***************************************************************************)
(* The lists of ZALP.  Every frame is free or in use, and the frames in    *)
(* use are merged from the clean and the dirty ones.  Between get_frame    *)
(* and push one frame, in F, is in no list.                                *)
(***************************************************************************)
ListsBut(s, F) ==
  /\ s \in [lList : Seq(Frames), cList : Seq(Frames), dList : Seq(Frames), fList : Seq(Frames)]
  /\ IsInjective(s.lList) /\ IsInjective(s.cList)
  /\ IsInjective(s.dList) /\ IsInjective(s.fList)
  /\ \A x \in F : ~ Contains(s.lList, x) /\ ~ Contains(s.fList, x)
  /\ \A x \in Frames \ F : Contains(s.lList, x) <=> ~ Contains(s.fList, x)
  /\ \A x : Contains(s.lList, x) <=> Contains(s.cList, x) \/ Contains(s.dList, x)
  /\ \A x : ~ (Contains(s.cList, x) /\ Contains(s.dList, x))
  /\ \A x, y : Before(s.cList, x, y) \/ Before(s.dList, x, y) => Before(s.lList, x, y)

Lists(s) == ListsBut(s, {})

(* f is the most recently used frame.                                      *)
Newest(s, f) ==
  /\ Contains(s.lList, f)
  /\ \A x : Contains(s.lList, x) /\ x # f => Before(s.lList, f, x)

LEMMA InFrames ==
  ASSUME NEW l \in Seq(Frames)
  PROVE  \A x : Contains(l, x) => x \in Frames
BY DEF Contains

LEMMA StartLists == Lists(Start) /\ \A x : ~ Contains(Start.lList, x) /\ ~ Contains(Start.dList, x)
<1> DEFINE e == [i \in 1 .. DefBufSize |-> i - 1]
<1>1. e \in Seq(Frames) /\ Len(e) = DefBufSize /\ DefBufSize \in Nat
  BY RegionsOK DEF Frames
<1>2. \A x \in Frames : Contains(e, x)
  <2> TAKE x \in Frames
  <2>1. x + 1 \in 1 .. DefBufSize /\ e[x + 1] = x
    BY <1>1 DEF Frames
  <2> HIDE DEF e
  <2> QED BY <1>1, <2>1 DEF Contains
<1>3. IsInjective(e)
  BY DEF IsInjective
<1>4. <<>> \in Seq(Frames) /\ IsInjective(<<>>) /\ \A x, y : ~ Contains(<<>>, x) /\ ~ Before(<<>>, x, y)
  BY DEF IsInjective, Contains, Before
<1>5. Start = [lList |-> <<>>, cList |-> <<>>, dList |-> <<>>, fList |-> e]
  BY DEF Start
<1> HIDE DEF e
<1> QED BY <1>1, <1>2, <1>3, <1>4, <1>5 DEF Lists, ListsBut

LEMMA PushLists ==
  ASSUME NEW s, NEW f \in Frames, NEW d \in BOOLEAN, ListsBut(s, {f})
  PROVE  LET t == push(s, f, d) IN
         /\ Lists(t)
         /\ \A x : Contains(t.dList, x) <=> Contains(s.dList, x) \/ (d /\ x = f)
         /\ \A x : Contains(t.lList, x) <=> Contains(s.lList, x) \/ x = f
         /\ t.fList = s.fList
         /\ Newest(t, f)
<1> DEFINE t == push(s, f, d)
<1>1. /\ s.lList \in Seq(Frames) /\ IsInjective(s.lList)
      /\ s.cList \in Seq(Frames) /\ IsInjective(s.cList)
      /\ s.dList \in Seq(Frames) /\ IsInjective(s.dList)
      /\ ~ Contains(s.lList, f) /\ ~ Contains(s.cList, f) /\ ~ Contains(s.dList, f)
  BY DEF ListsBut
<1>2. /\ Cons(f, s.lList) \in Seq(Frames) /\ IsInjective(Cons(f, s.lList))
      /\ \A x : Contains(Cons(f, s.lList), x) <=> Contains(s.lList, x) \/ x = f
      /\ \A x, y : Before(Cons(f, s.lList), x, y) <=>
                     Before(s.lList, x, y) \/ (x = f /\ Contains(s.lList, y))
  BY <1>1, ConsLemma
<1>3. /\ Cons(f, s.cList) \in Seq(Frames) /\ IsInjective(Cons(f, s.cList))
      /\ \A x : Contains(Cons(f, s.cList), x) <=> Contains(s.cList, x) \/ x = f
      /\ \A x, y : Before(Cons(f, s.cList), x, y) <=>
                     Before(s.cList, x, y) \/ (x = f /\ Contains(s.cList, y))
  BY <1>1, ConsLemma
<1>4. /\ Cons(f, s.dList) \in Seq(Frames) /\ IsInjective(Cons(f, s.dList))
      /\ \A x : Contains(Cons(f, s.dList), x) <=> Contains(s.dList, x) \/ x = f
      /\ \A x, y : Before(Cons(f, s.dList), x, y) <=>
                     Before(s.dList, x, y) \/ (x = f /\ Contains(s.dList, y))
  BY <1>1, ConsLemma
<1>5. /\ t \in [lList : Seq(Frames), cList : Seq(Frames), dList : Seq(Frames), fList : Seq(Frames)]
      /\ t.lList = Cons(f, s.lList) /\ t.fList = s.fList
      /\ IF d THEN t.cList = s.cList /\ t.dList = Cons(f, s.dList)
              ELSE t.cList = Cons(f, s.cList) /\ t.dList = s.dList
  BY <1>2, <1>3, <1>4 DEF push, ListsBut
<1> HIDE DEF t
<1>6. Lists(t)
  <2>1. CASE d
    BY <1>1, <1>2, <1>4, <1>5, <2>1 DEF Lists, ListsBut
  <2>2. CASE ~ d
    BY <1>1, <1>2, <1>3, <1>5, <2>2 DEF Lists, ListsBut
  <2> QED BY <2>1, <2>2
<1>7. \A x : Contains(t.dList, x) <=> Contains(s.dList, x) \/ (d /\ x = f)
  BY <1>4, <1>5
<1> QED BY <1>2, <1>5, <1>6, <1>7 DEF t, Newest

(* get_frame gives away a free frame, or a clean one.                      *)
LEMMA GetFrameLists ==
  ASSUME NEW s, Lists(s), IsFree(s) \/ s.cList # <<>>
  PROVE  LET f == FrameOf(s)
             t == get_frame(s)
         IN /\ f \in Frames
            /\ ListsBut(t, {f})
            /\ t.dList = s.dList
            /\ \A x : Contains(t.lList, x) <=> Contains(s.lList, x) /\ x # f
            /\ ~ Contains(s.dList, f)
            /\ IF IsFree(s) THEN Contains(s.fList, f) ELSE Contains(s.cList, f)
            /\ Contains(s.lList, f) <=> ~ IsFree(s)
<1> DEFINE f == FrameOf(s)
           t == get_frame(s)
<1>1. CASE IsFree(s)
  <2>1. /\ f = Last(s.fList) /\ s.fList # <<>> /\ s.fList \in Seq(Frames)
        /\ t = [s EXCEPT !.fList = Front(@)]
    BY <1>1 DEF FrameOf, get_frame, IsFree, Lists, ListsBut
  <2>2. /\ f \in Frames /\ Contains(s.fList, f)
        /\ Front(s.fList) \in Seq(Frames) /\ IsInjective(Front(s.fList))
        /\ \A x : Contains(Front(s.fList), x) <=> Contains(s.fList, x) /\ x # f
    <3>1. IsInjective(s.fList)
      BY DEF Lists, ListsBut
    <3> QED BY <2>1, <3>1, FrontLemma
  <2>3. /\ t \in [lList : Seq(Frames), cList : Seq(Frames), dList : Seq(Frames), fList : Seq(Frames)]
        /\ t.lList = s.lList /\ t.cList = s.cList /\ t.dList = s.dList
        /\ t.fList = Front(s.fList)
    BY <2>1, <2>2 DEF Lists, ListsBut
  <2> HIDE DEF f, t
  <2>4. ListsBut(t, {f})
    BY <2>2, <2>3 DEF Lists, ListsBut
  <2> QED BY <1>1, <2>2, <2>3, <2>4 DEF Lists, ListsBut, f, t
<1>2. CASE ~ IsFree(s)
  <2>1. /\ f = Last(s.cList) /\ s.cList # <<>> /\ s.cList \in Seq(Frames)
        /\ s.fList = <<>> /\ s.lList \in Seq(Frames)
        /\ t = [s EXCEPT !.cList = Front(@), !.lList = Without(@, {f})]
    BY <1>2 DEF FrameOf, get_frame, IsFree, Lists, ListsBut
  <2>2. /\ f \in Frames /\ Contains(s.cList, f)
        /\ Front(s.cList) \in Seq(Frames) /\ IsInjective(Front(s.cList))
        /\ \A x : Contains(Front(s.cList), x) <=> Contains(s.cList, x) /\ x # f
        /\ \A x, y : Before(Front(s.cList), x, y) => Before(s.cList, x, y)
    <3>1. IsInjective(s.cList)
      BY DEF Lists, ListsBut
    <3> QED BY <2>1, <3>1, FrontLemma
  <2>3. /\ Without(s.lList, {f}) \in Seq(Frames) /\ IsInjective(Without(s.lList, {f}))
        /\ \A x : Contains(Without(s.lList, {f}), x) <=> Contains(s.lList, x) /\ x # f
        /\ \A x, y : Before(Without(s.lList, {f}), x, y) <=>
                       Before(s.lList, x, y) /\ x # f /\ y # f
    BY <2>1, WithoutLemma DEF Lists, ListsBut
  <2>4. /\ t \in [lList : Seq(Frames), cList : Seq(Frames), dList : Seq(Frames), fList : Seq(Frames)]
        /\ t.lList = Without(s.lList, {f}) /\ t.cList = Front(s.cList)
        /\ t.dList = s.dList /\ t.fList = s.fList
    BY <2>1, <2>2, <2>3 DEF Lists, ListsBut
  <2>5. \A x : ~ Contains(s.fList, x)
    BY <2>1 DEF Contains
  <2> HIDE DEF f, t
  <2>6. \A x, y : Before(t.cList, x, y) \/ Before(t.dList, x, y) => Before(t.lList, x, y)
    <3>1. \A x, y : Before(t.cList, x, y) => x # f /\ y # f /\ Before(s.lList, x, y)
      BY <2>2, <2>4, OrderLemma DEF Lists, ListsBut
    <3>2. \A x, y : Before(t.dList, x, y) => x # f /\ y # f /\ Before(s.lList, x, y)
      BY <2>2, <2>4, OrderLemma DEF Lists, ListsBut
    <3> QED BY <2>3, <2>4, <3>1, <3>2
  <2>7. ListsBut(t, {f})
    BY <2>2, <2>3, <2>4, <2>5, <2>6 DEF Lists, ListsBut
  <2> QED BY <1>2, <2>2, <2>3, <2>4, <2>7 DEF Lists, ListsBut, f, t
<1> QED BY <1>1, <1>2

(* A hit moves the frame to the front, in the list it is in.               *)
LEMMA UpdateLists ==
  ASSUME NEW s, NEW f \in Frames, NEW d \in BOOLEAN, Lists(s),
         Contains(s.lList, f), d <=> Contains(s.dList, f)
  PROVE  LET t == update(s, f, d) IN
         /\ Lists(t)
         /\ \A x : Contains(t.dList, x) <=> Contains(s.dList, x)
         /\ \A x : Contains(t.lList, x) <=> Contains(s.lList, x)
         /\ t.fList = s.fList
         /\ Newest(t, f)
<1> DEFINE r == IF Contains(s.cList, f)
                THEN [s EXCEPT !.lList = Without(@, {f}), !.cList = Without(@, {f})]
                ELSE [s EXCEPT !.lList = Without(@, {f}), !.dList = Without(@, {f})]
<1>1. /\ s.lList \in Seq(Frames) /\ IsInjective(s.lList)
      /\ s.cList \in Seq(Frames) /\ IsInjective(s.cList)
      /\ s.dList \in Seq(Frames) /\ IsInjective(s.dList)
      /\ ~ Contains(s.fList, f)
  BY DEF Lists, ListsBut
<1>2. /\ Without(s.lList, {f}) \in Seq(Frames) /\ IsInjective(Without(s.lList, {f}))
      /\ \A x : Contains(Without(s.lList, {f}), x) <=> Contains(s.lList, x) /\ x # f
      /\ \A x, y : Before(Without(s.lList, {f}), x, y) <=>
                     Before(s.lList, x, y) /\ x # f /\ y # f
  BY <1>1, WithoutOne
<1>3. /\ Without(s.cList, {f}) \in Seq(Frames) /\ IsInjective(Without(s.cList, {f}))
      /\ \A x : Contains(Without(s.cList, {f}), x) <=> Contains(s.cList, x) /\ x # f
      /\ \A x, y : Before(Without(s.cList, {f}), x, y) <=>
                     Before(s.cList, x, y) /\ x # f /\ y # f
  BY <1>1, WithoutOne
<1>4. /\ Without(s.dList, {f}) \in Seq(Frames) /\ IsInjective(Without(s.dList, {f}))
      /\ \A x : Contains(Without(s.dList, {f}), x) <=> Contains(s.dList, x) /\ x # f
      /\ \A x, y : Before(Without(s.dList, {f}), x, y) <=>
                     Before(s.dList, x, y) /\ x # f /\ y # f
  BY <1>1, WithoutOne
<1>5. /\ r \in [lList : Seq(Frames), cList : Seq(Frames), dList : Seq(Frames), fList : Seq(Frames)]
      /\ r.lList = Without(s.lList, {f}) /\ r.fList = s.fList
      /\ IF Contains(s.cList, f)
         THEN r.cList = Without(s.cList, {f}) /\ r.dList = s.dList
         ELSE r.cList = s.cList /\ r.dList = Without(s.dList, {f})
  BY <1>2, <1>3, <1>4 DEF Lists, ListsBut
<1>6. update(s, f, d) = push(r, f, d)
  BY DEF update
<1> HIDE DEF r
<1>7. \A x, y : Before(r.cList, x, y) \/ Before(r.dList, x, y) => Before(r.lList, x, y)
  <2>1. \A x, y : Before(s.cList, x, y) => Contains(s.cList, x) /\ Contains(s.cList, y)
    BY <1>1, OrderLemma
  <2>2. \A x, y : Before(s.dList, x, y) => Contains(s.dList, x) /\ Contains(s.dList, y)
    BY <1>1, OrderLemma
  <2>3. CASE Contains(s.cList, f)
    BY <1>2, <1>3, <1>5, <2>2, <2>3 DEF Lists, ListsBut
  <2>4. CASE ~ Contains(s.cList, f)
    BY <1>2, <1>4, <1>5, <2>1, <2>4 DEF Lists, ListsBut
  <2> QED BY <2>3, <2>4
<1>8. ListsBut(r, {f})
  <2>1. CASE Contains(s.cList, f)
    BY <1>1, <1>2, <1>3, <1>5, <1>7, <2>1 DEF Lists, ListsBut
  <2>2. CASE ~ Contains(s.cList, f)
    BY <1>1, <1>2, <1>4, <1>5, <1>7, <2>2 DEF Lists, ListsBut
  <2> QED BY <2>1, <2>2
<1>9. \A x : Contains(r.dList, x) \/ (d /\ x = f) <=> Contains(s.dList, x)
  <2>1. CASE Contains(s.cList, f)
    BY <1>5, <2>1 DEF Lists, ListsBut
  <2>2. CASE ~ Contains(s.cList, f)
    BY <1>4, <1>5, <2>2 DEF Lists, ListsBut
  <2> QED BY <2>1, <2>2
<1> DEFINE t == push(r, f, d)
<1>10. /\ Lists(t) /\ t.fList = r.fList /\ Newest(t, f)
       /\ \A x : Contains(t.dList, x) <=> Contains(r.dList, x) \/ (d /\ x = f)
       /\ \A x : Contains(t.lList, x) <=> Contains(r.lList, x) \/ x = f
  BY <1>8, PushLists
<1> HIDE DEF t
<1>11. \A x : Contains(t.lList, x) <=> Contains(s.lList, x)
  BY <1>2, <1>5, <1>10
<1> QED BY <1>5, <1>6, <1>9, <1>10, <1>11 DEF t

LEMMA SetDirtyLists ==
  ASSUME NEW s, NEW f \in Frames, Lists(s), Newest(s, f)
  PROVE  LET t == set_dirty(s, f) IN
         /\ Lists(t)
         /\ \A x : Contains(t.dList, x) <=> Contains(s.dList, x) \/ x = f
         /\ t.lList = s.lList /\ t.fList = s.fList
<1> DEFINE t == set_dirty(s, f)
<1>1. /\ s.lList \in Seq(Frames) /\ IsInjective(s.lList)
      /\ s.cList \in Seq(Frames) /\ IsInjective(s.cList)
      /\ s.dList \in Seq(Frames) /\ IsInjective(s.dList)
      /\ Contains(s.lList, f)
  BY DEF Lists, ListsBut, Newest
<1>2. /\ Without(s.cList, {f}) \in Seq(Frames) /\ IsInjective(Without(s.cList, {f}))
      /\ \A x : Contains(Without(s.cList, {f}), x) <=> Contains(s.cList, x) /\ x # f
      /\ \A x, y : Before(Without(s.cList, {f}), x, y) => Before(s.cList, x, y)
  BY <1>1, WithoutLemma
<1> DEFINE e == IF Contains(s.dList, f) THEN s.dList ELSE Cons(f, s.dList)
<1>3. /\ e \in Seq(Frames) /\ IsInjective(e)
      /\ \A x : Contains(e, x) <=> Contains(s.dList, x) \/ x = f
      /\ \A x, y : Before(e, x, y) =>
           Before(s.dList, x, y) \/ (x = f /\ Contains(s.dList, y) /\ y # f)
  BY <1>1, ConsLemma
<1>4. /\ t \in [lList : Seq(Frames), cList : Seq(Frames), dList : Seq(Frames), fList : Seq(Frames)]
      /\ t.lList = s.lList /\ t.fList = s.fList
      /\ t.cList = Without(s.cList, {f}) /\ t.dList = e
  BY <1>2, <1>3 DEF set_dirty, Lists, ListsBut
<1> HIDE DEF t, e
<1>5. \A x, y : Before(t.dList, x, y) => Before(t.lList, x, y)
  BY <1>3, <1>4 DEF Lists, ListsBut, Newest
<1>6. Lists(t)
  BY <1>1, <1>2, <1>3, <1>4, <1>5 DEF Lists, ListsBut
<1> QED BY <1>3, <1>4, <1>6 DEF t

------------------------------------------------------------------------------
(***************************************************************************)
(* Flushing.  The victims are dirty, in the order of dList.                *)
(***************************************************************************)
DirtyVictims(s, vl) ==
  /\ vl \in Seq(Frames) /\ IsInjective(vl)
  /\ \A x : Contains(vl, x) => Contains(s.dList, x)
  /\ \A x, y : Before(vl, x, y) => Before(s.dList, x, y)

LEMMA UpdateDirtyLists ==
  ASSUME NEW s, NEW vl, Lists(s), DirtyVictims(s, vl)
  PROVE  LET t == update_dirty(s, vl) IN
         /\ Lists(t)
         /\ \A x : Contains(t.dList, x) <=> Contains(s.dList, x) /\ ~ Contains(vl, x)
         /\ \A x : Contains(t.lList, x) <=> Contains(s.lList, x) /\ ~ Contains(vl, x)
         /\ t.fList = s.fList \o vl
<1> DEFINE t == update_dirty(s, vl)
           V == ToSet(vl)
<1>1. /\ s.lList \in Seq(Frames) /\ IsInjective(s.lList)
      /\ s.dList \in Seq(Frames) /\ IsInjective(s.dList)
      /\ s.cList \in Seq(Frames) /\ IsInjective(s.cList)
      /\ s.fList \in Seq(Frames) /\ IsInjective(s.fList)
      /\ vl \in Seq(Frames) /\ IsInjective(vl)
  BY DEF Lists, ListsBut, DirtyVictims
<1>2. \A x : x \in V <=> Contains(vl, x)
  BY <1>1, ToSetSeq
<1> HIDE DEF V
<1>3. /\ Without(s.lList, V) \in Seq(Frames) /\ IsInjective(Without(s.lList, V))
      /\ \A x : Contains(Without(s.lList, V), x) <=> Contains(s.lList, x) /\ x \notin V
      /\ \A x, y : Before(Without(s.lList, V), x, y) <=>
                     Before(s.lList, x, y) /\ x \notin V /\ y \notin V
  BY <1>1, WithoutLemma
<1>4. /\ Without(s.dList, V) \in Seq(Frames) /\ IsInjective(Without(s.dList, V))
      /\ \A x : Contains(Without(s.dList, V), x) <=> Contains(s.dList, x) /\ x \notin V
      /\ \A x, y : Before(Without(s.dList, V), x, y) <=>
                     Before(s.dList, x, y) /\ x \notin V /\ y \notin V
  BY <1>1, WithoutLemma
<1>5. \A x : ~ (Contains(s.fList, x) /\ Contains(vl, x))
  <2>1. \A x : Contains(vl, x) => x \in Frames
    BY <1>1, InFrames
  <2> QED BY <2>1 DEF Lists, ListsBut, DirtyVictims
<1>6. /\ s.fList \o vl \in Seq(Frames) /\ IsInjective(s.fList \o vl)
      /\ \A x : Contains(s.fList \o vl, x) <=> Contains(s.fList, x) \/ Contains(vl, x)
  BY <1>1, <1>5, ConcatLemma
<1>7. /\ t \in [lList : Seq(Frames), cList : Seq(Frames), dList : Seq(Frames), fList : Seq(Frames)]
      /\ t.lList = Without(s.lList, V) /\ t.cList = s.cList
      /\ t.dList = Without(s.dList, V) /\ t.fList = s.fList \o vl
  BY <1>3, <1>4, <1>6 DEF update_dirty, Lists, ListsBut, V
<1> HIDE DEF t
<1>8. \A x : Contains(s.cList, x) => x \notin V
  BY <1>2 DEF Lists, ListsBut, DirtyVictims
<1>9. \A x, y : Before(t.cList, x, y) \/ Before(t.dList, x, y) => Before(t.lList, x, y)
  <2>1. \A x, y : Before(s.cList, x, y) => Contains(s.cList, x) /\ Contains(s.cList, y)
    BY <1>1, OrderLemma
  <2> QED BY <1>3, <1>4, <1>7, <1>8, <2>1 DEF Lists, ListsBut
<1>10. \A x \in Frames : Contains(t.lList, x) <=> ~ Contains(t.fList, x)
  BY <1>2, <1>3, <1>6, <1>7 DEF Lists, ListsBut
<1>11. \A x : Contains(t.lList, x) <=> Contains(t.cList, x) \/ Contains(t.dList, x)
  BY <1>3, <1>4, <1>7, <1>8 DEF Lists, ListsBut
<1>12. \A x : ~ (Contains(t.cList, x) /\ Contains(t.dList, x))
  BY <1>4, <1>7 DEF Lists, ListsBut
<1>13. Lists(t)
  BY <1>1, <1>3, <1>4, <1>6, <1>7, <1>9, <1>10, <1>11, <1>12 DEF Lists, ListsBut
<1> QED BY <1>2, <1>3, <1>4, <1>7, <1>13 DEF t

(* Frames that stay in use go behind the clean ones: they must have been   *)
(* used less recently than all of those.                                   *)
LEMMA DirtyToCleanLists ==
  ASSUME NEW s, NEW vl, Lists(s), DirtyVictims(s, vl),
         \A x, y : Contains(s.cList, x) /\ Contains(vl, y) => Before(s.lList, x, y)
  PROVE  LET t == dirty_to_clean(s, vl) IN
         /\ Lists(t)
         /\ \A x : Contains(t.dList, x) <=> Contains(s.dList, x) /\ ~ Contains(vl, x)
         /\ t.lList = s.lList /\ t.fList = s.fList
         /\ t.cList = s.cList \o vl
<1> DEFINE t == dirty_to_clean(s, vl)
           V == ToSet(vl)
<1>1. /\ s.lList \in Seq(Frames) /\ IsInjective(s.lList)
      /\ s.dList \in Seq(Frames) /\ IsInjective(s.dList)
      /\ s.cList \in Seq(Frames) /\ IsInjective(s.cList)
      /\ vl \in Seq(Frames) /\ IsInjective(vl)
  BY DEF Lists, ListsBut, DirtyVictims
<1>2. \A x : x \in V <=> Contains(vl, x)
  BY <1>1, ToSetSeq
<1> HIDE DEF V
<1>3. /\ Without(s.dList, V) \in Seq(Frames) /\ IsInjective(Without(s.dList, V))
      /\ \A x : Contains(Without(s.dList, V), x) <=> Contains(s.dList, x) /\ x \notin V
      /\ \A x, y : Before(Without(s.dList, V), x, y) => Before(s.dList, x, y)
  BY <1>1, WithoutLemma
<1>4. \A x : ~ (Contains(s.cList, x) /\ Contains(vl, x))
  BY DEF Lists, ListsBut, DirtyVictims
<1>5. /\ s.cList \o vl \in Seq(Frames) /\ IsInjective(s.cList \o vl)
      /\ \A x : Contains(s.cList \o vl, x) <=> Contains(s.cList, x) \/ Contains(vl, x)
      /\ \A x, y : Before(s.cList \o vl, x, y) <=>
           (Before(s.cList, x, y) \/ Before(vl, x, y) \/ (Contains(s.cList, x) /\ Contains(vl, y)))
  BY <1>1, <1>4, ConcatLemma
<1>6. /\ t \in [lList : Seq(Frames), cList : Seq(Frames), dList : Seq(Frames), fList : Seq(Frames)]
      /\ t.lList = s.lList /\ t.cList = s.cList \o vl
      /\ t.dList = Without(s.dList, V) /\ t.fList = s.fList
  BY <1>3, <1>5 DEF dirty_to_clean, Lists, ListsBut, V
<1> HIDE DEF t
<1>7. \A x, y : Before(t.cList, x, y) \/ Before(t.dList, x, y) => Before(t.lList, x, y)
  BY <1>3, <1>5, <1>6 DEF Lists, ListsBut, DirtyVictims
<1>8. \A x : Contains(t.lList, x) <=> Contains(t.cList, x) \/ Contains(t.dList, x)
  BY <1>2, <1>3, <1>5, <1>6 DEF Lists, ListsBut, DirtyVictims
<1>9. \A x : ~ (Contains(t.cList, x) /\ Contains(t.dList, x))
  BY <1>2, <1>3, <1>5, <1>6 DEF Lists, ListsBut
<1>10. Lists(t)
  BY <1>1, <1>3, <1>5, <1>6, <1>7, <1>8, <1>9 DEF Lists, ListsBut
<1> QED BY <1>2, <1>3, <1>6, <1>10 DEF t

------------------------------------------------------------------------------
(***************************************************************************)
(* The assertions of is_correct hold of every state of the lists.          *)
(***************************************************************************)
LEMMA Merged ==
  ASSUME NEW T, NEW l \in Seq(T), NEW c \in Seq(T), IsInjective(l), IsInjective(c),
         \A x : Contains(c, x) => Contains(l, x),
         \A x, y : Before(c, x, y) => Before(l, x, y)
  PROVE  c = Only(l, ToSet(c))
<1> DEFINE m == Only(l, ToSet(c))
<1>1. \A x : x \in ToSet(c) <=> Contains(c, x)
  BY ToSetSeq
<1>2. /\ m \in Seq(T) /\ IsInjective(m)
      /\ \A x : Contains(m, x) <=> Contains(l, x) /\ x \in ToSet(c)
      /\ \A x, y : Before(m, x, y) <=> Before(l, x, y) /\ x \in ToSet(c) /\ y \in ToSet(c)
  BY OnlyLemma
<1> HIDE DEF m
<1>3. \A x, y : Before(c, x, y) => Contains(c, x) /\ Contains(c, y)
  BY OrderLemma
<1>4. \A x : Contains(c, x) <=> Contains(m, x)
  BY <1>1, <1>2
<1>5. \A x, y : Before(c, x, y) => Before(m, x, y)
  BY <1>1, <1>2, <1>3
<1> QED BY <1>2, <1>4, <1>5, SameList DEF m

LEMMA CorrectLists ==
  ASSUME NEW s, Lists(s)
  PROVE  is_correct(s)
<1>1. /\ s.lList \in Seq(Frames) /\ IsInjective(s.lList)
      /\ s.cList \in Seq(Frames) /\ IsInjective(s.cList)
      /\ s.dList \in Seq(Frames) /\ IsInjective(s.dList)
  BY DEF Lists, ListsBut
<1>2. /\ \A x : Contains(s.cList, x) => Contains(s.lList, x)
      /\ \A x : Contains(s.dList, x) => Contains(s.lList, x)
      /\ \A x, y : Before(s.cList, x, y) => Before(s.lList, x, y)
      /\ \A x, y : Before(s.dList, x, y) => Before(s.lList, x, y)
  BY DEF Lists, ListsBut
<1>3. s.cList = Only(s.lList, ToSet(s.cList))
  BY <1>1, <1>2, Merged
<1>4. s.dList = Only(s.lList, ToSet(s.dList))
  BY <1>1, <1>2, Merged
<1>5. Len(s.lList) = Len(s.cList) + Len(s.dList)
  <2>1. /\ \A x : x \in ToSet(s.lList) <=> Contains(s.lList, x)
        /\ \A x : x \in ToSet(s.cList) <=> Contains(s.cList, x)
        /\ \A x : x \in ToSet(s.dList) <=> Contains(s.dList, x)
    BY <1>1, ToSetSeq
  <2>2. ToSet(s.lList) = ToSet(s.cList) \cup ToSet(s.dList)
    BY <2>1 DEF Lists, ListsBut
  <2>3. ToSet(s.cList) \cap ToSet(s.dList) = {}
    BY <2>1 DEF Lists, ListsBut
  <2>4. /\ Cardinality(ToSet(s.lList)) = Len(s.lList)
        /\ Cardinality(ToSet(s.cList)) = Len(s.cList) /\ IsFiniteSet(ToSet(s.cList))
        /\ Cardinality(ToSet(s.dList)) = Len(s.dList) /\ IsFiniteSet(ToSet(s.dList))
        /\ Len(s.cList) \in Nat /\ Len(s.dList) \in Nat
    BY <1>1, LengthLemma
  <2>5. Cardinality(ToSet(s.cList) \cup ToSet(s.dList)) =
          Cardinality(ToSet(s.cList)) + Cardinality(ToSet(s.dList))
    BY <2>3, <2>4, DisjointUnion
  <2> QED BY <2>2, <2>4, <2>5
<1> QED BY <1>3, <1>4, <1>5 DEF is_correct

------------------------------------------------------------------------------
(***************************************************************************)
(* Which frames are flushed or reused: those beyond the working region.    *)
(***************************************************************************)
Beyond(s, x) == \E i \in WorkRegSize + 1 .. Len(s.lList) : s.lList[i] = x

LEMMA Sizes == /\ WorkRegSize \in Nat /\ WorkRegSize # 0 /\ DefBufSize \in Nat
               /\ WorkRegSize < DefBufSize /\ Batch \in Nat /\ Batch # 0
               /\ DefBufSize = WorkRegSize + Batch
BY RegionsOK DEF Batch

(* With no free frame, every frame is in lList.                            *)
LEMMA FullLists ==
  ASSUME NEW s, Lists(s), s.fList = <<>>
  PROVE  Len(s.lList) = DefBufSize /\ \A x \in Frames : Contains(s.lList, x)
<1>1. s.lList \in Seq(Frames) /\ IsInjective(s.lList)
  BY DEF Lists, ListsBut
<1>2. \A x \in Frames : Contains(s.lList, x)
  <2>1. \A x : ~ Contains(s.fList, x)
    BY DEF Contains
  <2> QED BY <2>1 DEF Lists, ListsBut
<1>3. ToSet(s.lList) = Frames
  BY <1>1, <1>2, InFrames, ToSetSeq
<1>4. Cardinality(0 .. DefBufSize - 1) = DefBufSize
  <2>1. 0 \in Int /\ DefBufSize - 1 \in Int /\ ~ (0 > DefBufSize - 1)
    BY Sizes
  <2>2. Cardinality(0 .. DefBufSize - 1) = DefBufSize - 1 - 0 + 1
    BY <2>1, FS_Interval
  <2> QED BY <2>2, Sizes
<1> QED BY <1>1, <1>2, <1>3, <1>4, LengthLemma DEF Frames

LEMMA PlaceIs ==
  ASSUME NEW T, NEW l \in Seq(T), IsInjective(l), NEW i \in DOMAIN l
  PROVE  Place(l, l[i]) = i
<1> DEFINE I == {j \in 1 .. Len(l) : l[j] = l[i]}
<1>1. i \in 1 .. Len(l)
  OBVIOUS
<1>2. I = {i}
  BY <1>1 DEF IsInjective
<1>3. Place(l, l[i]) = IF I # {} THEN Min(I) ELSE 0
  BY DEF Place, SelectInSeq
<1>4. Min({i}) = i
  BY <1>1 DEF Min
<1> HIDE DEF I
<1> QED BY <1>2, <1>3, <1>4

LEMMA LastContained ==
  ASSUME NEW T, NEW l \in Seq(T), l # <<>>
  PROVE  Len(l) \in DOMAIN l /\ Last(l) = l[Len(l)] /\ Contains(l, Last(l))
BY EmptySeq DEF Last, Contains

(* An element of a subsequence does not come earlier than its rank.        *)
LEMMA RankBelow ==
  ASSUME NEW n \in Nat, NEW K \in SUBSET (1 .. n), NEW i \in K
  PROVE  Rank(K, i) <= i
<1>1. i \in Nat /\ IsFiniteSet(1 .. i) /\ Cardinality(1 .. i) = i
  BY UpToN
<1>2. {j \in K : j <= i} \in SUBSET (1 .. i)
  <2>1. \A j \in K : j \in Int /\ j >= 1
    OBVIOUS
  <2>2. \A j \in K : j <= i => j \in 1 .. i
    BY <1>1, <2>1
  <2> QED BY <2>2
<1> QED BY <1>1, <1>2, FS_Subset DEF Rank

(* If K holds every position from i on, the rank of i is counted from the  *)
(* end.                                                                    *)
LEMMA RankFromEnd ==
  ASSUME NEW n \in Nat, NEW K \in SUBSET (1 .. n), NEW i \in 1 .. n, i .. n \subseteq K
  PROVE  Rank(K, i) = Cardinality(K) - (n - i) /\ Cardinality(K) \in Nat
<1> DEFINE A == {j \in K : j <= i}
           B == i + 1 .. n
<1>1. i \in Nat /\ IsFiniteSet(B) /\ Cardinality(B) = n - i
  <2>1. IsFiniteSet(B) /\ Cardinality(B) = IF i + 1 > n THEN 0 ELSE n - (i + 1) + 1
    BY FS_Interval
  <2> QED BY <2>1
<1>2. IsFiniteSet(K)
  BY UpToN, FS_Subset
<1>3. B \subseteq K /\ A = K \ B /\ K \cap B = B
  <2>1. \A j \in K : j \in Int /\ j <= n
    OBVIOUS
  <2>2. \A j \in B : j \in K /\ j \in Int /\ ~ (j <= i)
    BY <1>1
  <2>3. \A j \in K : ~ (j <= i) => j \in B
    BY <1>1, <2>1
  <2>4. \A j : j \in A <=> j \in K /\ j \notin B
    BY <2>2, <2>3
  <2> QED BY <2>2, <2>4
<1>4. Cardinality(K \ B) = Cardinality(K) - Cardinality(K \cap B)
  BY <1>2, FS_Difference
<1>5. Cardinality(K) \in Nat
  BY <1>2, FS_CardinalityType
<1> HIDE DEF A, B
<1> QED BY <1>1, <1>3, <1>4, <1>5 DEF Rank, A

(* When is_evict says so, no clean frame lies beyond the working region.   *)
LEMMA BeyondIsDirty ==
  ASSUME NEW s, Lists(s), is_evict(s)
  PROVE  /\ Len(s.lList) = DefBufSize
         /\ \A i \in WorkRegSize + 1 .. DefBufSize : /\ ~ Contains(s.cList, s.lList[i])
                                                    /\ Contains(s.dList, s.lList[i])
         /\ \A x, y : Contains(s.cList, x) /\ Beyond(s, y) => Before(s.lList, x, y)
<1>1. /\ s.lList \in Seq(Frames) /\ IsInjective(s.lList) /\ s.fList = <<>>
      /\ s.cList \in Seq(Frames) /\ IsInjective(s.cList)
      /\ s.cList # <<>> => Place(s.lList, Last(s.cList)) - 1 < WorkRegSize
  BY DEF Lists, ListsBut, is_evict
<1>2. Len(s.lList) = DefBufSize /\ DOMAIN s.lList = 1 .. DefBufSize
  BY <1>1, FullLists
<1>3. \A k \in 1 .. DefBufSize : Contains(s.cList, s.lList[k]) => k <= WorkRegSize
  <2> TAKE k \in 1 .. DefBufSize
  <2> HAVE Contains(s.cList, s.lList[k])
  <2> DEFINE z == Last(s.cList)
  <2>1. s.cList # <<>>
    BY DEF Contains
  <2>2. Contains(s.cList, z)
    BY <1>1, <2>1, FrontLemma
  <2>3. PICK p \in 1 .. DefBufSize : s.lList[p] = z
    BY <1>2, <2>2 DEF Lists, ListsBut, Contains
  <2>4. Place(s.lList, z) = p
    BY <1>1, <1>2, <2>3, PlaceIs
  <2>5. p <= WorkRegSize
    BY <1>1, <2>1, <2>4, Sizes
  <2>6. CASE s.lList[k] = z
    BY <1>1, <1>2, <2>3, <2>5, <2>6 DEF IsInjective
  <2>7. CASE s.lList[k] # z
    <3>1. Before(s.cList, s.lList[k], z)
      BY <1>1, <2>1, <2>7, FrontLemma
    <3>2. Before(s.lList, s.lList[k], z)
      BY <3>1 DEF Lists, ListsBut
    <3>3. PICK i, j \in 1 .. DefBufSize : i < j /\ s.lList[i] = s.lList[k] /\ s.lList[j] = z
      BY <1>2, <3>2 DEF Before
    <3>4. i = k /\ j = p
      BY <1>1, <1>2, <2>3, <3>3 DEF IsInjective
    <3> QED BY <2>5, <3>3, <3>4, Sizes
  <2> QED BY <2>6, <2>7
<1>4. \A i \in WorkRegSize + 1 .. DefBufSize : /\ ~ Contains(s.cList, s.lList[i])
                                              /\ Contains(s.dList, s.lList[i])
  <2> TAKE i \in WorkRegSize + 1 .. DefBufSize
  <2>1. i \in 1 .. DefBufSize /\ ~ (i <= WorkRegSize)
    BY Sizes
  <2>2. Contains(s.lList, s.lList[i])
    BY <1>2, <2>1 DEF Contains
  <2> QED BY <1>3, <2>1, <2>2 DEF Lists, ListsBut
<1>5. \A x, y : Contains(s.cList, x) /\ Beyond(s, y) => Before(s.lList, x, y)
  <2> SUFFICES ASSUME NEW x, NEW y, Contains(s.cList, x), Beyond(s, y)
               PROVE  Before(s.lList, x, y)
    OBVIOUS
  <2>1. PICK i \in WorkRegSize + 1 .. DefBufSize : s.lList[i] = y
    BY <1>2 DEF Beyond
  <2>2. PICK k \in 1 .. DefBufSize : s.lList[k] = x
    BY <1>2 DEF Lists, ListsBut, Contains
  <2>3. k <= WorkRegSize
    BY <1>3, <2>2
  <2>4. k < i /\ i \in 1 .. DefBufSize
    BY <2>3, Sizes
  <2> QED BY <1>2, <2>1, <2>2, <2>4 DEF Before
<1> QED BY <1>2, <1>4, <1>5

(* The candidates are the frames beyond the working region, in order.      *)
LEMMA Candidates ==
  ASSUME NEW s, Lists(s), is_evict(s)
  PROVE  /\ Len(s.dList) \in Nat /\ Len(s.dList) >= Batch
         /\ \A k \in 1 .. Batch :
              s.dList[Len(s.dList) - Batch + k] = s.lList[WorkRegSize + k]
<1>1. /\ s.lList \in Seq(Frames) /\ IsInjective(s.lList)
      /\ s.dList \in Seq(Frames) /\ IsInjective(s.dList)
  BY DEF Lists, ListsBut
<1>2. s.dList = Only(s.lList, ToSet(s.dList))
  BY CorrectLists DEF is_correct
<1>3. /\ Len(s.lList) = DefBufSize
      /\ \A i \in WorkRegSize + 1 .. DefBufSize : Contains(s.dList, s.lList[i])
  BY BeyondIsDirty
<1> DEFINE K == PositionsIn(s.lList, ToSet(s.dList))
<1>4. /\ Len(s.dList) = Cardinality(K) /\ Cardinality(K) \in Nat
      /\ \A i \in K : s.dList[Rank(K, i)] = s.lList[i]
  BY <1>1, <1>2, OnlyIs
<1>5. K \in SUBSET (1 .. DefBufSize)
  BY <1>1, <1>3 DEF PositionsIn
<1>6. \A i \in WorkRegSize + 1 .. DefBufSize : i \in K
  <2> TAKE i \in WorkRegSize + 1 .. DefBufSize
  <2>1. i \in DOMAIN s.lList
    BY <1>1, <1>3, Sizes
  <2>2. s.lList[i] \in ToSet(s.dList)
    BY <1>1, <1>3, ToSetSeq
  <2> QED BY <2>1, <2>2 DEF PositionsIn
<1> HIDE DEF K
<1>7. Batch <= Cardinality(K)
  <2>1. /\ IsFiniteSet(WorkRegSize + 1 .. DefBufSize)
        /\ Cardinality(WorkRegSize + 1 .. DefBufSize) = Batch
    <3>1. WorkRegSize + 1 \in Int /\ DefBufSize \in Int /\ ~ (WorkRegSize + 1 > DefBufSize)
      BY Sizes
    <3>2. /\ IsFiniteSet(WorkRegSize + 1 .. DefBufSize)
          /\ Cardinality(WorkRegSize + 1 .. DefBufSize) = DefBufSize - (WorkRegSize + 1) + 1
      BY <3>1, FS_Interval
    <3> QED BY <3>2, Sizes
  <2>2. IsFiniteSet(K)
    <3>1. IsFiniteSet(1 .. DefBufSize)
      BY UpToN, Sizes
    <3> QED BY <1>5, <3>1, FS_Subset
  <2>3. (WorkRegSize + 1 .. DefBufSize) \in SUBSET K
    BY <1>6
  <2>4. Cardinality(WorkRegSize + 1 .. DefBufSize) <= Cardinality(K)
    BY <2>2, <2>3, FS_Subset
  <2> QED BY <2>1, <2>4
<1>8. \A k \in 1 .. Batch : s.dList[Len(s.dList) - Batch + k] = s.lList[WorkRegSize + k]
  <2> TAKE k \in 1 .. Batch
  <2> DEFINE i == WorkRegSize + k
  <2>1. i \in 1 .. DefBufSize /\ i \in WorkRegSize + 1 .. DefBufSize
    BY Sizes
  <2>2. i .. DefBufSize \subseteq K
    <3>1. \A j \in i .. DefBufSize : j \in WorkRegSize + 1 .. DefBufSize
      BY Sizes
    <3> QED BY <1>6, <3>1
  <2>3. Rank(K, i) = Cardinality(K) - (DefBufSize - i)
    BY <1>5, <2>1, <2>2, Sizes, RankFromEnd
  <2>4. Rank(K, i) = Len(s.dList) - Batch + k
    BY <1>4, <2>3, Sizes
  <2> QED BY <1>4, <1>6, <2>1, <2>4
<1> QED BY <1>4, <1>7, <1>8

(* When is_evict says so, get_candidate, which takes the end of dList,     *)
(* finds the frames beyond the working region in the order of lList.       *)
THEOREM CandidateVictims ==
  ASSUME NEW s, Lists(s), is_evict(s)
  PROVE  /\ DirtyVictims(s, get_candidate(s))
         /\ Len(get_candidate(s)) = Batch
         /\ \A k \in 1 .. Batch : get_candidate(s)[k] = s.lList[WorkRegSize + k]
         /\ \A x : Contains(get_candidate(s), x) <=> Beyond(s, x)
<1> DEFINE c == get_candidate(s)
           n == Len(s.dList)
<1>1. /\ s.dList \in Seq(Frames) /\ IsInjective(s.dList) /\ s.lList \in Seq(Frames)
      /\ n \in Nat /\ n >= Batch /\ DOMAIN s.dList = 1 .. n
      /\ \A i \in 1 .. n : s.dList[i] \in Frames
  BY Candidates DEF Lists, ListsBut
<1>2. \A k \in 1 .. Batch : s.dList[n - Batch + k] = s.lList[WorkRegSize + k]
  BY Candidates
<1>3. /\ c \in Seq(Frames) /\ Len(c) = Batch /\ DOMAIN c = 1 .. Batch
      /\ \A k \in 1 .. Batch : c[k] = s.dList[n - Batch + k]
  <2>1. n - Batch + 1 \in Int /\ n \in Int /\ n - Batch + 1 <= n
    BY <1>1, Sizes
  <2>2. \A i \in n - Batch + 1 .. n : s.dList[i] \in Frames
    BY <1>1, Sizes
  <2>3. /\ SubSeq(s.dList, n - Batch + 1, n) \in Seq(Frames)
        /\ Len(SubSeq(s.dList, n - Batch + 1, n)) = n - (n - Batch + 1) + 1
        /\ \A i \in 1 .. n - (n - Batch + 1) + 1 :
             SubSeq(s.dList, n - Batch + 1, n)[i] = s.dList[(n - Batch + 1) + i - 1]
    BY <2>1, <2>2, SubSeqProperties
  <2>4. n - (n - Batch + 1) + 1 = Batch
    BY <1>1, Sizes
  <2>5. \A i \in 1 .. Batch : (n - Batch + 1) + i - 1 = n - Batch + i
    BY <1>1, Sizes
  <2>6. c = SubSeq(s.dList, n - Batch + 1, n)
    BY DEF get_candidate
  <2> HIDE DEF c, n
  <2> QED BY <2>3, <2>4, <2>5, <2>6
<1> HIDE DEF c, n
<1>4. \A k \in 1 .. Batch : n - Batch + k \in 1 .. n
  BY <1>1, Sizes
<1>5. IsInjective(c)
  <2> SUFFICES ASSUME NEW i \in 1 .. Batch, NEW j \in 1 .. Batch, c[i] = c[j]
               PROVE  i = j
    BY <1>3 DEF IsInjective
  <2> DEFINE a == n - Batch + i
             b == n - Batch + j
  <2>1. a \in DOMAIN s.dList /\ b \in DOMAIN s.dList /\ s.dList[a] = s.dList[b]
    BY <1>1, <1>3, <1>4
  <2> HIDE DEF a, b
  <2>2. a = b
    BY <1>1, <2>1 DEF IsInjective
  <2> QED BY <1>1, <2>2, Sizes DEF a, b
<1>6. \A x : Contains(c, x) => Contains(s.dList, x)
  BY <1>3, <1>4 DEF Contains, n
<1>7. \A x, y : Before(c, x, y) => Before(s.dList, x, y)
  <2> SUFFICES ASSUME NEW x, NEW y, Before(c, x, y)
               PROVE  Before(s.dList, x, y)
    OBVIOUS
  <2>1. PICK i, j \in 1 .. Batch : i < j /\ c[i] = x /\ c[j] = y
    BY <1>3 DEF Before
  <2>2. n - Batch + i < n - Batch + j
    BY <1>1, <2>1, Sizes
  <2> QED BY <1>1, <1>3, <1>4, <2>1, <2>2 DEF Before
<1>8. \A x : Contains(c, x) <=> Beyond(s, x)
  <2>1. Len(s.lList) = DefBufSize
    BY BeyondIsDirty
  <2>2. \A k \in 1 .. Batch : WorkRegSize + k \in WorkRegSize + 1 .. DefBufSize
    BY Sizes
  <2>3. \A i \in WorkRegSize + 1 .. DefBufSize :
          i - WorkRegSize \in 1 .. Batch /\ WorkRegSize + (i - WorkRegSize) = i
    BY Sizes
  <2>4. ASSUME NEW x, Contains(c, x) PROVE Beyond(s, x)
    BY <1>2, <1>3, <2>1, <2>2, <2>4 DEF Contains, Beyond
  <2>5. ASSUME NEW x, Beyond(s, x) PROVE Contains(c, x)
    BY <1>2, <1>3, <2>1, <2>3, <2>5 DEF Contains, Beyond
  <2> QED BY <2>4, <2>5
<1> QED BY <1>2, <1>3, <1>5, <1>6, <1>7, <1>8 DEF c, DirtyVictims

LEMMA CflruVictim ==
  ASSUME NEW s, Lists(s), is_evict(s)
  PROVE  /\ DirtyVictims(s, get_candidate_cflru(s))
         /\ get_candidate_cflru(s) # <<>>
         /\ \A x : Contains(get_candidate_cflru(s), x) => Beyond(s, x)
<1>1. /\ s.dList \in Seq(Frames) /\ Len(s.dList) >= Batch /\ Len(s.dList) \in Nat
      /\ s.dList[Len(s.dList) - Batch + Batch] = s.lList[WorkRegSize + Batch]
  <2>1. Batch \in 1 .. Batch
    BY Sizes
  <2> QED BY <2>1, Candidates DEF Lists, ListsBut
<1>2. Last(s.dList) = s.lList[DefBufSize]
  <2>1. Len(s.dList) - Batch + Batch = Len(s.dList) /\ WorkRegSize + Batch = DefBufSize
    BY <1>1, Sizes
  <2> QED BY <1>1, <2>1 DEF Last
<1>3. s.dList # <<>>
  BY <1>1, Sizes
<1>4. Last(s.dList) \in Frames /\ Contains(s.dList, Last(s.dList))
  BY <1>1, <1>3, FrontLemma
<1>5. Beyond(s, Last(s.dList))
  BY <1>2, BeyondIsDirty, Sizes DEF Beyond
<1> DEFINE v == Last(s.dList)
<1> HIDE DEF v
<1>6. /\ <<v>> # <<>> /\ IsInjective(<<v>>) /\ \A x, y : ~ Before(<<v>>, x, y)
      /\ \A x : Contains(<<v>>, x) <=> x = v
  BY DEF IsInjective, Before, Contains
<1>7. <<v>> \in Seq(Frames)
  BY <1>4 DEF v
<1> QED BY <1>4, <1>5, <1>6, <1>7 DEF v, get_candidate_cflru, DirtyVictims

(* Some of the candidates, in their order, are victims as well.            *)
LEMMA OnlyVictims ==
  ASSUME NEW s, NEW vl, DirtyVictims(s, vl), NEW S
  PROVE  DirtyVictims(s, Only(vl, S)) /\ \A x : Contains(Only(vl, S), x) <=> Contains(vl, x) /\ x \in S
<1>1. vl \in Seq(Frames) /\ IsInjective(vl)
  BY DEF DirtyVictims
<1>2. /\ Only(vl, S) \in Seq(Frames) /\ IsInjective(Only(vl, S))
      /\ \A x : Contains(Only(vl, S), x) <=> Contains(vl, x) /\ x \in S
      /\ \A x, y : Before(Only(vl, S), x, y) <=> Before(vl, x, y) /\ x \in S /\ y \in S
  BY <1>1, OnlyLemma
<1> QED BY <1>2 DEF DirtyVictims

(* When nothing is free and is_evict says that nothing need be flushed,    *)
(* get_frame finds a clean frame, and it lies beyond the working region.   *)
THEOREM ReuseBeyond ==
  ASSUME NEW s, Lists(s), s.fList = <<>>, ~ is_evict(s)
  PROVE  s.cList # <<>> /\ Beyond(s, Last(s.cList))
<1>1. /\ s.lList \in Seq(Frames) /\ IsInjective(s.lList)
      /\ s.cList \in Seq(Frames) /\ IsInjective(s.cList)
      /\ Len(s.cList) \in Nat
  BY DEF Lists, ListsBut
<1>2. Len(s.lList) = DefBufSize /\ DOMAIN s.lList = 1 .. DefBufSize
  BY <1>1, FullLists
<1>3. CASE Len(s.cList) > WorkRegSize
  <2> DEFINE K == PositionsIn(s.lList, ToSet(s.cList))
  <2>1. s.cList = Only(s.lList, ToSet(s.cList))
    BY CorrectLists DEF is_correct
  <2>2. /\ Len(s.cList) = Cardinality(K) /\ Cardinality(K) \in Nat
        /\ \A i \in K : s.cList[Rank(K, i)] = s.lList[i]
        /\ \A k \in 1 .. Cardinality(K) : \E i \in K : Rank(K, i) = k
    BY <1>1, <2>1, OnlyIs
  <2>3. K \in SUBSET (1 .. DefBufSize)
    BY <1>2 DEF PositionsIn
  <2> HIDE DEF K
  <2>4. Len(s.cList) \in 1 .. Cardinality(K)
    BY <1>1, <1>3, <2>2, Sizes
  <2>5. PICK i \in K : Rank(K, i) = Len(s.cList)
    BY <2>2, <2>4
  <2>6. Len(s.cList) <= i /\ i \in 1 .. DefBufSize
    BY <2>3, <2>5, RankBelow, Sizes
  <2>7. i \in WorkRegSize + 1 .. DefBufSize
    BY <1>1, <1>3, <2>6, Sizes
  <2>8. s.lList[i] = Last(s.cList)
    BY <2>2, <2>5 DEF Last
  <2>9. s.cList # <<>>
    BY <1>3, Sizes
  <2> QED BY <1>2, <2>7, <2>8, <2>9 DEF Beyond
<1>4. CASE Len(s.cList) <= WorkRegSize
  <2>1. s.cList # <<>> /\ ~ (Place(s.lList, Last(s.cList)) - 1 < WorkRegSize)
    BY <1>2, <1>4, Sizes DEF is_evict
  <2>2. Contains(s.cList, Last(s.cList))
    BY <1>1, <2>1, FrontLemma
  <2>3. PICK p \in 1 .. DefBufSize : s.lList[p] = Last(s.cList)
    BY <1>2, <2>2 DEF Lists, ListsBut, Contains
  <2>4. Place(s.lList, Last(s.cList)) = p
    BY <1>1, <1>2, <2>3, PlaceIs
  <2>5. p \in WorkRegSize + 1 .. DefBufSize
    BY <2>1, <2>4, Sizes
  <2> QED BY <1>2, <2>1, <2>3, <2>5 DEF Beyond
<1> QED BY <1>1, <1>3, <1>4, Sizes

==============================================================================
