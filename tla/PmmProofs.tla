----------------------------- MODULE PmmProofs -----------------------------
(***************************************************************************)
(* The buddy allocator keeps blocks apart, coalesces what is free, counts  *)
(* it exactly and implements Allocator, for any memory map, any zone       *)
(* boundary, any reserved pages, any PMM_MAX_ORDER and any number of       *)
(* concurrent callers, up to the two races that Pmm records: a merge with  *)
(* a block on no list (raced) and an overwritten count (lost).             *)
(*                                                                         *)
(* The layers: arithmetic of 2^k and of Head and Buddy; what               *)
(* pmm_region_add carves; the inductive invariant; what a split and a      *)
(* merge do to the lists (IsSplit, IsMerge) and that they keep the         *)
(* invariant; the steps outside the lock; the theorems.                    *)
(***************************************************************************)
EXTENDS Pmm, FiniteSetTheorems, WellFoundedInduction, TLAPS

(* The least counterexample stands in for induction.                       *)
LEMMA LeastExists ==
  ASSUME NEW S, S \subseteq Nat, S # {}
  PROVE  \E v \in S : \A u \in S : v <= u
<1> DEFINE R == OpToRel(<, Nat)
<1>1. IsWellFoundedOn(R, Nat)
  BY NatLessThanWellFounded
<1>2. \A x, y \in Nat : x < y => <<x, y>> \in R
  BY DEF OpToRel
<1> HIDE DEF R
<1>3. PICK x \in S : \A y \in S : ~ (<<y, x>> \in R)
  BY <1>1, WFMin
<1>4. \A u \in S : x <= u
  <2> TAKE u \in S
  <2>1. x \in Nat /\ u \in Nat /\ ~(u < x)
    BY <1>2, <1>3
  <2> QED
    BY <2>1
<1> QED
  BY <1>4

LEMMA MinIs ==
  ASSUME NEW S, S \subseteq Nat, S # {}
  PROVE  Min(S) \in S /\ \A u \in S : Min(S) <= u
<1>1. \E v \in S : \A u \in S : v <= u
  BY LeastExists
<1> QED
  BY <1>1 DEF Min

LEMMA MaxIs ==
  ASSUME NEW S, NEW n \in Nat, S \subseteq 0 .. n, S # {}
  PROVE  Max(S) \in S /\ \A u \in S : Max(S) >= u
<1> DEFINE T == {i \in 0 .. n : n - i \in S}
<1>1. T \subseteq Nat /\ T # {}
  <2>1. PICK u \in S : TRUE
    OBVIOUS
  <2>2. n - u \in 0 .. n /\ n - (n - u) = u
    BY <2>1
  <2> QED
    BY <2>1, <2>2
<1>2. PICK i \in T : \A j \in T : i <= j
  <2> HIDE DEF T
  <2> QED
    BY <1>1, LeastExists
<1>3. n - i \in S /\ \A u \in S : n - i >= u
  <2>1. ASSUME NEW u \in S PROVE n - i >= u
    <3>1. u \in 0 .. n /\ n - u \in 0 .. n /\ n - (n - u) = u
      BY <2>1
    <3>2. n - u \in T
      BY <2>1, <3>1
    <3>3. i <= n - u /\ i \in 0 .. n
      BY <1>2, <3>2
    <3> QED
      BY <3>1, <3>3
  <2> QED
    BY <1>2, <2>1
<1> QED
  BY <1>3 DEF Max
---------------------------------------------------------------------------
(* Powers of two.                                                          *)

LEMMA PowerIsSize ==
  ASSUME NEW k \in Nat
  PROVE  IsFiniteSet(SUBSET (1 .. k)) /\ Cardinality(SUBSET (1 .. k)) = 2^k
<1>1. IsFiniteSet(1 .. k) /\ Cardinality(1 .. k) = k
  <2>1. IsFiniteSet(1 .. k) /\ Cardinality(1 .. k) = IF 1 > k THEN 0 ELSE (k - 1) + 1
    BY FS_Interval
  <2> QED
    BY <2>1
<1>2. IsFiniteSet(SUBSET (1 .. k)) /\ Cardinality(SUBSET (1 .. k)) = 2^Cardinality(1 .. k)
  BY <1>1, FS_SUBSET
<1> QED
  BY <1>1, <1>2

(* The subsets of 1..k+1 are those of 1..k, without and with k + 1.        *)
LEMMA Power ==
  ASSUME NEW k \in Nat
  PROVE  2^k \in Nat /\ 2^k >= 1 /\ 2^(k + 1) = 2 * 2^k
<1> DEFINE A == SUBSET (1 .. k)
           B == {X \cup {k + 1} : X \in A}
           C == SUBSET (1 .. k + 1)
<1>1. IsFiniteSet(A) /\ Cardinality(A) = 2^k /\ IsFiniteSet(C) /\ Cardinality(C) = 2^(k + 1)
  BY PowerIsSize
<1>2. 2^k \in Nat /\ 2^k # 0
  <2>1. Cardinality(A) \in Nat
    BY <1>1, FS_CardinalityType
  <2>2. {} \in A
    OBVIOUS
  <2>3. Cardinality(A) # 0
    <3> HIDE DEF A
    <3> QED
      BY <1>1, <2>2, FS_EmptySet
  <2> QED
    BY <1>1, <2>1, <2>3
<1>3. ExistsBijection(A, B)
  <2> DEFINE f == [X \in A |-> X \cup {k + 1}]
  <2>1. k + 1 \notin 1 .. k
    OBVIOUS
  <2>2. \A X, Y \in A : X \cup {k + 1} = Y \cup {k + 1} => X = Y
    BY <2>1
  <2>3. f \in [A -> B] /\ (\A X \in A : f[X] = X \cup {k + 1}) /\ \A Y \in B : \E X \in A : f[X] = Y
    OBVIOUS
  <2>4. f \in Injection(A, B)
    <3> HIDE DEF f, A, B
    <3> QED
      BY <2>2, <2>3 DEF Injection, IsInjective
  <2>5. f \in Surjection(A, B)
    <3> HIDE DEF f, A, B
    <3> QED
      BY <2>3 DEF Surjection
  <2> HIDE DEF f, A, B
  <2> QED
    BY <2>4, <2>5 DEF ExistsBijection, Bijection
<1>4. IsFiniteSet(B) /\ Cardinality(B) = 2^k
  <2> HIDE DEF A, B
  <2> QED
    BY <1>1, <1>3, FS_Bijection
<1>5. A \cap B = {}
  <2>1. k + 1 \notin 1 .. k
    OBVIOUS
  <2> QED
    BY <2>1
<1>6. A \cup B = C
  <2>1. A \cup B \subseteq C
    <3>1. 1 .. k \subseteq 1 .. k + 1 /\ k + 1 \in 1 .. k + 1
      OBVIOUS
    <3> QED
      BY <3>1
  <2>2. ASSUME NEW X \in C PROVE X \in A \cup B
    <3>1. CASE k + 1 \in X
      <4>1. X \ {k + 1} \in A
        <5>1. \A i \in 1 .. k + 1 : i # k + 1 => i \in 1 .. k
          OBVIOUS
        <5> QED
          BY <2>2, <5>1
      <4>2. X = (X \ {k + 1}) \cup {k + 1}
        BY <3>1
      <4> QED
        BY <4>1, <4>2
    <3>2. CASE k + 1 \notin X
      <4>1. \A i \in X : i \in 1 .. k + 1 /\ i # k + 1
        BY <2>2, <3>2
      <4>2. \A i \in X : i \in 1 .. k
        BY <4>1
      <4> QED
        BY <4>2
    <3> QED
      BY <3>1, <3>2
  <2> QED
    BY <2>1, <2>2
<1>7. Cardinality(A \cup B) = Cardinality(A) + Cardinality(B) - Cardinality(A \cap B)
  <2> HIDE DEF A, B
  <2> QED
    BY <1>1, <1>4, FS_Union
<1>8. Cardinality(A \cap B) = 0
  <2> HIDE DEF A, B
  <2> QED
    BY <1>5, FS_EmptySet
<1>9. 2^(k + 1) = 2^k + 2^k
  <2> HIDE DEF A, B, C
  <2> QED
    BY <1>1, <1>2, <1>4, <1>6, <1>7, <1>8
<1> QED
  BY <1>2, <1>9

LEMMA PowerGrows ==
  ASSUME NEW i \in Nat, NEW j \in Nat, i < j
  PROVE  2 * 2^i <= 2^j
<1> DEFINE bad == {m \in Nat : i < m /\ ~(2 * 2^i <= 2^m)}
<1> SUFFICES bad = {}
  OBVIOUS
<1> SUFFICES ASSUME bad # {} PROVE FALSE
  OBVIOUS
<1>1. PICK m \in bad : \A n \in bad : m <= n
  <2> HIDE DEF bad
  <2> SUFFICES bad \subseteq Nat
    BY LeastExists
  <2> QED
    BY DEF bad
<1>2. m \in Nat /\ i < m /\ ~(2 * 2^i <= 2^m) /\ m - 1 \in Nat /\ (m - 1) + 1 = m
  BY <1>1
<1>3. 2^m = 2 * 2^(m - 1) /\ 2^(m - 1) \in Nat
  BY <1>2, Power
<1>4. 2^i \in Nat
  BY Power
<1>5. CASE m - 1 = i
  BY <1>2, <1>3, <1>4, <1>5
<1>6. CASE m - 1 # i
  <2>1. m - 1 \notin bad /\ i < m - 1
    BY <1>1, <1>2, <1>6
  <2>2. 2 * 2^i <= 2^(m - 1)
    BY <1>2, <2>1
  <2> QED
    BY <1>2, <1>3, <1>4, <2>2
<1> QED
  BY <1>5, <1>6
---------------------------------------------------------------------------
(* Division: the multiple of D below p is unique.                          *)
LEMMA Multiple ==
  ASSUME NEW D \in Nat, D >= 1, NEW p \in Nat
  PROVE  /\ p % D \in 0 .. D - 1 /\ p - (p % D) \in Nat
         /\ \E m \in Nat : p - (p % D) = m * D
<1>1. p % D \in 0 .. D - 1 /\ p \div D \in Nat /\ p = D * (p \div D) + (p % D)
  OBVIOUS
<1> DEFINE m == p \div D
           r == p % D
<1>2. m \in Nat /\ r \in 0 .. D - 1 /\ p = D * m + r
  BY <1>1
<1> HIDE DEF m, r
<1>3. D * m = m * D /\ D * m \in Nat
  BY <1>2
<1>4. p - r = m * D /\ p - r \in Nat
  BY <1>2, <1>3
<1> QED
  BY <1>2, <1>4 DEF r

LEMMA MultipleUnique ==
  ASSUME NEW D \in Nat, D >= 1, NEW p \in Nat, NEW m \in Nat, NEW n \in Nat,
         m * D <= p, p < m * D + D, n * D <= p, p < n * D + D
  PROVE  m = n
<1>1. ASSUME NEW x \in Nat, NEW y \in Nat, x < y PROVE x * D + D <= y * D
  <2>1. PICK d \in Nat : y = x + 1 + d
    <3>1. y - x - 1 \in Nat /\ y = x + 1 + (y - x - 1)
      BY <1>1
    <3> QED
      BY <3>1
  <2>2. y * D = x * D + D + d * D /\ d * D \in Nat /\ x * D \in Nat
    BY <2>1
  <2> QED
    BY <2>2
<1>2. m * D \in Nat /\ n * D \in Nat
  OBVIOUS
<1>3. CASE m < n
  BY <1>1, <1>2, <1>3
<1>4. CASE n < m
  BY <1>1, <1>2, <1>4
<1> QED
  BY <1>3, <1>4

(* A page lies in the block of order k that starts at its head.            *)
LEMMA HeadFacts ==
  ASSUME NEW k \in Nat, NEW p \in Nat
  PROVE  /\ Head(p, k) \in Nat /\ Head(p, k) <= p /\ p < Head(p, k) + 2^k
         /\ \E m \in Nat : Head(p, k) = m * 2^k
         /\ p % 2^k = 0 <=> Head(p, k) = p
<1>1. 2^k \in Nat /\ 2^k >= 1
  BY Power
<1> DEFINE D == 2^k
<1>2. D \in Nat /\ D >= 1
  BY <1>1
<1> HIDE DEF D
<1>3. /\ p % D \in 0 .. D - 1 /\ p - (p % D) \in Nat
      /\ \E m \in Nat : p - (p % D) = m * D
  BY <1>2, Multiple
<1>4. Head(p, k) = p - (p % D)
  BY DEF Head, D
<1> DEFINE r == p % D
<1> HIDE DEF r
<1>5. Head(p, k) = p - r /\ r \in 0 .. D - 1 /\ p - r \in Nat
  BY <1>3, <1>4 DEF r
<1>6. Head(p, k) \in Nat /\ Head(p, k) <= p /\ p < Head(p, k) + D /\ (r = 0 <=> Head(p, k) = p)
  BY <1>2, <1>5
<1> QED
  BY <1>3, <1>4, <1>6 DEF D, r

LEMMA HeadIs ==
  ASSUME NEW k \in Nat, NEW p \in Nat, NEW m \in Nat, m * 2^k <= p, p < m * 2^k + 2^k
  PROVE  Head(p, k) = m * 2^k
<1> DEFINE D == 2^k
<1>1. D \in Nat /\ D >= 1
  BY Power
<1>2. PICK n \in Nat : Head(p, k) = n * D
  BY HeadFacts
<1>3. n * D <= p /\ p < n * D + D /\ m * D <= p /\ p < m * D + D
  BY <1>2, HeadFacts
<1> HIDE DEF D
<1>4. m = n
  BY <1>1, <1>3, MultipleUnique
<1> QED
  BY <1>2, <1>4 DEF D

(* The pages of an aligned block are those with its first page as head.    *)
LEMMA InBlock ==
  ASSUME NEW k \in Nat, NEW p \in Nat, Head(p, k) = p, NEW x \in Nat
  PROVE  x \in Pages(p, k) <=> Head(x, k) = p
<1>1. 2^k \in Nat /\ 2^k >= 1
  BY Power
<1>2. Head(x, k) = p => x \in Pages(p, k)
  <2> SUFFICES ASSUME Head(x, k) = p PROVE x \in Pages(p, k)
    OBVIOUS
  <2>1. p <= x /\ x < p + 2^k
    BY HeadFacts
  <2> QED
    BY <1>1, <2>1 DEF Pages
<1>3. x \in Pages(p, k) => Head(x, k) = p
  <2> SUFFICES ASSUME x \in Pages(p, k) PROVE Head(x, k) = p
    OBVIOUS
  <2>1. p <= x /\ x < p + 2^k
    BY <1>1 DEF Pages
  <2>2. PICK m \in Nat : Head(p, k) = m * 2^k
    BY HeadFacts
  <2>3. Head(x, k) = m * 2^k
    BY <2>1, <2>2, HeadIs
  <2> QED
    BY <2>2, <2>3
<1> QED
  BY <1>2, <1>3

LEMMA PagesAreNat ==
  ASSUME NEW k \in Nat, NEW p \in Nat
  PROVE  Pages(p, k) \subseteq Nat /\ p \in Pages(p, k)
BY Power DEF Pages

LEMMA HeadHead ==
  ASSUME NEW k \in Nat, NEW p \in Nat
  PROVE  Head(Head(p, k), k) = Head(p, k)
<1>1. 2^k \in Nat /\ 2^k >= 1 /\ Head(p, k) \in Nat
  BY Power, HeadFacts
<1>2. PICK m \in Nat : Head(p, k) = m * 2^k
  BY HeadFacts
<1> QED
  BY <1>1, <1>2, HeadIs

LEMMA HeadZero ==
  ASSUME NEW p \in Nat
  PROVE  Head(p, 0) = p
<1>1. 2^0 = 1
  OBVIOUS
<1>2. Head(p, 0) \in Nat /\ Head(p, 0) <= p /\ p < Head(p, 0) + 2^0
  BY HeadFacts
<1> QED
  BY <1>1, <1>2

(* Two buddies make up the block of the next order, which starts with the  *)
(* lower one.                                                              *)
Halves(p, k) ==
  /\ Head(p, k) \in Nat /\ Buddy(p, k) \in Nat /\ Head(p, k + 1) \in Nat
  /\ Head(Buddy(p, k), k) = Buddy(p, k)
  /\ Head(Buddy(p, k), k + 1) = Head(p, k + 1)
  /\ Head(Head(p, k), k + 1) = Head(p, k + 1)
  /\ \/ Head(p, k + 1) = Head(p, k) /\ Buddy(p, k) = Head(p, k) + 2^k
     \/ Head(p, k + 1) = Buddy(p, k) /\ Head(p, k) = Buddy(p, k) + 2^k

LEMMA BuddyIs ==
  ASSUME NEW k \in Nat, NEW p \in Nat
  PROVE  Halves(p, k)
<1> DEFINE D == 2^k
           h == Head(p, k)
           b == Buddy(p, k)
<1>1. D \in Nat /\ D >= 1 /\ 2^(k + 1) = 2 * D /\ k + 1 \in Nat
  BY Power
<1>2. PICK m \in Nat : h = m * D
  BY HeadFacts
<1>3. h \in Nat /\ h <= p /\ p < h + D
  BY HeadFacts
<1>4. h % 2^(k + 1) = 0 <=> Head(h, k + 1) = h
  BY <1>1, <1>3, HeadFacts
<1>5. b = IF Head(h, k + 1) = h THEN h + D ELSE h - D
  BY <1>4 DEF Buddy
<1>6. PICK n \in Nat : m = 2 * n \/ m = 2 * n + 1
  <2>1. m \div 2 \in Nat /\ (m = 2 * (m \div 2) \/ m = 2 * (m \div 2) + 1)
    OBVIOUS
  <2> QED
    BY <2>1
<1> DEFINE e == n * D
<1>7. e \in Nat /\ n * 2^(k + 1) = 2 * e
  BY <1>1
<1>8. (2 * n) * D = 2 * e /\ (2 * n + 1) * D = 2 * e + D
  BY <1>1
<1> HIDE DEF D, e
<1>9. ASSUME NEW x \in Nat, 2 * e <= x, x < 2 * e + 2 * D PROVE Head(x, k + 1) = 2 * e
  <2>1. n * 2^(k + 1) <= x /\ x < n * 2^(k + 1) + 2^(k + 1)
    BY <1>1, <1>7, <1>9
  <2>2. Head(x, k + 1) = n * 2^(k + 1)
    BY <1>1, <2>1, HeadIs
  <2> QED
    BY <1>7, <2>2
<1>10. CASE m = 2 * n
  <2> HIDE DEF h, b
  <2>1. h = 2 * e
    BY <1>2, <1>8, <1>10
  <2>2. Head(h, k + 1) = 2 * e /\ Head(p, k + 1) = 2 * e
    BY <1>1, <1>3, <1>7, <1>9, <2>1
  <2>3. b = h + D
    BY <1>5, <2>1, <2>2
  <2>4. b \in Nat /\ b = (2 * n + 1) * D /\ b < (2 * n + 1) * D + D
    BY <1>1, <1>3, <1>7, <1>8, <2>1, <2>3
  <2>5. Head(b, k) = b
    <3>1. 2 * n + 1 \in Nat
      OBVIOUS
    <3>2. (2 * n + 1) * 2^k <= b /\ b < (2 * n + 1) * 2^k + 2^k /\ b = (2 * n + 1) * 2^k
      BY <2>4 DEF D
    <3> QED
      BY <2>4, <3>1, <3>2, HeadIs
  <2>6. Head(b, k + 1) = 2 * e
    BY <1>1, <1>3, <1>7, <1>9, <2>1, <2>3, <2>4
  <2> QED
    BY <1>3, <1>7, <2>1, <2>2, <2>3, <2>4, <2>5, <2>6 DEF Halves, h, b, D
<1>11. CASE m = 2 * n + 1
  <2> HIDE DEF h, b
  <2>1. h = 2 * e + D
    BY <1>2, <1>8, <1>11
  <2>2. Head(h, k + 1) = 2 * e /\ Head(p, k + 1) = 2 * e
    BY <1>1, <1>3, <1>7, <1>9, <2>1
  <2>3. b = 2 * e /\ h = b + D
    BY <1>1, <1>5, <1>7, <2>1, <2>2
  <2>4. b \in Nat /\ b = (2 * n) * D /\ b < (2 * n) * D + D
    BY <1>1, <1>3, <1>7, <1>8, <2>1, <2>3
  <2>5. Head(b, k) = b
    <3>1. 2 * n \in Nat
      OBVIOUS
    <3>2. (2 * n) * 2^k <= b /\ b < (2 * n) * 2^k + 2^k /\ b = (2 * n) * 2^k
      BY <2>4 DEF D
    <3> QED
      BY <2>4, <3>1, <3>2, HeadIs
  <2>6. Head(b, k + 1) = 2 * e
    BY <1>1, <1>3, <1>7, <1>9, <2>1, <2>3, <2>4
  <2> QED
    BY <1>3, <1>7, <2>1, <2>2, <2>3, <2>4, <2>5, <2>6 DEF Halves, h, b, D
<1> QED
  BY <1>6, <1>10, <1>11

(* Blocks nest: pages of one block of order k are in one of order j.       *)
LEMMA Nest ==
  ASSUME NEW x \in Nat, NEW y \in Nat, NEW k \in Nat, NEW j \in Nat, k <= j, Head(x, k) = Head(y, k)
  PROVE  Head(x, j) = Head(y, j)
<1> DEFINE bad == {m \in Nat : k <= m /\ Head(x, m) # Head(y, m)}
<1> SUFFICES ASSUME bad # {} PROVE FALSE
  OBVIOUS
<1>1. PICK m \in bad : \A n \in bad : m <= n
  <2>1. bad \subseteq Nat
    OBVIOUS
  <2> HIDE DEF bad
  <2> QED
    BY <2>1, LeastExists
<1>2. m \in Nat /\ k < m /\ Head(x, m) # Head(y, m) /\ m - 1 \in Nat /\ (m - 1) + 1 = m
  BY <1>1
<1>3. Head(x, m - 1) = Head(y, m - 1)
  <2>1. m - 1 \notin bad /\ k <= m - 1
    BY <1>1, <1>2
  <2> QED
    BY <1>2, <2>1
<1>4. Halves(x, m - 1) /\ Halves(y, m - 1)
  BY <1>2, BuddyIs
<1>5. Head(x, m) = Head(y, m)
  BY <1>2, <1>3, <1>4 DEF Halves
<1> QED
  BY <1>2, <1>5

LEMMA HeadOfHead ==
  ASSUME NEW p \in Nat, NEW k \in Nat, NEW j \in Nat, k <= j
  PROVE  Head(Head(p, k), j) = Head(p, j)
<1>1. Head(p, k) \in Nat /\ Head(Head(p, k), k) = Head(p, k)
  BY HeadFacts, HeadHead
<1> QED
  BY <1>1, Nest

LEMMA AlignedDown ==
  ASSUME NEW p \in Nat, NEW k \in Nat, NEW j \in Nat, k <= j, Head(p, j) = p
  PROVE  Head(p, k) = p
<1>1. Head(p, k) \in Nat /\ Head(p, k) <= p
  BY HeadFacts
<1>2. Head(Head(p, k), j) = p
  BY HeadOfHead
<1>3. Head(Head(p, k), j) <= Head(p, k)
  BY <1>1, HeadFacts
<1> QED
  BY <1>1, <1>2, <1>3

(* In front of an aligned block's upper parts: the buddy at order j < v.   *)
LEMMA BuddyAbove ==
  ASSUME NEW p \in Nat, NEW v \in Nat, NEW j \in Nat, j < v, Head(p, v) = p
  PROVE  Head(p, j) = p /\ Buddy(p, j) = p + 2^j
<1>1. j + 1 \in Nat /\ j + 1 <= v
  OBVIOUS
<1>2. Head(p, j) = p /\ Head(p, j + 1) = p
  BY <1>1, AlignedDown
<1>3. Halves(p, j) /\ 2^j \in Nat /\ 2^j >= 1
  BY BuddyIs, Power
<1> QED
  BY <1>2, <1>3 DEF Halves

(* A page of the buddy of p at order j is with p from order j + 1 on, and  *)
(* not before.                                                             *)
LEMMA BuddyLevel ==
  ASSUME NEW p \in Nat, NEW x \in Nat, NEW j \in Nat, NEW i \in Nat, Head(x, j) = Buddy(p, j)
  PROVE  Head(x, i) = Head(p, i) <=> j < i
<1>1. Halves(p, j) /\ 2^j \in Nat /\ 2^j >= 1 /\ j + 1 \in Nat
  BY BuddyIs, Power
<1>2. Head(x, j) # Head(p, j)
  BY <1>1 DEF Halves
<1>3. Head(x, j + 1) = Head(p, j + 1)
  <2>1. Head(Head(x, j), j + 1) = Head(x, j + 1)
    BY <1>1, HeadOfHead
  <2> QED
    BY <1>1, <2>1 DEF Halves
<1>4. CASE j < i
  <2>1. j + 1 <= i
    BY <1>4
  <2> QED
    BY <1>1, <1>3, <1>4, <2>1, Nest
<1>5. CASE i <= j
  BY <1>2, <1>5, Nest
<1> QED
  BY <1>4, <1>5

(* The block of order v around p consists of the one of order k and of the *)
(* buddies in between: what pmm_free puts together and pmm_alloc splits.   *)
LEMMA Parts ==
  ASSUME NEW p \in Nat, NEW k \in Nat, NEW v \in Nat, k <= v, NEW x \in Nat
  PROVE  Head(x, v) = Head(p, v) <=> Head(x, k) = Head(p, k) \/ \E j \in k .. v - 1 : Head(x, j) = Buddy(p, j)
<1>1. ASSUME Head(x, k) = Head(p, k) PROVE Head(x, v) = Head(p, v)
  BY <1>1, Nest
<1>2. ASSUME NEW j \in k .. v - 1, Head(x, j) = Buddy(p, j) PROVE Head(x, v) = Head(p, v)
  <2>1. j \in Nat /\ j < v
    BY <1>2
  <2> QED
    BY <1>2, <2>1, BuddyLevel
<1>3. ASSUME Head(x, v) = Head(p, v), Head(x, k) # Head(p, k)
      PROVE  \E j \in k .. v - 1 : Head(x, j) = Buddy(p, j)
  <2> DEFINE S == {m \in Nat : k <= m /\ m <= v /\ Head(x, m) = Head(p, m)}
  <2>1. S \subseteq Nat /\ S # {}
    <3>1. v \in S
      BY <1>3
    <3> QED
      BY <3>1
  <2>2. PICK m \in S : \A n \in S : m <= n
    <3> HIDE DEF S
    <3> QED
      BY <2>1, LeastExists
  <2> DEFINE j == m - 1
  <2>3. m \in Nat /\ k < m /\ m <= v /\ Head(x, m) = Head(p, m)
    BY <1>3, <2>2
  <2>4. j \in Nat /\ j \in k .. v - 1 /\ j + 1 = m /\ j < m
    BY <2>3
  <2>5. j \notin S
    BY <2>2, <2>3, <2>4
  <2>6. Head(x, j) # Head(p, j)
    BY <2>4, <2>5
  <2> HIDE DEF j, S
  <2>7. Halves(x, j) /\ Halves(p, j) /\ 2^j \in Nat /\ 2^j >= 1
    BY <2>4, BuddyIs, Power
  <2>8. Head(x, j + 1) = Head(p, j + 1)
    BY <2>3, <2>4
  <2>9. Head(x, j) = Buddy(p, j)
    BY <2>6, <2>7, <2>8 DEF Halves
  <2> QED
    BY <2>4, <2>9
<1> QED
  BY <1>1, <1>2, <1>3
---------------------------------------------------------------------------
(* The blocks that pmm_region_add carves.                                  *)

LEMMA ZoneFacts ==
  /\ Page \subseteq Nat /\ Order \subseteq Nat /\ 0 \in Order
  /\ \A z \in Zone : First(z) \in Nat /\ Beyond(z) \in Nat
  /\ \A z \in Zone : \A p \in PagesIn(z) : p \in Page /\ p \in Nat /\ ZoneOf(p) = z
  /\ \A p \in Page : ZoneOf(p) \in Zone /\ p \in PagesIn(ZoneOf(p))
<1> USE RegionAssumption
<1>1. \A z \in Zone : First(z) \in Nat /\ Beyond(z) \in Nat /\ First(z) >= ZoneStart(z) /\ Beyond(z) <= ZoneEnd(z)
  BY DEF Zone, First, Beyond, Larger, Smaller, ZoneStart, ZoneEnd
<1>2. ASSUME NEW z \in Zone, NEW p \in PagesIn(z)
      PROVE  p \in Nat /\ p >= ZoneStart(z) /\ p < ZoneEnd(z) /\ p \in Page
  <2>1. p \in First(z) .. (Beyond(z) - 1)
    BY DEF PagesIn
  <2>2. p \in Page
    BY DEF Page, Zone
  <2>3. ZoneStart(z) \in Nat /\ ZoneEnd(z) \in Nat
    BY DEF ZoneStart, ZoneEnd, Zone
  <2> QED
    BY <1>1, <2>1, <2>2, <2>3
<1>3. ASSUME NEW z \in Zone, NEW p \in PagesIn(z) PROVE ZoneOf(p) = z
  BY <1>2 DEF Zone, ZoneOf, ZoneStart, ZoneEnd
<1>4. Order \subseteq Nat /\ 0 \in Order
  BY DEF Order
<1>5. ASSUME NEW p \in Page PROVE p \in Nat /\ ZoneOf(p) \in Zone /\ p \in PagesIn(ZoneOf(p))
  <2>1. PICK z \in Zone : p \in PagesIn(z)
    BY DEF Page, Zone
  <2> QED
    BY <1>2, <1>3, <2>1
<1> QED
  BY <1>1, <1>2, <1>3, <1>4, <1>5

LEMMA CarveOrderIs ==
  ASSUME NEW q \in Nat, NEW end \in Nat, q < end
  PROVE  /\ CarveOrder(q, end) \in Order
         /\ q + 2^CarveOrder(q, end) <= end /\ Head(q, CarveOrder(q, end)) = q
<1> DEFINE S == {k \in Order : q + 2^k <= end /\ q % 2^k = 0}
<1>1. S \subseteq 0 .. PMM_MAX_ORDER /\ PMM_MAX_ORDER \in Nat
  BY RegionAssumption DEF Order
<1>2. 0 \in S
  <2>1. 2^0 = 1 /\ q % 1 = 0
    OBVIOUS
  <2> QED
    BY <2>1, ZoneFacts
<1>3. CarveOrder(q, end) = Max(S)
  BY DEF CarveOrder
<1>4. Max(S) \in S
  <2> HIDE DEF S
  <2> QED
    BY <1>1, <1>2, MaxIs
<1>5. CarveOrder(q, end) \in S
  BY <1>3, <1>4
<1>6. CarveOrder(q, end) \in Nat
  BY <1>5, ZoneFacts
<1> QED
  BY <1>5, <1>6, HeadFacts

(* pmm_region_add goes from one page to the next.                          *)
CarveNext(z, start, p) ==
  IF p = First(z) THEN p
  ELSE IF p < start[p - 1] + 2^CarveOrder(start[p - 1], Beyond(z)) THEN start[p - 1] ELSE p

LEMMA CarveExists ==
  ASSUME NEW z \in Zone
  PROVE  \E f : f = [p \in PagesIn(z) |-> CarveNext(z, f, p)]
<1> DEFINE F == First(z)
           Upto(f, n) == f = [p \in F .. n |-> CarveNext(z, f, p)]
           bad == {n \in Nat : F <= n /\ ~ \E f : Upto(f, n)}
<1>1. F \in Nat /\ Beyond(z) \in Nat
  BY ZoneFacts
<1>2. bad = {}
  <2> SUFFICES ASSUME bad # {} PROVE FALSE
    OBVIOUS
  <2>1. PICK n \in bad : \A m \in bad : n <= m
    <3>1. bad \subseteq Nat
      OBVIOUS
    <3> HIDE DEF bad
    <3> QED
      BY <3>1, LeastExists
  <2>2. n \in Nat /\ F <= n /\ ~ \E f : Upto(f, n)
    BY <2>1
  <2>3. CASE n = F
    <3> DEFINE f == [p \in F .. n |-> p]
    <3>1. \A p \in F .. n : p = F
      BY <1>1, <2>3
    <3>2. \A p \in F .. n : CarveNext(z, f, p) = p
      BY <3>1 DEF CarveNext
    <3>3. Upto(f, n)
      BY <3>2
    <3> QED
      BY <2>2, <3>3
  <2>4. CASE n # F
    <3>1. n - 1 \in Nat /\ F <= n - 1 /\ n - 1 \notin bad
      BY <1>1, <2>1, <2>2, <2>4
    <3>2. PICK g : Upto(g, n - 1)
      BY <3>1
    <3> DEFINE f == [p \in F .. n |-> IF p = n THEN CarveNext(z, g, n) ELSE g[p]]
    <3>3. \A p \in F .. n : p # F => f[p - 1] = g[p - 1]
      BY <1>1, <2>2
    <3>4. \A p \in F .. n : CarveNext(z, f, p) = CarveNext(z, g, p)
      <4> HIDE DEF f
      <4> QED
        BY <3>3 DEF CarveNext
    <3>5. \A p \in F .. n : p # n => g[p] = CarveNext(z, g, p)
      <4>1. \A p \in F .. n : p # n => p \in F .. n - 1
        BY <1>1, <2>2
      <4> QED
        BY <3>2, <4>1
    <3>6. \A p \in F .. n : f[p] = CarveNext(z, f, p)
      <4>1. \A p \in F .. n : f[p] = CarveNext(z, g, p)
        BY <3>5
      <4> QED
        BY <3>4, <4>1
    <3>7. Upto(f, n)
      BY <3>6
    <3> QED
      BY <2>2, <3>7
  <2> QED
    BY <2>3, <2>4
<1>3. CASE F <= Beyond(z) - 1
  <2>1. Beyond(z) - 1 \in Nat
    BY <1>1, <1>3
  <2>2. Beyond(z) - 1 \notin bad
    BY <1>2
  <2>3. \E f : Upto(f, Beyond(z) - 1)
    BY <1>3, <2>1, <2>2
  <2> QED
    BY <2>3 DEF PagesIn
<1>4. CASE ~(F <= Beyond(z) - 1)
  <2>1. PagesIn(z) = {}
    BY <1>1, <1>4 DEF PagesIn
  <2> DEFINE f == [p \in PagesIn(z) |-> p]
  <2>2. f = [p \in PagesIn(z) |-> CarveNext(z, f, p)]
    BY <2>1
  <2> QED
    BY <2>2
<1> QED
  BY <1>3, <1>4

LEMMA CarveStep ==
  ASSUME NEW z \in Zone, NEW p \in PagesIn(z)
  PROVE  Carve(z)[p] = CarveNext(z, Carve(z), p)
<1> DEFINE Carves(f) == f = [q \in PagesIn(z) |-> CarveNext(z, f, q)]
<1>1. \E f : Carves(f)
  BY CarveExists
<1>2. Carve(z) = CHOOSE f : Carves(f)
  BY DEF Carve, CarveNext
<1>3. Carves(CHOOSE f : Carves(f))
  <2> HIDE DEF Carves
  <2> QED
    BY <1>1, Zenon
<1>4. Carves(Carve(z))
  <2> HIDE DEF Carves
  <2> QED
    BY <1>2, <1>3, Zenon
<1> QED
  BY <1>4

(* The block carved around p starts at or before p and reaches beyond it.  *)
Carved(z, p) ==
  LET q == Carve(z)[p] IN
  /\ q \in PagesIn(z) /\ q <= p /\ p < q + 2^CarveOrder(q, Beyond(z))
  /\ \A x \in q .. p : Carve(z)[x] = q

LEMMA AllCarved ==
  ASSUME NEW z \in Zone, NEW p \in PagesIn(z)
  PROVE  Carved(z, p)
<1> DEFINE bad == {n \in PagesIn(z) : ~Carved(z, n)}
<1> SUFFICES ASSUME bad # {} PROVE FALSE
  OBVIOUS
<1>1. \A x \in PagesIn(z) : x \in Nat
  BY ZoneFacts
<1>2. PICK n \in bad : \A m \in bad : n <= m
  <2>1. bad \subseteq Nat
    BY <1>1
  <2> HIDE DEF bad
  <2> QED
    BY <2>1, LeastExists
<1> DEFINE F == First(z)
           E == Beyond(z)
           st == Carve(z)
<1>3. F \in Nat /\ E \in Nat /\ n \in Nat /\ F <= n /\ n < E /\ n \in PagesIn(z) /\ ~Carved(z, n)
  BY <1>2, ZoneFacts DEF PagesIn
<1>4. st[n] = CarveNext(z, st, n)
  BY <1>3, CarveStep
<1>5. ASSUME st[n] = n PROVE FALSE
  <2>1. CarveOrder(n, E) \in Nat
    BY <1>3, CarveOrderIs, ZoneFacts
  <2>2. 2^CarveOrder(n, E) \in Nat /\ 2^CarveOrder(n, E) >= 1
    BY <2>1, Power
  <2>3. \A x \in n .. n : x = n
    BY <1>3
  <2> QED
    BY <1>3, <1>5, <2>2, <2>3 DEF Carved
<1>6. n # F
  BY <1>4, <1>5 DEF CarveNext
<1> DEFINE q == st[n - 1]
<1>7. n - 1 \in PagesIn(z)
  BY <1>3, <1>6 DEF PagesIn
<1>8. Carved(z, n - 1)
  <2>1. n - 1 \notin bad
    BY <1>2, <1>3
  <2> QED
    BY <1>7, <2>1
<1>9. q \in PagesIn(z) /\ q \in Nat /\ q <= n - 1 /\ \A x \in q .. n - 1 : st[x] = q
  BY <1>1, <1>8 DEF Carved
<1>10. CASE n < q + 2^CarveOrder(q, E)
  <2>1. st[n] = q
    BY <1>4, <1>6, <1>10 DEF CarveNext
  <2>2. \A x \in q .. n : x = n \/ x \in q .. n - 1
    BY <1>3, <1>9
  <2>3. \A x \in q .. n : st[x] = q
    BY <1>9, <2>1, <2>2
  <2>4. q <= n
    BY <1>3, <1>9
  <2> HIDE DEF st, q, E
  <2>5. st[n] \in PagesIn(z) /\ st[n] <= n /\ n < st[n] + 2^CarveOrder(st[n], E) /\ \A x \in st[n] .. n : st[x] = st[n]
    BY <1>9, <1>10, <2>1, <2>3, <2>4
  <2> QED
    BY <1>3, <2>5 DEF Carved, st, E
<1>11. CASE ~(n < q + 2^CarveOrder(q, E))
  BY <1>4, <1>5, <1>6, <1>11 DEF CarveNext
<1> QED
  BY <1>10, <1>11

LEMMA CarvedToEnd ==
  ASSUME NEW z \in Zone, NEW p \in PagesIn(z), NEW q, q = Carve(z)[p], NEW x \in Nat,
         q <= x, x < q + 2^CarveOrder(q, Beyond(z))
  PROVE  x \in PagesIn(z) /\ Carve(z)[x] = q
<1> DEFINE E == Beyond(z)
           D == 2^CarveOrder(q, E)
<1>1. /\ q \in PagesIn(z) /\ q \in Nat /\ p \in Nat /\ q <= p /\ p < q + D /\ E \in Nat /\ First(z) \in Nat
      /\ \A y \in q .. p : Carve(z)[y] = q
  BY AllCarved, ZoneFacts DEF Carved
<1>2. First(z) <= q /\ q < E
  BY <1>1 DEF PagesIn
<1>3. q + D <= E /\ D \in Nat
  <2>1. CarveOrder(q, E) \in Nat /\ q + D <= E
    BY <1>1, <1>2, CarveOrderIs, ZoneFacts
  <2> QED
    BY <2>1, Power
<1> HIDE DEF D, E
<1>4. \A y \in Nat : q <= y /\ y < q + D => y \in PagesIn(z)
  BY <1>1, <1>2, <1>3 DEF PagesIn, E
<1> DEFINE bad == {y \in Nat : q <= y /\ y < q + D /\ Carve(z)[y] # q}
<1>5. bad = {}
  <2> SUFFICES ASSUME bad # {} PROVE FALSE
    OBVIOUS
  <2>1. PICK n \in bad : \A m \in bad : n <= m
    <3>1. bad \subseteq Nat
      OBVIOUS
    <3> HIDE DEF bad
    <3> QED
      BY <3>1, LeastExists
  <2>2. n \in Nat /\ q <= n /\ n < q + D /\ Carve(z)[n] # q
    BY <2>1
  <2>3. p < n
    BY <1>1, <2>2
  <2>4. n - 1 \in Nat /\ q <= n - 1 /\ n - 1 < q + D /\ n - 1 \notin bad
    BY <1>1, <1>3, <2>1, <2>2, <2>3
  <2>5. Carve(z)[n - 1] = q
    BY <2>4
  <2>6. Carve(z)[n] = CarveNext(z, Carve(z), n) /\ n # First(z)
    BY <1>1, <1>2, <1>4, <2>2, <2>3, CarveStep
  <2> QED
    BY <2>2, <2>5, <2>6 DEF CarveNext, D, E
<1> QED
  BY <1>4, <1>5 DEF D, E

(* What the allocator needs of it: the block of order max_order around a   *)
(* page is made of pages of the region and of one zone, and they agree on  *)
(* max_order.                                                              *)
LEMMA MaxOrderIs ==
  ASSUME NEW p \in Page
  PROVE  /\ max_order[p] \in Order
         /\ \A x \in Nat : Head(x, max_order[p]) = Head(p, max_order[p]) =>
              x \in Page /\ ZoneOf(x) = ZoneOf(p) /\ max_order[x] = max_order[p]
<1> DEFINE z == ZoneOf(p)
           q == Carve(z)[p]
           M == CarveOrder(q, Beyond(z))
<1>1. z \in Zone /\ p \in PagesIn(z) /\ p \in Nat
  BY ZoneFacts
<1>2. max_order[p] = M
  BY DEF max_order
<1>3. q \in PagesIn(z) /\ q \in Nat /\ q <= p /\ p < q + 2^M /\ Beyond(z) \in Nat
  BY <1>1, AllCarved, ZoneFacts DEF Carved
<1>4. M \in Order /\ M \in Nat /\ Head(q, M) = q
  <2>1. q < Beyond(z)
    BY <1>3, ZoneFacts DEF PagesIn
  <2> QED
    BY <1>3, <2>1, CarveOrderIs, ZoneFacts
<1>5. Head(p, M) = q
  <2>1. p \in Pages(q, M)
    <3> HIDE DEF M, q
    <3> QED
      BY <1>1, <1>3, <1>4, Power DEF Pages
  <2> HIDE DEF M, q, z
  <2> QED
    BY <1>1, <1>3, <1>4, <2>1, InBlock
<1>6. ASSUME NEW x \in Nat, Head(x, M) = q PROVE x \in Page /\ ZoneOf(x) = z /\ max_order[x] = M
  <2>1. q <= x /\ x < q + 2^M
    BY <1>4, <1>6, HeadFacts
  <2>2. x \in PagesIn(z) /\ Carve(z)[x] = q
    BY <1>1, <2>1, CarvedToEnd
  <2>3. x \in Page /\ ZoneOf(x) = z
    BY <1>1, <2>2, ZoneFacts
  <2> QED
    BY <2>2, <2>3 DEF max_order
<1> HIDE DEF M, z, q
<1>7. \A x \in Nat : Head(x, M) = q => x \in Page /\ ZoneOf(x) = z /\ max_order[x] = M
  BY <1>6
<1> QED
  BY <1>2, <1>4, <1>5, <1>7 DEF z
---------------------------------------------------------------------------
(* The inductive invariant.  A page x is in the block of order k at p when *)
(* Head(x, k) = p.                                                         *)

OrderOf(b) == pagecount_to_order(b.pages)

(* The blocks of the calls at one of the labels L.                         *)
Underway == {"alloc_mark", "alloc_load", "alloc_store", "free_store", "free_mark", "free_merge"}
AllocLabels == {"alloc_mark", "alloc_load", "alloc_store"}
FreeLabels == {"free_store", "free_mark", "free_merge"}
CountLabels == Underway \ {"free_store"}
CallsAt(L) == {blk[a] : a \in {c \in Actor : pc[c] \in L}}
Busy == held \cup CallsAt(Underway)

(* A block is aligned and inside one that pmm_region_add has carved.       *)
Fits(p, k) == p \in Page /\ k \in Order /\ k <= max_order[p] /\ Head(p, k) = p

Shapes ==
  /\ order \in [Page -> Order] /\ free \in [Page -> BOOLEAN]
  /\ lists \in [Zone -> [Order -> SUBSET Page]]
  /\ held \subseteq Block
  /\ pc \in [Actor -> {"idle", "alloc_mark", "alloc_load", "alloc_store",
                       "free_store", "free_mark", "free_merge"}]
  /\ blk \in [Actor -> Block \cup {NoBlock}]
  /\ \A a \in Actor : pc[a] # "idle" => blk[a] \in Block /\ blk[a] \notin held
  /\ \A a, c \in Actor : pc[a] # "idle" /\ pc[c] # "idle" /\ blk[a] = blk[c] => a = c
  /\ booting \in BOOLEAN /\ raced \in BOOLEAN /\ lost \in BOOLEAN

(* What the blocks say of themselves.                                      *)
ListsTrue ==
  \A z \in Zone, k \in Order : \A p \in lists[z][k] :
    ZoneOf(p) = z /\ Fits(p, k) /\ free[p] /\ order[p] = k

HeldTrue ==
  \A b \in held : Fits(b.page, OrderOf(b)) /\ ~free[b.page] /\ order[b.page] = OrderOf(b)

CallTrue ==
  \A a \in Actor :
    /\ pc[a] # "idle" => Fits(blk[a].page, OrderOf(blk[a]))
    /\ pc[a] \in {"alloc_load", "alloc_store", "free_store", "free_mark", "free_merge"} =>
         order[blk[a].page] = OrderOf(blk[a])
    /\ pc[a] \in {"alloc_load", "alloc_store", "free_store", "free_mark"} => ~free[blk[a].page]
    /\ pc[a] = "free_merge" => free[blk[a].page]

(* No page is in two blocks, and the reserved ones are in none.            *)
ListedApart ==
  \A z \in Zone, i, j \in Order, x \in Page :
    \A p \in lists[z][i], q \in lists[z][j] : Head(x, i) = p /\ Head(x, j) = q => p = q

BusyApart ==
  \A b, c \in Busy, x \in Page :
    Head(x, OrderOf(b)) = b.page /\ Head(x, OrderOf(c)) = c.page => b = c

KindsApart ==
  \A z \in Zone, k \in Order, x \in Page : \A p \in lists[z][k], b \in Busy :
    ~(Head(x, k) = p /\ Head(x, OrderOf(b)) = b.page)

ReservedApart ==
  \A x \in Reserved :
    /\ \A z \in Zone, k \in Order : \A p \in lists[z][k] : Head(x, k) # p
    /\ \A b \in Busy : Head(x, OrderOf(b)) # b.page

(* Pages inside a block keep old values of free and order.  One that looks *)
(* like a free block, aligned to its order, is on a list: after a merge    *)
(* the upper half has an order it is not aligned to.                       *)
NoGhosts ==
  \A q \in Page : free[q] /\ Head(q, order[q]) = q =>
    \/ q \in lists[ZoneOf(q)][order[q]]
    \/ \E a \in Actor : pc[a] \in {"alloc_mark", "free_merge"} /\ blk[a].page = q

(* free_page_count is ahead of the lists by the blocks of calls.           *)
Spread(S) == UNION {PagesOf(b) : b \in S}
CountedPages == Listed \cup Spread(CallsAt(CountLabels))

Counted ==
  /\ free_page_count \in [Zone -> Int] /\ seen \in [Actor -> Int]
  /\ lost \/ \A z \in Zone : free_page_count[z] = Cardinality(CountedPages \cap PagesIn(z))

Blocks == /\ Shapes /\ ListsTrue /\ HeldTrue /\ CallTrue
          /\ ListedApart /\ BusyApart /\ KindsApart /\ ReservedApart /\ NoGhosts

IInv == Blocks /\ Coalesced /\ Counted
---------------------------------------------------------------------------
LEMMA PowerZero ==
  ASSUME NEW k, k = 0
  PROVE  2^k = 1
<1>1. 2^0 = 1
  OBVIOUS
<1> QED
  BY <1>1, Zenon

(* pagecount_to_order finds the smallest block that fits.                  *)
LEMMA OrderIs ==
  ASSUME NEW pages \in 1 .. 2^PMM_MAX_ORDER
  PROVE  /\ pagecount_to_order(pages) \in Order
         /\ pages <= 2^pagecount_to_order(pages) /\ pages > 2^pagecount_to_order(pages) \div 2
<1>1. PMM_MAX_ORDER \in Nat /\ PMM_MAX_ORDER <= 64 /\ 2^PMM_MAX_ORDER \in Nat
  BY RegionAssumption, Power
<1>2. CASE pages = 1
  <2> DEFINE k == pagecount_to_order(pages)
             D == 2^k
  <2>1. k = 0
    BY <1>2 DEF pagecount_to_order
  <2>2. D = 1
    BY <2>1, PowerZero
  <2>3. k \in Order
    BY <2>1, ZoneFacts
  <2> HIDE DEF D
  <2>4. pages <= D /\ pages > D \div 2
    BY <1>2, <2>2
  <2> QED
    BY <2>3, <2>4 DEF D
<1>3. CASE pages # 1
  <2> DEFINE x == pages - 1
             S == {b \in Nat : x < 2^b}
             c == BitLength(x)
  <2>1. x \in Nat /\ x >= 1 /\ x < 2^PMM_MAX_ORDER /\ pages = x + 1
    BY <1>1, <1>3
  <2> HIDE DEF x
  <2>2. S \subseteq Nat /\ PMM_MAX_ORDER \in S
    BY <1>1, <2>1
  <2>3. PICK b \in S : \A m \in S : b <= m
    <3> HIDE DEF S
    <3> QED
      BY <2>2, LeastExists
  <2>4. b \in Nat /\ x < 2^b /\ b <= PMM_MAX_ORDER /\ b # 0
    <3>1. b \in Nat /\ x < 2^b /\ b <= PMM_MAX_ORDER
      BY <2>2, <2>3
    <3>2. b = 0 => 2^b = 1
      BY PowerZero
    <3> QED
      BY <2>1, <3>1, <3>2
  <2>5. b - 1 \in Nat /\ b - 1 \notin S
    BY <2>3, <2>4
  <2>6. 2^(b - 1) <= x
    <3>1. 2^(b - 1) \in Nat
      BY <2>5, Power
    <3> QED
      BY <2>1, <2>5, <3>1
  <2>7. b \in 1 .. 64
    BY <1>1, <2>4
  <2>8. c \in 1 .. 64 /\ 2^(c - 1) <= x /\ x < 2^c
    <3> HIDE DEF S
    <3> QED
      BY <2>4, <2>6, <2>7 DEF BitLength
  <2>9. pagecount_to_order(pages) = c
    BY <1>3 DEF pagecount_to_order, x
  <2> HIDE DEF c, S
  <2>10. c \in Nat /\ c - 1 \in Nat /\ (c - 1) + 1 = c
    BY <2>8
  <2>11. 2^c = 2 * 2^(c - 1) /\ 2^(c - 1) \in Nat
    BY <2>10, Power
  <2>12. c <= PMM_MAX_ORDER
    <3> SUFFICES ASSUME PMM_MAX_ORDER < c PROVE FALSE
      BY <1>1, <2>10
    <3>1. 2^PMM_MAX_ORDER <= 2^(c - 1)
      <4>1. CASE PMM_MAX_ORDER = c - 1
        BY <1>1, <4>1
      <4>2. CASE PMM_MAX_ORDER < c - 1
        BY <1>1, <2>10, <2>11, <4>2, PowerGrows
      <4> QED
        BY <1>1, <2>10, <4>1, <4>2
    <3> QED
      BY <1>1, <2>1, <2>8, <2>11, <3>1
  <2>13. pages <= 2^c /\ pages > 2^c \div 2
    BY <2>1, <2>8, <2>11
  <2> QED
    BY <1>1, <2>9, <2>10, <2>12, <2>13 DEF Order
<1> QED
  BY <1>2, <1>3

LEMMA BlockOrder ==
  ASSUME NEW b \in Block
  PROVE  b.page \in Page /\ b.page \in Nat /\ OrderOf(b) \in Order /\ OrderOf(b) \in Nat
BY OrderIs, ZoneFacts DEF Block, OrderOf

(* Everything within the carved block of a page is like the page.          *)
LEMMA Around ==
  ASSUME NEW p \in Page, NEW j \in Nat, j <= max_order[p], NEW x \in Nat, Head(x, j) = Head(p, j)
  PROVE  x \in Page /\ ZoneOf(x) = ZoneOf(p) /\ max_order[x] = max_order[p]
<1>1. p \in Nat /\ max_order[p] \in Nat
  BY MaxOrderIs, ZoneFacts
<1>2. Head(x, max_order[p]) = Head(p, max_order[p])
  BY <1>1, Nest
<1> QED
  BY <1>2, MaxOrderIs

LEMMA HeadFits ==
  ASSUME NEW p \in Page, NEW j \in Order, j <= max_order[p]
  PROVE  Fits(Head(p, j), j) /\ ZoneOf(Head(p, j)) = ZoneOf(p) /\ max_order[Head(p, j)] = max_order[p]
<1>1. p \in Nat /\ j \in Nat
  BY ZoneFacts
<1>2. Head(p, j) \in Nat /\ Head(Head(p, j), j) = Head(p, j)
  BY <1>1, HeadFacts, HeadHead
<1> QED
  BY <1>1, <1>2, Around DEF Fits

LEMMA BuddyFits ==
  ASSUME NEW p \in Page, NEW j \in Nat, j < max_order[p]
  PROVE  Fits(Buddy(p, j), j) /\ ZoneOf(Buddy(p, j)) = ZoneOf(p) /\ max_order[Buddy(p, j)] = max_order[p]
<1>1. p \in Nat /\ max_order[p] \in Nat /\ j + 1 \in Nat /\ j + 1 <= max_order[p] /\ j \in Order
  BY MaxOrderIs, ZoneFacts, RegionAssumption DEF Order
<1>2. Halves(p, j)
  BY <1>1, BuddyIs
<1>3. Buddy(p, j) \in Nat /\ Head(Buddy(p, j), j + 1) = Head(p, j + 1) /\ Head(Buddy(p, j), j) = Buddy(p, j)
  BY <1>2 DEF Halves
<1>4. Buddy(p, j) \in Page /\ ZoneOf(Buddy(p, j)) = ZoneOf(p) /\ max_order[Buddy(p, j)] = max_order[p]
  BY <1>1, <1>3, Around
<1> QED
  BY <1>1, <1>3, <1>4 DEF Fits

LEMMA BuddyBuddy ==
  ASSUME NEW p \in Nat, NEW j \in Nat, Head(p, j) = p
  PROVE  Buddy(p, j) # p /\ Buddy(Buddy(p, j), j) = p
<1>1. Halves(p, j) /\ 2^j \in Nat /\ 2^j >= 1
  BY BuddyIs, Power
<1>2. Buddy(p, j) \in Nat
  BY <1>1 DEF Halves
<1>3. Halves(Buddy(p, j), j)
  BY <1>2, BuddyIs
<1> DEFINE b == Buddy(p, j)
           c == Buddy(b, j)
           H == Head(p, j + 1)
           D == 2^j
<1>4. /\ p \in Nat /\ b \in Nat /\ c \in Nat /\ H \in Nat /\ D \in Nat /\ D >= 1
      /\ (H = p /\ b = p + D) \/ (H = b /\ p = b + D)
  BY <1>1, <1>3 DEF Halves
<1>5. (H = b /\ c = b + D) \/ (H = c /\ b = c + D)
  <2>1. Head(b, j) = b /\ Head(b, j + 1) = H
    BY <1>1 DEF Halves
  <2> QED
    BY <1>3, <2>1 DEF Halves
<1> HIDE DEF b, c, H, D
<1>6. b # p /\ c = p
  BY <1>4, <1>5
<1> QED
  BY <1>6 DEF b, c

(* How the blocks of the calls at L change when one call moves.            *)
LEMMA CallsMove ==
  ASSUME Shapes, NEW a \in Actor, NEW L, "idle" \notin L, NEW s, pc' = [pc EXCEPT ![a] = s],
         \A c \in Actor : c # a => blk'[c] = blk[c]
  PROVE  /\ pc'[a] = s /\ \A c \in Actor : c # a => pc'[c] = pc[c]
         /\ pc[a] \notin L /\ s \in L => CallsAt(L)' = CallsAt(L) \cup {blk'[a]}
         /\ pc[a] \notin L /\ s \notin L => CallsAt(L)' = CallsAt(L)
         /\ pc[a] \in L /\ s \in L /\ blk'[a] = blk[a] => CallsAt(L)' = CallsAt(L)
         /\ pc[a] \in L /\ s \notin L => blk[a] \in CallsAt(L) /\ CallsAt(L)' = CallsAt(L) \ {blk[a]}
<1>1. pc'[a] = s /\ \A c \in Actor : c # a => pc'[c] = pc[c]
  BY DEF Shapes
<1>2. \A b : b \in CallsAt(L) <=> \E c \in Actor : pc[c] \in L /\ blk[c] = b
  BY DEF CallsAt
<1>3. \A b : b \in CallsAt(L)' <=> \E c \in Actor : pc'[c] \in L /\ blk'[c] = b
  BY DEF CallsAt
<1>4. ASSUME pc[a] \in L, s \notin L PROVE blk[a] \in CallsAt(L) /\ CallsAt(L)' = CallsAt(L) \ {blk[a]}
  <2>1. \A c \in Actor : c # a /\ pc[c] \in L => blk[c] # blk[a]
    BY <1>4 DEF Shapes
  <2> QED
    BY <1>1, <1>2, <1>3, <1>4, <2>1
<1>5. pc[a] \notin L /\ s \in L => CallsAt(L)' = CallsAt(L) \cup {blk'[a]}
  BY <1>1, <1>2, <1>3
<1>6. pc[a] \notin L /\ s \notin L => CallsAt(L)' = CallsAt(L)
  BY <1>1, <1>2, <1>3
<1>7. ASSUME pc[a] \in L, s \in L, blk'[a] = blk[a] PROVE CallsAt(L)' = CallsAt(L)
  <2>1. \A c \in Actor : (pc'[c] \in L <=> pc[c] \in L) /\ blk'[c] = blk[c]
    BY <1>1, <1>7
  <2>2. \A b : b \in CallsAt(L)' <=> b \in CallsAt(L)
    BY <1>2, <1>3, <2>1
  <2> QED
    BY <2>2
<1> QED
  BY <1>1, <1>4, <1>5, <1>6, <1>7

(* A call that is not idle has its block in Busy.                          *)
LEMMA CallIsBusy ==
  ASSUME Shapes, NEW a \in Actor
  PROVE  /\ pc[a] # "idle" <=> pc[a] \in Underway
         /\ pc[a] # "idle" => blk[a] \in Busy
BY DEF Shapes, Underway, Busy, CallsAt

(* Every block in Busy is held or of a call, has its shape and its place.  *)
LEMMA BusyIs ==
  ASSUME Blocks, NEW b \in Busy
  PROVE  /\ b \in held \/ \E a \in Actor : pc[a] # "idle" /\ blk[a] = b
         /\ b \in Block /\ b.page \in Page /\ OrderOf(b) \in Order
         /\ Fits(b.page, OrderOf(b)) /\ Head(b.page, OrderOf(b)) = b.page
<1>1. b \in held \/ \E a \in Actor : pc[a] # "idle" /\ blk[a] = b
  BY DEF Busy, CallsAt, Underway
<1>2. b \in Block /\ Fits(b.page, OrderOf(b))
  BY <1>1 DEF Blocks, Shapes, HeldTrue, CallTrue
<1> QED
  BY <1>1, <1>2 DEF Fits

(* The pages of a block, and the pages of the free lists.                  *)
LEMMA PagesAre ==
  ASSUME NEW p, NEW k, Fits(p, k), NEW x
  PROVE  x \in Pages(p, k) <=> x \in Page /\ Head(x, k) = p
<1>1. p \in Page /\ p \in Nat /\ k \in Nat /\ k <= max_order[p] /\ Head(p, k) = p
  BY ZoneFacts DEF Fits
<1>2. ASSUME x \in Pages(p, k) PROVE x \in Page /\ Head(x, k) = p
  <2>1. x \in Nat
    BY <1>1, <1>2, PagesAreNat
  <2>2. Head(x, k) = p
    BY <1>1, <1>2, <2>1, InBlock
  <2> QED
    BY <1>1, <2>1, <2>2, Around
<1>3. ASSUME x \in Page, Head(x, k) = p PROVE x \in Pages(p, k)
  <2>1. x \in Nat
    BY <1>3, ZoneFacts
  <2> QED
    BY <1>1, <1>3, <2>1, InBlock
<1> QED
  BY <1>2, <1>3

LEMMA ListedIs ==
  ASSUME ListsTrue, NEW x
  PROVE  x \in Listed <=> x \in Page /\ \E z \in Zone, k \in Order : Head(x, k) \in lists[z][k]
<1>1. x \in Listed <=> \E z \in Zone, k \in Order : \E p \in lists[z][k] : x \in Pages(p, k)
  <2> DEFINE U(z, k) == UNION {Pages(p, k) : p \in lists[z][k]}
  <2>1. \A z, k : x \in U(z, k) <=> \E p \in lists[z][k] : x \in Pages(p, k)
    OBVIOUS
  <2>2. Listed = UNION {U(z, k) : z \in Zone, k \in Order}
    BY DEF Listed
  <2> HIDE DEF U
  <2>3. x \in Listed <=> \E z \in Zone, k \in Order : x \in U(z, k)
    BY <2>2
  <2> QED
    BY <2>1, <2>3
<1>2. \A z \in Zone, k \in Order : \A p \in lists[z][k] : x \in Pages(p, k) <=> x \in Page /\ Head(x, k) = p
  BY PagesAre DEF ListsTrue
<1> QED
  BY <1>1, <1>2

LEMMA PagesOfIs ==
  ASSUME NEW b, Fits(b.page, OrderOf(b)), NEW x
  PROVE  x \in PagesOf(b) <=> x \in Page /\ Head(x, OrderOf(b)) = b.page
BY PagesAre DEF PagesOf, OrderOf
---------------------------------------------------------------------------
(* pmm_alloc takes a block b of order v off its list and gives the buddies *)
(* of what is left, down to order k, back to the lists.                    *)
IsSplit(z, b, v, k) ==
  /\ z \in Zone /\ k \in Order /\ v \in Order /\ k <= v /\ b \in lists[z][v] /\ Fits(b, v) /\ ZoneOf(b) = z
  /\ \A j \in k .. v - 1 : /\ j \in Order /\ Buddy(b, j) = b + 2^j /\ Buddy(b, j) # b
                           /\ Fits(Buddy(b, j), j) /\ ZoneOf(Buddy(b, j)) = z
                           /\ Head(Buddy(b, j), v) = b
  /\ \A x \in Page : Head(x, v) = b <=> Head(x, k) = b \/ \E j \in k .. v - 1 : Head(x, j) = Buddy(b, j)
  /\ \A x \in Page, i, j \in k .. v - 1 : Head(x, i) = Buddy(b, i) /\ Head(x, j) = Buddy(b, j) => i = j
  /\ \A x \in Page, j \in k .. v - 1 : Head(x, j) = Buddy(b, j) => Head(x, k) # b
  /\ \A x \in Page, i \in Order : Head(x, v) = b /\ Head(x, i) \in lists[z][i] => Head(x, i) = b /\ i = v
  /\ \A x \in Page, c \in Busy : Head(x, v) = b => Head(x, OrderOf(c)) # c.page

LEMMA SplitFacts ==
  ASSUME Blocks, NEW z \in Zone, NEW v \in Order, NEW k \in Order, k <= v, NEW b \in lists[z][v]
  PROVE  IsSplit(z, b, v, k)
<1>1. /\ b \in Page /\ b \in Nat /\ v \in Nat /\ k \in Nat /\ Fits(b, v) /\ ZoneOf(b) = z /\ order[b] = v
      /\ v <= max_order[b] /\ Head(b, v) = b /\ max_order[b] \in Nat
  <2>1. Fits(b, v) /\ ZoneOf(b) = z /\ order[b] = v
    BY DEF Blocks, ListsTrue
  <2>2. b \in Page /\ v <= max_order[b] /\ Head(b, v) = b
    BY <2>1 DEF Fits
  <2>3. max_order[b] \in Order
    BY <2>2, MaxOrderIs
  <2> QED
    BY <2>1, <2>2, <2>3, ZoneFacts
<1>2. Head(b, k) = b
  BY <1>1, AlignedDown
<1>3. \A x \in Page : x \in Nat
  BY ZoneFacts
<1>4. ASSUME NEW j \in k .. v - 1
      PROVE  /\ j \in Nat /\ j \in Order /\ Buddy(b, j) = b + 2^j /\ Buddy(b, j) # b
             /\ Fits(Buddy(b, j), j) /\ ZoneOf(Buddy(b, j)) = z /\ Head(b, j) = b
             /\ Head(Buddy(b, j), v) = b
  <2>1. j \in Nat /\ j < v /\ j < max_order[b] /\ k <= j
    BY <1>1
  <2>2. Head(b, j) = b /\ Buddy(b, j) = b + 2^j
    BY <1>1, <2>1, BuddyAbove
  <2>3. Fits(Buddy(b, j), j) /\ ZoneOf(Buddy(b, j)) = z
    BY <1>1, <2>1, BuddyFits
  <2>4. Buddy(b, j) \in Nat /\ Head(Buddy(b, j), j) = Buddy(b, j) /\ j \in Order
    BY <2>3, ZoneFacts DEF Fits
  <2>5. Head(Buddy(b, j), v) = Head(b, v)
    BY <1>1, <2>1, <2>4, BuddyLevel
  <2>6. Buddy(b, j) # b
    BY <1>1, <2>1, <2>2, BuddyBuddy
  <2> QED
    BY <1>1, <2>1, <2>2, <2>3, <2>4, <2>5, <2>6
<1>5. ASSUME NEW x \in Page
      PROVE  Head(x, v) = b <=> Head(x, k) = b \/ \E j \in k .. v - 1 : Head(x, j) = Buddy(b, j)
  BY <1>1, <1>2, <1>3, Parts
<1>6. ASSUME NEW x \in Page, NEW j \in k .. v - 1, NEW i \in k .. v - 1, Head(x, j) = Buddy(b, j)
      PROVE  Head(x, i) = b <=> j < i
  BY <1>1, <1>3, <1>4, <1>6, BuddyLevel
<1>7. ASSUME NEW x \in Page, NEW i \in k .. v - 1, NEW j \in k .. v - 1,
             Head(x, i) = Buddy(b, i), Head(x, j) = Buddy(b, j)
      PROVE  i = j
  <2>1. Buddy(b, i) # b /\ Buddy(b, j) # b /\ i \in Nat /\ j \in Nat
    BY <1>4
  <2>2. ~(j < i) /\ ~(i < j)
    BY <1>6, <1>7, <2>1
  <2> QED
    BY <2>1, <2>2
<1>8. ASSUME NEW x \in Page, NEW j \in k .. v - 1, Head(x, j) = Buddy(b, j) PROVE Head(x, k) # b
  <2>1. Head(x, k) = Head(b, k) <=> j < k
    BY <1>1, <1>3, <1>4, <1>8, BuddyLevel
  <2> QED
    BY <1>1, <1>2, <2>1
<1>9. ASSUME NEW x \in Page, NEW i \in Order, Head(x, v) = b, Head(x, i) \in lists[z][i]
      PROVE  Head(x, i) = b /\ i = v
  <2>1. Head(x, i) = b
    BY <1>9 DEF Blocks, ListedApart
  <2>2. order[b] = i
    BY <1>9, <2>1 DEF Blocks, ListsTrue
  <2> QED
    BY <1>1, <2>1, <2>2
<1>10. ASSUME NEW x \in Page, NEW c \in Busy, Head(x, v) = b PROVE Head(x, OrderOf(c)) # c.page
  BY <1>10 DEF Blocks, KindsApart
<1> QED
  BY <1>1, <1>4, <1>5, <1>7, <1>8, <1>9, <1>10 DEF IsSplit

(* What AllocTake does, read through IsSplit.                              *)
TakesBlock(a, z, b, v, k) ==
  /\ IsSplit(z, b, v, k)
  /\ pc[a] = "idle" /\ pc' = [pc EXCEPT ![a] = "alloc_mark"] /\ held' = held /\ ~booting /\ booting' = booting
  /\ blk'[a] \in Block /\ blk'[a].page = b /\ OrderOf(blk'[a]) = k /\ blk' = [blk EXCEPT ![a] = blk'[a]]
  /\ free_page_count' = free_page_count /\ seen' = seen /\ raced' = raced /\ lost' = lost
  /\ lists' \in [Zone -> [Order -> SUBSET Page]]
  /\ \A y \in Zone, j \in Order : \A q :
       q \in lists'[y][j] <=> \/ q \in lists[y][j] /\ ~(q = b /\ j = v)
                              \/ y = z /\ j \in k .. v - 1 /\ q = Buddy(b, j)
  /\ order' \in [Page -> Order] /\ free' \in [Page -> BOOLEAN]
  /\ \A q \in Page : (\A j \in k .. v - 1 : q # Buddy(b, j)) => order'[q] = order[q] /\ free'[q] = free[q]
  /\ \A j \in k .. v - 1 : order'[Buddy(b, j)] = j /\ free'[Buddy(b, j)]

LEMMA AllocTakes ==
  ASSUME Blocks, NEW a \in Actor, AllocTake(a)
  PROVE  \E z \in Zone, v \in Order, k \in Order : \E b \in lists[z][v] : TakesBlock(a, z, b, v, k)
<1>1. PICK pages \in 1 .. 2^PMM_MAX_ORDER, z \in Zone :
        LET k == pagecount_to_order(pages) IN
        /\ AvlOrders(z, k) # {}
        /\ LET v == Min(AvlOrders(z, k)) IN
           \E b \in lists[z][v] : /\ Split(z, b, v, k)
                                  /\ blk' = [blk EXCEPT ![a] = [page |-> b, pages |-> pages]]
  BY DEF AllocTake
<1> DEFINE k == pagecount_to_order(pages)
           v == Min(AvlOrders(z, k))
<1>2. k \in Order /\ k \in Nat
  BY OrderIs, ZoneFacts
<1>3. v \in AvlOrders(z, k)
  <2>1. AvlOrders(z, k) \subseteq Nat /\ AvlOrders(z, k) # {}
    BY <1>1, <1>2, RegionAssumption DEF AvlOrders
  <2> HIDE DEF k
  <2> QED
    BY <2>1, MinIs
<1>4. v \in Order /\ v \in Nat /\ k <= v
  BY <1>2, <1>3, RegionAssumption DEF AvlOrders, Order
<1>5. PICK b \in lists[z][v] : /\ Split(z, b, v, k)
                               /\ blk' = [blk EXCEPT ![a] = [page |-> b, pages |-> pages]]
  BY <1>1
<1> HIDE DEF k, v
<1>6. IsSplit(z, b, v, k)
  BY <1>2, <1>4, <1>5, SplitFacts
<1>7. /\ b \in Page /\ b \in Nat /\ ZoneOf(b) = z
      /\ \A j \in k .. v - 1 : j \in Nat /\ j \in Order /\ Buddy(b, j) = b + 2^j /\ Buddy(b, j) \in Page
  BY <1>2, <1>4, <1>6, ZoneFacts DEF IsSplit, Fits
<1>8. \A i, j \in k .. v - 1 : b + 2^i = b + 2^j => i = j
  <2> TAKE i, j \in k .. v - 1
  <2>1. i \in Nat /\ j \in Nat /\ 2^i \in Nat /\ 2^j \in Nat /\ 2^i >= 1 /\ 2^j >= 1
    BY <1>7, Power
  <2>2. i < j => 2 * 2^i <= 2^j
    BY <2>1, PowerGrows
  <2>3. j < i => 2 * 2^j <= 2^i
    BY <2>1, PowerGrows
  <2> QED
    BY <1>7, <2>1, <2>2, <2>3
<1>9. blk'[a] = [page |-> b, pages |-> pages] /\ blk' = [blk EXCEPT ![a] = blk'[a]]
  BY <1>5 DEF Blocks, Shapes
<1>10. blk'[a] \in Block /\ blk'[a].page = b /\ OrderOf(blk'[a]) = k
  BY <1>7, <1>9 DEF Block, OrderOf, k
<1>11. /\ lists' = [lists EXCEPT ![z] = [j \in Order |->
            (lists[z][j] \ (IF j = v THEN {b} ELSE {})) \cup (IF j \in k..(v - 1) THEN {b + 2^j} ELSE {})]]
       /\ order' = [p \in Page |-> IF \E j \in k..(v - 1) : p = b + 2^j
                                   THEN CHOOSE j \in k..(v - 1) : p = b + 2^j ELSE order[p]]
       /\ free' = [p \in Page |-> free[p] \/ \E j \in k..(v - 1) : p = b + 2^j]
  BY <1>5 DEF Split
<1>12. lists \in [Zone -> [Order -> SUBSET Page]] /\ order \in [Page -> Order] /\ free \in [Page -> BOOLEAN]
  BY DEF Blocks, Shapes
<1>13. ASSUME NEW y \in Zone, NEW j \in Order
       PROVE  /\ lists'[y][j] \subseteq Page
              /\ \A q : q \in lists'[y][j] <=> \/ q \in lists[y][j] /\ ~(q = b /\ j = v)
                                               \/ y = z /\ j \in k .. v - 1 /\ q = Buddy(b, j)
  <2>1. lists[y][j] \subseteq Page
    BY <1>12
  <2>2. CASE y = z
    <3>1. lists'[y][j] = (lists[y][j] \ (IF j = v THEN {b} ELSE {})) \cup (IF j \in k..(v - 1) THEN {b + 2^j} ELSE {})
      BY <1>11, <1>12, <2>2
    <3> QED
      BY <1>7, <2>1, <2>2, <3>1
  <2>3. CASE y # z
    <3>1. lists'[y][j] = lists[y][j]
      BY <1>11, <1>12, <2>3
    <3>2. b \notin lists[y][j]
      BY <1>7, <2>3 DEF Blocks, ListsTrue
    <3> QED
      BY <2>1, <2>3, <3>1, <3>2
  <2> QED
    BY <2>2, <2>3
<1>14. lists' \in [Zone -> [Order -> SUBSET Page]]
  <2>1. \A y \in Zone : lists'[y] = [j \in Order |-> lists'[y][j]]
    BY <1>11, <1>12
  <2>2. lists' = [y \in Zone |-> lists'[y]]
    BY <1>11, <1>12
  <2> QED
    BY <1>13, <2>1, <2>2
<1>15. ASSUME NEW q \in Page, \A j \in k .. v - 1 : q # Buddy(b, j) PROVE order'[q] = order[q] /\ free'[q] = free[q]
  BY <1>7, <1>11, <1>12, <1>15
<1>16. ASSUME NEW j \in k .. v - 1 PROVE order'[Buddy(b, j)] = j /\ free'[Buddy(b, j)]
  <2>1. (CHOOSE i \in k .. (v - 1) : b + 2^j = b + 2^i) = j
    BY <1>8
  <2> QED
    BY <1>7, <1>11, <2>1
<1>17. order' \in [Page -> Order] /\ free' \in [Page -> BOOLEAN]
  <2>1. \A q \in Page : order'[q] \in Order
    BY <1>7, <1>12, <1>15, <1>16
  <2>2. order' = [q \in Page |-> order'[q]]
    BY <1>11
  <2>3. free' \in [Page -> BOOLEAN]
    BY <1>11, <1>12
  <2> QED
    BY <2>1, <2>2, <2>3
<1>18. /\ pc[a] = "idle" /\ pc' = [pc EXCEPT ![a] = "alloc_mark"] /\ held' = held /\ ~booting /\ booting' = booting
       /\ free_page_count' = free_page_count /\ seen' = seen /\ raced' = raced /\ lost' = lost
  BY DEF AllocTake, Goto
<1>19. TakesBlock(a, z, b, v, k)
  BY <1>6, <1>9, <1>10, <1>13, <1>14, <1>15, <1>16, <1>17, <1>18 DEF TakesBlock
<1> QED
  BY <1>2, <1>4, <1>5, <1>19

(* Splitting keeps the blocks apart and the lists complete.                *)
LEMMA SplitKeeps ==
  ASSUME Blocks, Coalesced, NEW a \in Actor, NEW z, NEW b, NEW v, NEW k, TakesBlock(a, z, b, v, k)
  PROVE  Blocks' /\ Coalesced'
<1> DEFINE B == blk'[a]
           Parts1(j, q) == j \in k .. v - 1 /\ q = Buddy(b, j)
           Old(y, j, q) == q \in lists[y][j] /\ ~(q = b /\ j = v)
           New(y, j, q) == y = z /\ Parts1(j, q)
<1>2. /\ z \in Zone /\ k \in Order /\ v \in Order /\ k <= v /\ b \in lists[z][v] /\ Fits(b, v) /\ ZoneOf(b) = z
      /\ k \in Nat /\ v \in Nat
  BY ZoneFacts DEF TakesBlock, IsSplit
<1>3. \A j \in k .. v - 1 : /\ j \in Order /\ Buddy(b, j) # b /\ Fits(Buddy(b, j), j)
                            /\ ZoneOf(Buddy(b, j)) = z /\ Head(Buddy(b, j), v) = b
  BY DEF TakesBlock, IsSplit
<1>4. /\ \A x \in Page : Head(x, k) = b => Head(x, v) = b
      /\ \A x \in Page, j \in k .. v - 1 : Head(x, j) = Buddy(b, j) => Head(x, v) = b /\ Head(x, k) # b
      /\ \A x \in Page, i, j \in k .. v - 1 : Head(x, i) = Buddy(b, i) /\ Head(x, j) = Buddy(b, j) => i = j
  BY DEF TakesBlock, IsSplit
<1>5. /\ \A x \in Page, i \in Order : Head(x, v) = b /\ Head(x, i) \in lists[z][i] => Head(x, i) = b /\ i = v
      /\ \A x \in Page, c \in Busy : Head(x, v) = b => Head(x, OrderOf(c)) # c.page
  BY DEF TakesBlock, IsSplit
<1>6. /\ pc[a] = "idle" /\ pc' = [pc EXCEPT ![a] = "alloc_mark"] /\ held' = held /\ booting' = booting
      /\ B \in Block /\ B.page = b /\ OrderOf(B) = k /\ blk' = [blk EXCEPT ![a] = B]
      /\ raced' = raced /\ lost' = lost
  BY DEF TakesBlock
<1>1. pc'[a] = "alloc_mark" /\ blk'[a] = B /\ \A c \in Actor : c # a => pc'[c] = pc[c] /\ blk'[c] = blk[c]
  BY <1>6 DEF Blocks, Shapes
<1>7. \A y \in Zone, j \in Order : \A q : q \in lists'[y][j] <=> Old(y, j, q) \/ New(y, j, q)
  BY DEF TakesBlock
<1>8. /\ \A q \in Page : (\A j \in k .. v - 1 : q # Buddy(b, j)) => order'[q] = order[q] /\ free'[q] = free[q]
      /\ \A j \in k .. v - 1 : order'[Buddy(b, j)] = j /\ free'[Buddy(b, j)]
  BY DEF TakesBlock
<1>9. /\ lists' \in [Zone -> [Order -> SUBSET Page]] /\ order' \in [Page -> Order] /\ free' \in [Page -> BOOLEAN]
  BY DEF TakesBlock
<1>10. Busy' = Busy \cup {B} /\ held \subseteq Busy
  <2>1. Shapes /\ "idle" \notin Underway /\ pc[a] \notin Underway /\ "alloc_mark" \in Underway
    BY <1>6 DEF Blocks, Underway
  <2>2. CallsAt(Underway)' = CallsAt(Underway) \cup {blk'[a]}
    BY <1>1, <1>6, <2>1, CallsMove
  <2> QED
    BY <1>6, <2>2 DEF Busy
<1> HIDE DEF B
<1>11. \A y \in Zone, j \in Order : lists[y][j] \subseteq Page
  BY DEF Blocks, Shapes
(* The heads of the other blocks are not touched. *)
<1>12. ASSUME NEW y \in Zone, NEW j \in Order, NEW q, Old(y, j, q)
       PROVE  /\ q \in Page /\ ZoneOf(q) = y /\ Fits(q, j) /\ free[q] /\ order[q] = j
              /\ \A x \in Page : Head(x, v) = b => Head(x, j) # q
              /\ \A i \in k .. v - 1 : q # Buddy(b, i)
  <2>1. q \in Page /\ ZoneOf(q) = y /\ Fits(q, j) /\ free[q] /\ order[q] = j /\ Head(q, j) = q
    BY <1>12 DEF Blocks, ListsTrue, Fits
  <2>2. ASSUME NEW x \in Page, Head(x, v) = b, Head(x, j) = q PROVE FALSE
    <3>1. ZoneOf(x) = z /\ ZoneOf(x) = y
      <4>1. x \in Pages(b, v) /\ x \in Pages(q, j)
        BY <1>2, <2>1, <2>2, PagesAre
      <4>2. x \in Nat /\ b \in Page /\ v <= max_order[b] /\ Head(b, v) = b /\ j <= max_order[q] /\ j \in Nat
        BY <1>2, <2>1, <2>2, ZoneFacts DEF Fits
      <4>3. ZoneOf(x) = z
        BY <1>2, <2>2, <4>2, Around
      <4>4. ZoneOf(x) = y
        BY <2>1, <2>2, <4>2, Around
      <4> QED
        BY <4>3, <4>4
    <3>2. Head(x, j) \in lists[z][j]
      BY <1>12, <2>2, <3>1
    <3> QED
      BY <1>5, <1>12, <2>2, <3>2
  <2>3. \A i \in k .. v - 1 : q # Buddy(b, i)
    BY <1>3, <2>1, <2>2
  <2> QED
    BY <2>1, <2>2, <2>3
<1>13. ASSUME NEW c \in Busy
       PROVE  /\ c \in Block /\ c.page \in Page /\ Fits(c.page, OrderOf(c))
              /\ \A x \in Page : Head(x, v) = b => Head(x, OrderOf(c)) # c.page
              /\ \A i \in k .. v - 1 : c.page # Buddy(b, i)
              /\ order'[c.page] = order[c.page] /\ free'[c.page] = free[c.page]
  <2>1. c \in Block /\ c.page \in Page /\ Fits(c.page, OrderOf(c)) /\ Head(c.page, OrderOf(c)) = c.page
    BY BusyIs
  <2>2. \A x \in Page : Head(x, v) = b => Head(x, OrderOf(c)) # c.page
    BY <1>5
  <2>3. \A i \in k .. v - 1 : c.page # Buddy(b, i)
    BY <1>3, <2>1, <2>2
  <2> QED
    BY <1>8, <2>1, <2>2, <2>3
<1>14. ASSUME NEW y \in Zone, NEW j \in Order, NEW q, New(y, j, q)
       PROVE  /\ q \in Page /\ y = z /\ j \in k .. v - 1 /\ q = Buddy(b, j) /\ q # b
              /\ ZoneOf(q) = y /\ Fits(q, j) /\ free'[q] /\ order'[q] = j
              /\ \A x \in Page : Head(x, j) = q => Head(x, v) = b /\ Head(x, k) # b
  <2>1. j \in k .. v - 1 /\ q = Buddy(b, j) /\ y = z
    BY <1>14
  <2>2. Fits(q, j) /\ q \in Page
    BY <1>3, <2>1 DEF Fits
  <2> QED
    BY <1>3, <1>4, <1>8, <2>1, <2>2
<1> HIDE DEF Old, New
<1>15. Shapes'
  <2>1. B \notin Busy
    <3> SUFFICES ASSUME B \in Busy PROVE FALSE
      OBVIOUS
    <3>1. b \in Page /\ Head(b, v) = b /\ Head(b, k) = b
      BY <1>2, <1>6, <1>13 DEF Fits
    <3> QED
      BY <1>6, <1>13, <3>1
  <2>2. \A c \in Actor : pc[c] # "idle" => blk[c] \in Busy /\ blk[c] # B
    BY <2>1, CallIsBusy DEF Blocks
  <2>3. \A c \in Actor : pc'[c] # "idle" => blk'[c] \in Block /\ blk'[c] \notin held'
    <3> SUFFICES ASSUME NEW c \in Actor, pc'[c] # "idle" PROVE blk'[c] \in Block /\ blk'[c] \notin held
      BY <1>6
    <3>1. CASE c = a
      BY <1>1, <1>6, <1>10, <2>1, <3>1
    <3>2. CASE c # a
      BY <1>1, <3>2 DEF Blocks, Shapes
    <3> QED
      BY <3>1, <3>2
  <2>4. \A c, d \in Actor : pc'[c] # "idle" /\ pc'[d] # "idle" /\ blk'[c] = blk'[d] => c = d
    <3> SUFFICES ASSUME NEW c \in Actor, NEW d \in Actor, pc'[c] # "idle", pc'[d] # "idle", blk'[c] = blk'[d], c # d
                 PROVE  FALSE
      OBVIOUS
    <3>1. CASE c = a \/ d = a
      BY <1>1, <2>2, <3>1
    <3>2. CASE c # a /\ d # a
      BY <1>1, <3>2 DEF Blocks, Shapes
    <3> QED
      BY <3>1, <3>2
  <2>5. pc' \in [Actor -> {"idle", "alloc_mark", "alloc_load", "alloc_store", "free_store", "free_mark", "free_merge"}]
        /\ blk' \in [Actor -> Block \cup {NoBlock}]
    BY <1>6 DEF Blocks, Shapes
  <2> QED
    BY <1>6, <1>9, <2>3, <2>4, <2>5 DEF Blocks, Shapes
<1>16. ListsTrue'
  <2> SUFFICES ASSUME NEW y \in Zone, NEW j \in Order, NEW q \in lists'[y][j]
               PROVE  ZoneOf(q) = y /\ Fits(q, j) /\ free'[q] /\ order'[q] = j
    BY DEF ListsTrue, Fits
  <2>1. CASE Old(y, j, q)
    BY <1>8, <1>12, <2>1
  <2>2. CASE New(y, j, q)
    BY <1>14, <2>2
  <2> QED
    BY <1>7, <2>1, <2>2
<1>17. HeldTrue'
  <2> SUFFICES ASSUME NEW c \in held
               PROVE  Fits(c.page, OrderOf(c)) /\ ~free'[c.page] /\ order'[c.page] = OrderOf(c)
    BY <1>6 DEF HeldTrue, Fits, OrderOf
  <2>1. Fits(c.page, OrderOf(c)) /\ ~free[c.page] /\ order[c.page] = OrderOf(c)
    BY DEF Blocks, HeldTrue
  <2> QED
    BY <1>10, <1>13, <2>1
<1>18. CallTrue'
  <2>1. Fits(b, k)
    <3>1. b \in Nat /\ Head(b, k) = b
      BY <1>2, AlignedDown, ZoneFacts DEF Fits
    <3>2. max_order[b] \in Nat
      BY <1>2, MaxOrderIs, ZoneFacts DEF Fits
    <3> QED
      BY <1>2, <3>1, <3>2 DEF Fits
  <2>2. pc'[a] = "alloc_mark" /\ blk'[a].page = b /\ OrderOf(blk'[a]) = k
    BY <1>1, <1>6
  <2>3. ASSUME NEW c \in Actor, c # a, pc[c] # "idle"
        PROVE  pc'[c] = pc[c] /\ blk'[c] = blk[c] /\ order'[blk[c].page] = order[blk[c].page]
               /\ free'[blk[c].page] = free[blk[c].page] /\ Fits(blk[c].page, OrderOf(blk[c]))
    BY <1>1, <1>13, <2>3, CallIsBusy DEF Blocks
  <2> SUFFICES ASSUME NEW c \in Actor
               PROVE  /\ pc'[c] # "idle" => Fits(blk'[c].page, OrderOf(blk'[c]))
                      /\ pc'[c] \in {"alloc_load", "alloc_store", "free_store", "free_mark", "free_merge"} =>
                           order'[blk'[c].page] = OrderOf(blk'[c])
                      /\ pc'[c] \in {"alloc_load", "alloc_store", "free_store", "free_mark"} => ~free'[blk'[c].page]
                      /\ pc'[c] = "free_merge" => free'[blk'[c].page]
    BY DEF CallTrue, Fits, OrderOf
  <2>4. CASE c = a
    BY <2>1, <2>2, <2>4
  <2>5. CASE c # a /\ pc[c] # "idle"
    <3>1. /\ pc[c] \in {"alloc_load", "alloc_store", "free_store", "free_mark", "free_merge"} =>
               order[blk[c].page] = OrderOf(blk[c])
          /\ pc[c] \in {"alloc_load", "alloc_store", "free_store", "free_mark"} => ~free[blk[c].page]
          /\ pc[c] = "free_merge" => free[blk[c].page]
      BY DEF Blocks, CallTrue
    <3> QED
      BY <2>3, <2>5, <3>1
  <2>6. CASE c # a /\ pc[c] = "idle"
    BY <1>1, <2>6
  <2> QED
    BY <2>4, <2>5, <2>6
<1>19. ListedApart'
  <2> SUFFICES ASSUME NEW y \in Zone, NEW i \in Order, NEW j \in Order, NEW x \in Page,
                      NEW p \in lists'[y][i], NEW q \in lists'[y][j], Head(x, i) = p, Head(x, j) = q
               PROVE  p = q
    BY DEF ListedApart
  <2>1. CASE Old(y, i, p) /\ Old(y, j, q)
    BY <2>1 DEF Blocks, ListedApart, Old
  <2>2. CASE Old(y, i, p) /\ New(y, j, q)
    BY <1>12, <1>14, <2>2
  <2>3. CASE New(y, i, p) /\ Old(y, j, q)
    BY <1>12, <1>14, <2>3
  <2>4. CASE New(y, i, p) /\ New(y, j, q)
    BY <1>4, <1>14, <2>4
  <2> QED
    BY <1>7, <2>1, <2>2, <2>3, <2>4
<1>20. BusyApart'
  <2> SUFFICES ASSUME NEW c \in Busy \cup {B}, NEW d \in Busy \cup {B}, NEW x \in Page,
                      Head(x, OrderOf(c)) = c.page, Head(x, OrderOf(d)) = d.page
               PROVE  c = d
    BY <1>10 DEF BusyApart, OrderOf
  <2>1. CASE c \in Busy /\ d \in Busy
    BY <1>10, <2>1 DEF Blocks, BusyApart
  <2>2. CASE c \in Busy /\ d = B
    BY <1>4, <1>6, <1>13, <2>2
  <2>3. CASE c = B /\ d \in Busy
    BY <1>4, <1>6, <1>13, <2>3
  <2> QED
    BY <2>1, <2>2, <2>3
<1>21. KindsApart'
  <2> SUFFICES ASSUME NEW y \in Zone, NEW j \in Order, NEW x \in Page, NEW q \in lists'[y][j], NEW c \in Busy \cup {B},
                      Head(x, j) = q, Head(x, OrderOf(c)) = c.page
               PROVE  FALSE
    BY <1>10 DEF KindsApart, OrderOf
  <2>1. CASE Old(y, j, q) /\ c \in Busy
    BY <1>10, <2>1 DEF Blocks, KindsApart, Old
  <2>2. CASE New(y, j, q) /\ c \in Busy
    BY <1>13, <1>14, <2>2
  <2>3. CASE Old(y, j, q) /\ c = B
    BY <1>4, <1>6, <1>12, <2>3
  <2>4. CASE New(y, j, q) /\ c = B
    BY <1>6, <1>14, <2>4
  <2> QED
    BY <1>7, <2>1, <2>2, <2>3, <2>4
<1>22. ReservedApart'
  <2> SUFFICES ASSUME NEW x \in Reserved
               PROVE  /\ \A y \in Zone, j \in Order : \A q \in lists'[y][j] : Head(x, j) # q
                      /\ \A c \in Busy \cup {B} : Head(x, OrderOf(c)) # c.page
    BY <1>10 DEF ReservedApart, OrderOf
  <2>1. x \in Page /\ Head(x, v) # b
    BY <1>2, RegionAssumption DEF Blocks, ReservedApart
  <2>2. ASSUME NEW y \in Zone, NEW j \in Order, NEW q \in lists'[y][j] PROVE Head(x, j) # q
    <3>1. CASE Old(y, j, q)
      BY <3>1 DEF Blocks, ReservedApart, Old
    <3>2. CASE New(y, j, q)
      BY <1>14, <2>1, <3>2
    <3> QED
      BY <1>7, <3>1, <3>2
  <2>3. ASSUME NEW c \in Busy \cup {B} PROVE Head(x, OrderOf(c)) # c.page
    <3>1. CASE c \in Busy
      BY <1>10, <3>1 DEF Blocks, ReservedApart
    <3>2. CASE c = B
      BY <1>4, <1>6, <2>1, <3>2
    <3> QED
      BY <3>1, <3>2
  <2> QED
    BY <2>2, <2>3
<1>23. NoGhosts'
  <2> SUFFICES ASSUME NEW q \in Page, free'[q], Head(q, order'[q]) = q
               PROVE  \/ q \in lists'[ZoneOf(q)][order'[q]]
                      \/ \E c \in Actor : pc'[c] \in {"alloc_mark", "free_merge"} /\ blk'[c].page = q
    BY DEF NoGhosts
  <2>1. ZoneOf(q) \in Zone /\ order'[q] \in Order /\ order[q] \in Order
    BY <1>9, ZoneFacts DEF Blocks, Shapes
  <2>2. CASE \E j \in k .. v - 1 : q = Buddy(b, j)
    <3>1. PICK j \in k .. v - 1 : q = Buddy(b, j)
      BY <2>2
    <3>2. order'[q] = j /\ ZoneOf(q) = z
      BY <1>3, <1>8, <3>1
    <3> QED
      BY <1>7, <2>1, <3>1, <3>2 DEF New
  <2>3. CASE \A j \in k .. v - 1 : q # Buddy(b, j)
    <3>1. order'[q] = order[q] /\ free[q]
      BY <1>8, <2>3
    <3>2. \/ q \in lists[ZoneOf(q)][order[q]]
          \/ \E c \in Actor : pc[c] \in {"alloc_mark", "free_merge"} /\ blk[c].page = q
      BY <3>1 DEF Blocks, NoGhosts
    <3>3. CASE q = b
      BY <1>1, <1>6, <3>3
    <3>4. CASE q # b /\ q \in lists[ZoneOf(q)][order[q]]
      BY <1>7, <2>1, <3>1, <3>4 DEF Old
    <3>5. ASSUME NEW c \in Actor, pc[c] \in {"alloc_mark", "free_merge"}, blk[c].page = q
          PROVE  pc'[c] \in {"alloc_mark", "free_merge"} /\ blk'[c].page = q
      BY <1>1, <1>6, <3>5
    <3> QED
      BY <3>2, <3>3, <3>4, <3>5
  <2> QED
    BY <2>2, <2>3
<1>24. Coalesced'
  <2> SUFFICES ASSUME NEW y \in Zone, NEW j \in Order, NEW q \in lists'[y][j], j < max_order[q],
                      Buddy(q, j) \in lists'[y][j]
               PROVE  FALSE
    BY DEF Coalesced, max_order
  <2>1. j \in Nat /\ q \in Nat /\ b \in Nat /\ Head(q, j) = q
    <3>1. Old(y, j, q) \/ New(y, j, q)
      BY <1>7
    <3>2. q \in Page /\ Fits(q, j)
      BY <1>12, <1>14, <3>1
    <3>3. b \in Page /\ Head(q, j) = q
      BY <1>2, <3>2 DEF Fits
    <3> QED
      BY <3>2, <3>3, ZoneFacts
  <2>2. CASE Old(y, j, q) /\ Old(y, j, Buddy(q, j))
    BY <2>2 DEF Coalesced, Old
  <2>3. ASSUME NEW r, New(y, j, r) PROVE Buddy(r, j) = b /\ ~Old(y, j, b) /\ ~New(y, j, b)
    <3>1. j \in k .. v - 1 /\ r = Buddy(b, j) /\ y = z
      BY <1>14, <2>3
    <3>2. Head(b, j) = b
      <4>1. j <= v
        BY <1>2, <3>1
      <4> QED
        BY <1>2, <2>1, <4>1, AlignedDown DEF Fits
    <3>3. Buddy(r, j) = b
      BY <2>1, <3>1, <3>2, BuddyBuddy
    <3>4. ~Old(y, j, b)
      <4>1. order[b] = v
        BY <1>2 DEF Blocks, ListsTrue
      <4> QED
        BY <1>2, <1>12, <3>1, <4>1
    <3> QED
      BY <1>14, <3>3, <3>4
  <2>4. CASE New(y, j, q)
    BY <1>7, <2>3, <2>4
  <2>5. CASE Old(y, j, q) /\ New(y, j, Buddy(q, j))
    <3>1. Buddy(Buddy(q, j), j) = q
      BY <2>1, BuddyBuddy
    <3> QED
      BY <2>3, <2>5, <3>1
  <2> QED
    BY <1>7, <2>2, <2>4, <2>5
<1> QED
  BY <1>15, <1>16, <1>17, <1>18, <1>19, <1>20, <1>21, <1>22, <1>23, <1>24 DEF Blocks
---------------------------------------------------------------------------
(* pmm_free takes the free buddies of the block of order k at p off their  *)
(* lists and puts the block h of order v that they make on its list.       *)
IsMerge(a, z, p, k, v, h) ==
  /\ z \in Zone /\ k \in Order /\ v \in Order /\ k <= v /\ Fits(p, k) /\ p = blk[a].page /\ k = OrderOf(blk[a])
  /\ ZoneOf(p) = z /\ h = Head(p, v) /\ Fits(h, v) /\ ZoneOf(h) = z /\ max_order[h] = max_order[p]
  /\ \A j \in k .. v - 1 : j \in Order /\ Fits(Buddy(p, j), j) /\ Buddy(p, j) \in lists[z][j]
  /\ \A x \in Page : Head(x, v) = h <=> Head(x, k) = p \/ \E j \in k .. v - 1 : Head(x, j) = Buddy(p, j)
  /\ \A x \in Page, i \in Order : Head(x, v) = h /\ Head(x, i) \in lists[z][i] =>
       i \in k .. v - 1 /\ Head(x, i) = Buddy(p, i)
  /\ \A x \in Page, c \in Busy : Head(x, v) = h /\ Head(x, OrderOf(c)) = c.page => c = blk[a]
  /\ v < max_order[p] => Buddy(p, v) \notin lists[z][v]

LEMMA MergeFacts ==
  ASSUME Blocks, NEW a \in Actor, pc[a] = "free_merge", ~MergesUnlisted(a), NEW p, p = blk[a].page
  PROVE  order[p] = OrderOf(blk[a]) /\ IsMerge(a, ZoneOf(p), p, order[p], MergedOrder(p), Head(p, MergedOrder(p)))
<1> DEFINE z == ZoneOf(p)
           k == order[p]
           M == max_order[p]
           S == {j \in k .. PMM_MAX_ORDER : j >= M \/ ~Mergeable(p, j)}
           v == MergedOrder(p)
           h == Head(p, v)
<1>1. \A c \in Actor, j \in k .. v - 1 : ~(pc[c] \in {"alloc_mark", "free_merge"} /\ blk[c].page = Buddy(p, j))
  BY DEF MergesUnlisted
<1>2. k = OrderOf(blk[a]) /\ Fits(p, k) /\ blk[a] \in Busy
  BY CallIsBusy DEF Blocks, CallTrue
<1>3. p \in Page /\ k \in Order /\ k <= M /\ Head(p, k) = p
  BY <1>2 DEF Fits
<1>4. M \in Order /\ M \in Nat /\ k \in Nat /\ p \in Nat /\ z \in Zone /\ PMM_MAX_ORDER \in Nat
  <2>1. M \in Order /\ PMM_MAX_ORDER \in Nat
    BY <1>3, MaxOrderIs, RegionAssumption
  <2> HIDE DEF M, k
  <2> QED
    BY <1>3, <2>1, ZoneFacts
<1>5. v \in S /\ \A j \in S : v <= j
  <2>1. v = Min(S)
    BY DEF MergedOrder
  <2>2. M \in S /\ S \subseteq Nat
    BY <1>3, <1>4 DEF Order
  <2> HIDE DEF S, v
  <2> QED
    BY <2>1, <2>2, MinIs
<1>6. v \in Order /\ v \in Nat /\ k <= v /\ v <= M
  <2>1. M \in S
    BY <1>3, <1>4 DEF Order
  <2> HIDE DEF v
  <2> QED
    BY <1>4, <1>5, <2>1 DEF Order
<1>7. ASSUME NEW j \in k .. v - 1 PROVE j \in Nat /\ j \in Order /\ j < M /\ Mergeable(p, j)
  <2>1. j \in k .. PMM_MAX_ORDER /\ j < v /\ j \in Nat /\ j < M /\ j \in Order
    BY <1>4, <1>6 DEF Order
  <2>2. j \notin S
    <3> HIDE DEF S, v
    <3> QED
      BY <1>5, <1>6, <2>1
  <2> QED
    BY <1>4, <2>1, <2>2
<1> HIDE DEF S, v, k, M, z
<1>8. Fits(h, v) /\ ZoneOf(h) = z /\ max_order[h] = M
  BY <1>3, <1>6, HeadFits DEF M, z
<1>9. ASSUME NEW j \in k .. v - 1
      PROVE  Fits(Buddy(p, j), j) /\ Buddy(p, j) \in lists[z][j]
  <2> DEFINE b == Buddy(p, j)
  <2>1. j \in Nat /\ j < max_order[p] /\ Mergeable(p, j)
    BY <1>7 DEF M
  <2>2. Fits(b, j) /\ ZoneOf(b) = z
    BY <1>3, <2>1, BuddyFits DEF z
  <2>3. b \in Page /\ Head(b, j) = b
    BY <2>2 DEF Fits
  <2>4. free[b] /\ order[b] = j
    BY <2>1 DEF Mergeable
  <2>5. b \in lists[ZoneOf(b)][order[b]]
    BY <1>1, <2>3, <2>4 DEF Blocks, NoGhosts
  <2> QED
    BY <2>2, <2>4, <2>5
<1>10. ASSUME NEW x \in Page
       PROVE  Head(x, v) = h <=> Head(x, k) = p \/ \E j \in k .. v - 1 : Head(x, j) = Buddy(p, j)
  <2>1. x \in Nat
    BY ZoneFacts
  <2>2. Head(x, v) = Head(p, v) <=> Head(x, k) = Head(p, k) \/ \E j \in k .. v - 1 : Head(x, j) = Buddy(p, j)
    BY <1>4, <1>6, <2>1, Parts
  <2> QED
    BY <1>3, <2>2
<1>11. ASSUME NEW x \in Page, NEW i \in Order, Head(x, v) = h, Head(x, i) \in lists[z][i]
       PROVE  i \in k .. v - 1 /\ Head(x, i) = Buddy(p, i)
  <2>1. Head(x, k) # p
    BY <1>2, <1>4, <1>11 DEF Blocks, KindsApart, k
  <2>2. PICK j \in k .. v - 1 : Head(x, j) = Buddy(p, j)
    BY <1>10, <1>11, <2>1
  <2>3. j \in Order /\ Buddy(p, j) \in lists[z][j]
    BY <1>7, <1>9
  <2>4. Head(x, i) = Buddy(p, j)
    BY <1>4, <1>11, <2>2, <2>3 DEF Blocks, ListedApart
  <2>5. order[Buddy(p, j)] = j /\ order[Buddy(p, j)] = i
    BY <1>4, <1>11, <2>3, <2>4 DEF Blocks, ListsTrue
  <2> QED
    BY <2>2, <2>4, <2>5
<1>12. ASSUME NEW x \in Page, NEW c \in Busy, Head(x, v) = h, Head(x, OrderOf(c)) = c.page
       PROVE  c = blk[a]
  <2>1. CASE Head(x, k) = p
    BY <1>2, <1>12, <2>1 DEF Blocks, BusyApart, k
  <2>2. ASSUME NEW j \in k .. v - 1, Head(x, j) = Buddy(p, j) PROVE FALSE
    BY <1>4, <1>7, <1>9, <1>12, <2>2 DEF Blocks, KindsApart
  <2> QED
    BY <1>10, <1>12, <2>1, <2>2
<1>13. ASSUME v < M PROVE Buddy(p, v) \notin lists[z][v]
  <2> SUFFICES ASSUME Buddy(p, v) \in lists[z][v] PROVE FALSE
    OBVIOUS
  <2>1. free[Buddy(p, v)] /\ order[Buddy(p, v)] = v
    BY <1>4, <1>6 DEF Blocks, ListsTrue
  <2>2. max_order[Buddy(p, v)] = M
    BY <1>3, <1>6, <1>13, BuddyFits DEF M
  <2>3. Mergeable(p, v)
    BY <1>4, <1>6, <1>13, <2>1, <2>2 DEF Mergeable
  <2> QED
    BY <1>4, <1>5, <1>6, <1>13, <2>3 DEF S
<1>14. IsMerge(a, z, p, k, v, h)
  BY <1>2, <1>4, <1>6, <1>7, <1>8, <1>9, <1>10, <1>11, <1>12, <1>13 DEF IsMerge, z, M
<1> QED
  BY <1>2, <1>14 DEF z, k, v

(* What FreeMerge does, read through IsMerge.                              *)
GivesBack(a, z, p, k, v, h) ==
  /\ IsMerge(a, z, p, k, v, h)
  /\ pc[a] = "free_merge" /\ pc' = [pc EXCEPT ![a] = "idle"] /\ blk' = [blk EXCEPT ![a] = NoBlock]
  /\ held' = held /\ free' = free /\ booting' \in BOOLEAN
  /\ free_page_count' = free_page_count /\ seen' = seen /\ raced' = raced /\ lost' = lost
  /\ lists' \in [Zone -> [Order -> SUBSET Page]]
  /\ \A y \in Zone, j \in Order : \A q :
       q \in lists'[y][j] <=> \/ q \in lists[y][j] /\ ~(y = z /\ j \in k .. v - 1 /\ q = Buddy(p, j))
                              \/ y = z /\ j = v /\ q = h
  /\ order' \in [Page -> Order] /\ order'[h] = v
  /\ \A q \in Page : Head(q, v) # h => order'[q] = order[q]
  /\ \A q \in Page : Head(q, v) = h /\ q # h /\ free[q] => Head(q, order'[q]) # q

LEMMA FreeMerges ==
  ASSUME Blocks, NEW a \in Actor, FreeMerge(a), ~raced'
  PROVE  \E z, p, k, v, h : GivesBack(a, z, p, k, v, h)
<1> DEFINE p == blk[a].page
           z == ZoneOf(p)
           k == order[p]
           v == MergedOrder(p)
           h == Head(p, v)
           R(q) == {j \in k .. (v - 1) : q \in {Head(p, j), Buddy(p, j)}}
<1>1. pc[a] = "free_merge"
  BY DEF FreeMerge
<1>2. IsMerge(a, z, p, k, v, h) /\ k = OrderOf(blk[a])
  <2>1. ~MergesUnlisted(a)
    BY DEF FreeMerge
  <2> QED
    BY <1>1, <2>1, MergeFacts
<1>3. /\ lists' = [lists EXCEPT ![z] = [j \in Order |->
           (lists[z][j] \ (IF j \in k..(v - 1) THEN {Buddy(p, j)} ELSE {})) \cup (IF j = v THEN {h} ELSE {})]]
      /\ order' = [q \in Page |-> IF R(q) # {} THEN Max(R(q)) + 1 ELSE order[q]]
  BY DEF FreeMerge
<1>4. /\ pc' = [pc EXCEPT ![a] = "idle"] /\ blk' = [blk EXCEPT ![a] = NoBlock]
      /\ held' = held /\ free' = free /\ booting' \in BOOLEAN
      /\ free_page_count' = free_page_count /\ seen' = seen /\ raced' = raced /\ lost' = lost
  <2>1. ~raced /\ raced' = raced
    BY DEF FreeMerge, Blocks, Shapes
  <2> QED
    BY <2>1 DEF FreeMerge, Goto
<1> HIDE DEF p, z, k, v, h
<1>5. /\ z \in Zone /\ k \in Order /\ v \in Order /\ k \in Nat /\ v \in Nat /\ k <= v /\ p \in Page /\ p \in Nat
      /\ Head(p, k) = p /\ h = Head(p, v) /\ h \in Page /\ h \in Nat /\ Head(h, v) = h
      /\ \A j \in k .. v - 1 : j \in Nat /\ j \in Order /\ Buddy(p, j) \in Page /\ Buddy(p, j) \in Nat /\ Buddy(p, j) \in lists[z][j]
  <2>1. /\ z \in Zone /\ k \in Order /\ v \in Order /\ k <= v /\ p \in Page
        /\ Head(p, k) = p /\ h = Head(p, v) /\ h \in Page /\ Head(h, v) = h
        /\ \A j \in k .. v - 1 : j \in Order /\ Buddy(p, j) \in Page /\ Buddy(p, j) \in lists[z][j]
    BY <1>2 DEF IsMerge, Fits
  <2> QED
    BY <2>1, ZoneFacts
<1>6. lists \in [Zone -> [Order -> SUBSET Page]] /\ order \in [Page -> Order] /\ free \in [Page -> BOOLEAN]
  BY DEF Blocks, Shapes
<1>7. ASSUME NEW y \in Zone, NEW j \in Order
      PROVE  /\ lists'[y][j] \subseteq Page
             /\ \A q : q \in lists'[y][j] <=> \/ q \in lists[y][j] /\ ~(y = z /\ j \in k .. v - 1 /\ q = Buddy(p, j))
                                              \/ y = z /\ j = v /\ q = h
  <2>1. lists[y][j] \subseteq Page
    BY <1>6
  <2>2. CASE y = z
    <3>1. lists'[y][j] = (lists[y][j] \ (IF j \in k..(v - 1) THEN {Buddy(p, j)} ELSE {})) \cup (IF j = v THEN {h} ELSE {})
      BY <1>3, <1>6, <2>2
    <3> QED
      BY <1>5, <2>1, <2>2, <3>1
  <2>3. CASE y # z
    <3>1. lists'[y][j] = lists[y][j]
      BY <1>3, <1>6, <2>3
    <3> QED
      BY <2>1, <2>3, <3>1
  <2> QED
    BY <2>2, <2>3
<1>8. lists' \in [Zone -> [Order -> SUBSET Page]]
  <2>1. \A y \in Zone : lists'[y] = [j \in Order |-> lists'[y][j]]
    BY <1>3, <1>6
  <2>2. lists' = [y \in Zone |-> lists'[y]]
    BY <1>3, <1>6
  <2> QED
    BY <1>7, <2>1, <2>2
(* The pages whose order the loop raises, and how far. *)
<1>9. ASSUME NEW j \in k .. v - 1, NEW q, q \in {Head(p, j), Buddy(p, j)}
      PROVE  q \in Nat /\ Head(q, j) = q /\ Head(q, j + 1) = Head(p, j + 1) /\ Head(q, v) = h /\ j + 1 \in Nat /\ j + 1 <= v
  <2>1. j \in Nat /\ j + 1 \in Nat /\ j + 1 <= v
    BY <1>5
  <2>2. Halves(p, j)
    BY <1>5, <2>1, BuddyIs
  <2>3. q \in Nat
    BY <1>9, <2>2 DEF Halves
  <2>4. Head(q, j) = q
    <3>1. Head(Head(p, j), j) = Head(p, j)
      BY <1>5, <2>1, HeadHead
    <3> QED
      BY <1>9, <2>2, <3>1 DEF Halves
  <2>5. Head(q, j + 1) = Head(p, j + 1)
    <3>1. Head(Head(p, j), j + 1) = Head(p, j + 1)
      BY <1>5, <2>1, HeadOfHead
    <3> QED
      BY <1>9, <2>2, <3>1 DEF Halves
  <2>6. Head(q, v) = h
    BY <1>5, <2>1, <2>3, <2>5, Nest
  <2> QED
    BY <2>1, <2>3, <2>4, <2>5, <2>6
<1>10. ASSUME NEW q \in Page, R(q) # {}
       PROVE  /\ Max(R(q)) \in k .. v - 1 /\ q \in {Head(p, Max(R(q))), Buddy(p, Max(R(q)))}
              /\ \A j \in k .. v - 1 : q \in {Head(p, j), Buddy(p, j)} => Max(R(q)) >= j
              /\ order'[q] = Max(R(q)) + 1
  <2>1. R(q) \subseteq 0 .. v
    BY <1>5
  <2>2. order'[q] = Max(R(q)) + 1
    BY <1>3, <1>10
  <2>3. Max(R(q)) \in R(q) /\ \A j \in R(q) : Max(R(q)) >= j
    <3> HIDE DEF R
    <3> QED
      BY <1>5, <1>10, <2>1, MaxIs
  <2> QED
    BY <2>2, <2>3
<1>11. ASSUME NEW q \in Page, R(q) = {} PROVE order'[q] = order[q] /\ \A j \in k .. v - 1 : q # Head(p, j) /\ q # Buddy(p, j)
  BY <1>3, <1>11
<1> HIDE DEF R
<1>12. order' \in [Page -> Order]
  <2>1. ASSUME NEW q \in Page PROVE order'[q] \in Order
    <3>1. CASE R(q) = {}
      BY <1>6, <1>11, <3>1
    <3>2. CASE R(q) # {}
      BY <1>5, <1>10, <3>2, RegionAssumption DEF Order
    <3> QED
      BY <3>1, <3>2
  <2>2. order' = [q \in Page |-> order'[q]]
    BY <1>3
  <2> QED
    BY <2>1, <2>2
<1>13. order'[h] = v
  <2>1. CASE k = v
    <3>1. h = p
      BY <1>5, <2>1
    <3>2. R(h) = {}
      BY <1>5, <1>10, <2>1
    <3> QED
      BY <1>5, <1>11, <2>1, <3>1, <3>2 DEF k
  <2>2. CASE k # v
    <3>1. v - 1 \in k .. v - 1 /\ v - 1 \in Nat /\ (v - 1) + 1 = v
      BY <1>5, <2>2
    <3>2. h \in {Head(p, v - 1), Buddy(p, v - 1)}
      <4>1. Halves(p, v - 1)
        BY <1>5, <3>1, BuddyIs
      <4> QED
        BY <1>5, <3>1, <4>1 DEF Halves
    <3>3. R(h) # {}
      BY <1>5, <1>11, <3>1, <3>2
    <3>4. Max(R(h)) \in k .. v - 1 /\ Max(R(h)) >= v - 1 /\ order'[h] = Max(R(h)) + 1
      BY <1>5, <1>10, <3>1, <3>2, <3>3
    <3> QED
      BY <1>5, <3>4
  <2> QED
    BY <2>1, <2>2
<1>14. ASSUME NEW q \in Page, Head(q, v) # h PROVE order'[q] = order[q]
  BY <1>9, <1>10, <1>11, <1>14
<1>15. ASSUME NEW q \in Page, Head(q, v) = h, q # h, free[q], Head(q, order'[q]) = q PROVE FALSE
  <2>1. CASE R(q) = {}
    <3>1. order'[q] = order[q] /\ \A j \in k .. v - 1 : q # Head(p, j) /\ q # Buddy(p, j)
      BY <1>11, <2>1
    <3>2. q # p
      <4>1. CASE k = v
        BY <1>5, <1>15, <4>1
      <4>2. CASE k # v
        BY <1>5, <3>1, <4>2
      <4> QED
        BY <4>1, <4>2
    <3>3. q \in lists[ZoneOf(q)][order[q]] /\ ZoneOf(q) \in Zone /\ order[q] \in Order
      <4>1. ASSUME NEW c \in Actor, pc[c] \in {"alloc_mark", "free_merge"}, blk[c].page = q PROVE FALSE
        <5>1. blk[c] \in Busy /\ Head(q, OrderOf(blk[c])) = q
          BY <4>1, CallIsBusy, BusyIs DEF Blocks
        <5>2. blk[c] = blk[a]
          BY <1>2, <1>15, <4>1, <5>1 DEF IsMerge
        <5> QED
          BY <3>2, <4>1, <5>2 DEF p
      <4> QED
        BY <1>6, <1>15, <3>1, <4>1, ZoneFacts DEF Blocks, NoGhosts
    <3>4. ZoneOf(q) = z
      <4>1. q \in Nat /\ v <= max_order[h] /\ ZoneOf(h) = z
        BY <1>2, ZoneFacts DEF IsMerge, Fits
      <4> QED
        BY <1>5, <1>15, <4>1, Around
    <3>5. order[q] \in k .. v - 1 /\ q = Buddy(p, order[q])
      BY <1>2, <1>15, <3>1, <3>3, <3>4 DEF IsMerge
    <3> QED
      BY <3>1, <3>5
  <2>2. CASE R(q) # {}
    <3> DEFINE m == Max(R(q))
    <3>1. /\ m \in k .. v - 1 /\ q \in {Head(p, m), Buddy(p, m)} /\ order'[q] = m + 1
          /\ \A j \in k .. v - 1 : q \in {Head(p, j), Buddy(p, j)} => m >= j
      BY <1>10, <2>2
    <3> HIDE DEF m
    <3>2. q = Head(p, m + 1) /\ m + 1 <= v /\ m \in Nat
      BY <1>5, <1>9, <1>15, <3>1
    <3>3. CASE m + 1 = v
      BY <1>5, <1>15, <3>2, <3>3
    <3>4. CASE m + 1 # v
      <4>1. m + 1 \in k .. v - 1
        BY <1>5, <3>1, <3>2, <3>4
      <4> QED
        BY <3>1, <3>2, <4>1
    <3> QED
      BY <3>3, <3>4
  <2> QED
    BY <2>1, <2>2
<1>16. GivesBack(a, z, p, k, v, h)
  BY <1>1, <1>2, <1>4, <1>7, <1>8, <1>12, <1>13, <1>14, <1>15 DEF GivesBack
<1> QED
  BY <1>16

(* Merging keeps the blocks apart and leaves no two halves on the lists.   *)
LEMMA MergeKeeps ==
  ASSUME Blocks, Coalesced, NEW a \in Actor, NEW z, NEW p, NEW k, NEW v, NEW h, GivesBack(a, z, p, k, v, h)
  PROVE  Blocks' /\ Coalesced'
<1> DEFINE Old(y, j, q) == q \in lists[y][j] /\ ~(y = z /\ j \in k .. v - 1 /\ q = Buddy(p, j))
           New(y, j, q) == y = z /\ j = v /\ q = h
<1>2. /\ z \in Zone /\ k \in Order /\ v \in Order /\ k <= v /\ p \in Page /\ h = Head(p, v) /\ h \in Page /\ Fits(h, v)
      /\ ZoneOf(h) = z /\ max_order[h] = max_order[p] /\ Head(h, v) = h /\ v <= max_order[h]
  BY DEF GivesBack, IsMerge, Fits
<1>3. h \in Nat /\ v \in Nat /\ p \in Nat
  BY <1>2, ZoneFacts
<1>4. /\ \A x \in Page, i \in Order : Head(x, v) = h /\ Head(x, i) \in lists[z][i] =>
           i \in k .. v - 1 /\ Head(x, i) = Buddy(p, i)
      /\ \A x \in Page, c \in Busy : Head(x, v) = h /\ Head(x, OrderOf(c)) = c.page => c = blk[a]
      /\ v < max_order[p] => Buddy(p, v) \notin lists[z][v]
  BY DEF GivesBack, IsMerge
<1>5. \A x \in Page : Head(x, v) = h => Head(x, k) = p \/ \E j \in k .. v - 1 : Head(x, j) = Buddy(p, j) /\ j \in Order /\ Buddy(p, j) \in lists[z][j]
  BY DEF GivesBack, IsMerge
<1>6. /\ pc[a] = "free_merge" /\ pc' = [pc EXCEPT ![a] = "idle"] /\ blk' = [blk EXCEPT ![a] = NoBlock]
      /\ held' = held /\ free' = free /\ booting' \in BOOLEAN /\ p = blk[a].page /\ k = OrderOf(blk[a])
      /\ raced' = raced /\ lost' = lost
  BY DEF GivesBack, IsMerge
<1>1. pc'[a] = "idle" /\ \A c \in Actor : c # a => pc'[c] = pc[c] /\ blk'[c] = blk[c]
  BY <1>6 DEF Blocks, Shapes
<1>7. \A y \in Zone, j \in Order : \A q : q \in lists'[y][j] <=> Old(y, j, q) \/ New(y, j, q)
  BY DEF GivesBack
<1>8. /\ \A q \in Page : Head(q, v) # h => order'[q] = order[q]
      /\ \A q \in Page : Head(q, v) = h /\ q # h /\ free[q] => Head(q, order'[q]) # q
      /\ order'[h] = v
  BY DEF GivesBack
<1>9. lists' \in [Zone -> [Order -> SUBSET Page]] /\ order' \in [Page -> Order] /\ free' \in [Page -> BOOLEAN]
  BY DEF GivesBack, Blocks, Shapes
<1>10. Busy' = Busy \ {blk[a]} /\ held \subseteq Busy' /\ blk[a] \in Busy
  <2>1. CallsAt(Underway)' = CallsAt(Underway) \ {blk[a]}
    <3>1. Shapes /\ "idle" \notin Underway /\ pc[a] \in Underway
      BY <1>6 DEF Blocks, Underway
    <3> QED
      BY <1>1, <1>6, <3>1, CallsMove
  <2>2. blk[a] \notin held /\ blk[a] \in Busy
    BY <1>6, CallIsBusy DEF Blocks, Shapes
  <2> QED
    BY <1>6, <2>1, <2>2 DEF Busy
(* The other blocks lie outside the merged one. *)
<1>11. ASSUME NEW y \in Zone, NEW j \in Order, NEW q, Old(y, j, q)
       PROVE  /\ q \in Page /\ q \in lists[y][j] /\ ZoneOf(q) = y /\ Fits(q, j) /\ free[q] /\ order[q] = j
              /\ \A x \in Page : Head(x, v) = h => Head(x, j) # q
              /\ Head(q, v) # h
  <2>1. q \in Page /\ q \in lists[y][j] /\ ZoneOf(q) = y /\ Fits(q, j) /\ free[q] /\ order[q] = j /\ Head(q, j) = q
    BY <1>11 DEF Blocks, ListsTrue, Fits
  <2>2. ASSUME NEW x \in Page, Head(x, v) = h, Head(x, j) = q PROVE FALSE
    <3>1. x \in Nat /\ j <= max_order[q] /\ j \in Nat
      BY <2>1, <2>2, ZoneFacts DEF Fits
    <3>2. ZoneOf(x) = z
      BY <1>2, <1>3, <2>2, <3>1, Around
    <3>3. ZoneOf(x) = y
      BY <2>1, <2>2, <3>1, Around
    <3> QED
      BY <1>4, <1>11, <2>1, <2>2, <3>2, <3>3
  <2> QED
    BY <2>1, <2>2
<1>12. ASSUME NEW c \in Busy, c # blk[a]
       PROVE  /\ c.page \in Page /\ Fits(c.page, OrderOf(c))
              /\ \A x \in Page : Head(x, v) = h => Head(x, OrderOf(c)) # c.page
              /\ Head(c.page, v) # h /\ order'[c.page] = order[c.page]
  <2>1. c.page \in Page /\ Fits(c.page, OrderOf(c)) /\ Head(c.page, OrderOf(c)) = c.page
    BY BusyIs
  <2>2. \A x \in Page : Head(x, v) = h => Head(x, OrderOf(c)) # c.page
    BY <1>4, <1>12
  <2> QED
    BY <1>8, <2>1, <2>2
<1>13. free[h]
  <2>1. Head(h, k) = p \/ \E j \in k .. v - 1 : Head(h, j) = Buddy(p, j) /\ j \in Order /\ Buddy(p, j) \in lists[z][j]
    BY <1>2, <1>5
  <2>2. \A j \in k .. v - 1 : Head(h, j) = h
    BY <1>2, <1>3, AlignedDown, ZoneFacts
  <2>3. Head(h, k) = h
    BY <1>2, <1>3, AlignedDown, ZoneFacts
  <2>4. free[p]
    BY <1>6 DEF Blocks, CallTrue
  <2>5. \A j \in Order : h \in lists[z][j] => free[h]
    BY <1>2 DEF Blocks, ListsTrue
  <2> QED
    BY <2>1, <2>2, <2>3, <2>4, <2>5
<1> HIDE DEF Old, New
<1>15. Shapes'
  <2>1. pc' \in [Actor -> {"idle", "alloc_mark", "alloc_load", "alloc_store", "free_store", "free_mark", "free_merge"}]
        /\ blk' \in [Actor -> Block \cup {NoBlock}]
    BY <1>6 DEF Blocks, Shapes
  <2>2. \A c \in Actor : pc'[c] # "idle" => c # a /\ pc[c] # "idle" /\ blk'[c] = blk[c]
    BY <1>1
  <2>3. \A c \in Actor : pc'[c] # "idle" => blk'[c] \in Block /\ blk'[c] \notin held'
    BY <1>6, <2>2 DEF Blocks, Shapes
  <2>4. \A c, d \in Actor : pc'[c] # "idle" /\ pc'[d] # "idle" /\ blk'[c] = blk'[d] => c = d
    BY <2>2 DEF Blocks, Shapes
  <2> QED
    BY <1>6, <1>9, <2>1, <2>3, <2>4 DEF Blocks, Shapes
<1>16. ListsTrue'
  <2> SUFFICES ASSUME NEW y \in Zone, NEW j \in Order, NEW q \in lists'[y][j]
               PROVE  ZoneOf(q) = y /\ Fits(q, j) /\ free'[q] /\ order'[q] = j
    BY DEF ListsTrue, Fits
  <2>1. CASE Old(y, j, q)
    BY <1>6, <1>8, <1>11, <2>1
  <2>2. CASE New(y, j, q)
    BY <1>2, <1>6, <1>8, <1>13, <2>2 DEF New
  <2> QED
    BY <1>7, <2>1, <2>2
<1>17. HeldTrue'
  <2> SUFFICES ASSUME NEW c \in held
               PROVE  Fits(c.page, OrderOf(c)) /\ ~free'[c.page] /\ order'[c.page] = OrderOf(c)
    BY <1>6 DEF HeldTrue, Fits, OrderOf
  <2>1. Fits(c.page, OrderOf(c)) /\ ~free[c.page] /\ order[c.page] = OrderOf(c)
    BY DEF Blocks, HeldTrue
  <2> QED
    BY <1>6, <1>10, <1>12, <2>1
<1>18. CallTrue'
  <2>1. ASSUME NEW c \in Actor, pc'[c] # "idle"
        PROVE  c # a /\ pc'[c] = pc[c] /\ blk'[c] = blk[c] /\ pc[c] # "idle" /\ order'[blk[c].page] = order[blk[c].page]
    <3>1. c # a /\ pc'[c] = pc[c] /\ blk'[c] = blk[c] /\ pc[c] # "idle"
      BY <1>1, <2>1
    <3>2. blk[c] \in Busy /\ blk[c] # blk[a]
      BY <1>6, <3>1, CallIsBusy DEF Blocks, Shapes
    <3> QED
      BY <1>12, <3>1, <3>2
  <2> QED
    BY <1>6, <2>1 DEF Blocks, CallTrue, Fits, OrderOf
<1>19. ListedApart'
  <2> SUFFICES ASSUME NEW y \in Zone, NEW i \in Order, NEW j \in Order, NEW x \in Page,
                      NEW r \in lists'[y][i], NEW q \in lists'[y][j], Head(x, i) = r, Head(x, j) = q
               PROVE  r = q
    BY DEF ListedApart
  <2>1. CASE Old(y, i, r) /\ Old(y, j, q)
    BY <1>11, <2>1 DEF Blocks, ListedApart
  <2>2. CASE Old(y, i, r) /\ New(y, j, q)
    BY <1>11, <2>2 DEF New
  <2>3. CASE New(y, i, r) /\ Old(y, j, q)
    BY <1>11, <2>3 DEF New
  <2>4. CASE New(y, i, r) /\ New(y, j, q)
    BY <2>4 DEF New
  <2> QED
    BY <1>7, <2>1, <2>2, <2>3, <2>4
<1>20. BusyApart'
  <2> SUFFICES ASSUME NEW c \in Busy \ {blk[a]}, NEW d \in Busy \ {blk[a]}, NEW x \in Page,
                      Head(x, OrderOf(c)) = c.page, Head(x, OrderOf(d)) = d.page
               PROVE  c = d
    BY <1>10 DEF BusyApart, OrderOf
  <2> QED
    BY <1>10 DEF Blocks, BusyApart
<1>21. KindsApart'
  <2> SUFFICES ASSUME NEW y \in Zone, NEW j \in Order, NEW x \in Page, NEW q \in lists'[y][j], NEW c \in Busy \ {blk[a]},
                      Head(x, j) = q, Head(x, OrderOf(c)) = c.page
               PROVE  FALSE
    BY <1>10 DEF KindsApart, OrderOf
  <2>1. CASE Old(y, j, q)
    BY <1>10, <1>11, <2>1 DEF Blocks, KindsApart
  <2>2. CASE New(y, j, q)
    BY <1>12, <2>2 DEF New
  <2> QED
    BY <1>7, <2>1, <2>2
<1>22. ReservedApart'
  <2> SUFFICES ASSUME NEW x \in Reserved
               PROVE  /\ \A y \in Zone, j \in Order : \A q \in lists'[y][j] : Head(x, j) # q
                      /\ \A c \in Busy \ {blk[a]} : Head(x, OrderOf(c)) # c.page
    BY <1>10 DEF ReservedApart, OrderOf
  <2>1. x \in Page /\ Head(x, v) # h
    <3>1. x \in Page
      BY RegionAssumption
    <3>2. Head(x, k) # p /\ \A j \in Order : Buddy(p, j) \in lists[z][j] => Head(x, j) # Buddy(p, j)
      BY <1>2, <1>6, <1>10 DEF Blocks, ReservedApart
    <3> QED
      BY <1>5, <3>1, <3>2
  <2>2. ASSUME NEW y \in Zone, NEW j \in Order, NEW q \in lists'[y][j] PROVE Head(x, j) # q
    <3>1. CASE Old(y, j, q)
      BY <1>11, <3>1 DEF Blocks, ReservedApart
    <3>2. CASE New(y, j, q)
      BY <2>1, <3>2 DEF New
    <3> QED
      BY <1>7, <3>1, <3>2
  <2> QED
    BY <1>10, <2>2 DEF Blocks, ReservedApart
<1>23. NoGhosts'
  <2> SUFFICES ASSUME NEW q \in Page, free'[q], Head(q, order'[q]) = q
               PROVE  \/ q \in lists'[ZoneOf(q)][order'[q]]
                      \/ \E c \in Actor : pc'[c] \in {"alloc_mark", "free_merge"} /\ blk'[c].page = q
    BY DEF NoGhosts
  <2>1. ZoneOf(q) \in Zone /\ order'[q] \in Order
    BY <1>9, ZoneFacts
  <2>2. CASE q = h
    BY <1>2, <1>7, <1>8, <2>1, <2>2 DEF New
  <2>3. CASE q # h
    <3>1. Head(q, v) # h
      BY <1>6, <1>8, <2>3
    <3>2. order'[q] = order[q] /\ free[q]
      BY <1>6, <1>8, <3>1
    <3>3. q # p
      BY <1>2, <3>1
    <3>4. \/ q \in lists[ZoneOf(q)][order[q]]
          \/ \E c \in Actor : pc[c] \in {"alloc_mark", "free_merge"} /\ blk[c].page = q
      BY <3>2 DEF Blocks, NoGhosts
    <3>5. \A j \in k .. v - 1 : q # Buddy(p, j)
      <4> SUFFICES ASSUME NEW j \in k .. v - 1, q = Buddy(p, j) PROVE FALSE
        OBVIOUS
      <4>1. Fits(q, j)
        BY DEF GivesBack, IsMerge
      <4>2. Head(q, j) = Buddy(p, j)
        BY <4>1 DEF Fits
      <4>3. Head(q, v) = h
        BY <4>2 DEF GivesBack, IsMerge
      <4> QED
        BY <3>1, <4>3
    <3>6. ASSUME NEW c \in Actor, pc[c] \in {"alloc_mark", "free_merge"}, blk[c].page = q
          PROVE  pc'[c] \in {"alloc_mark", "free_merge"} /\ blk'[c].page = q
      BY <1>1, <1>6, <3>3, <3>6
    <3>7. q \in lists[ZoneOf(q)][order[q]] => q \in lists'[ZoneOf(q)][order'[q]]
      BY <1>7, <2>1, <3>2, <3>5 DEF Old
    <3> QED
      BY <3>4, <3>6, <3>7
  <2> QED
    BY <2>2, <2>3
<1>24. Coalesced'
  <2> SUFFICES ASSUME NEW y \in Zone, NEW j \in Order, NEW q \in lists'[y][j], j < max_order[q],
                      Buddy(q, j) \in lists'[y][j]
               PROVE  FALSE
    BY DEF Coalesced, max_order
  <2>1. Old(y, j, q) \/ New(y, j, q)
    BY <1>7
  <2>2. Old(y, j, Buddy(q, j)) \/ New(y, j, Buddy(q, j))
    BY <1>7
  <2>3. CASE Old(y, j, q) /\ Old(y, j, Buddy(q, j))
    BY <2>3 DEF Coalesced, Old
  <2>4. Buddy(h, v) = Buddy(p, v) /\ Buddy(h, v) # h
    <3>1. Buddy(h, v) # h
      BY <1>2, <1>3, BuddyBuddy
    <3> QED
      BY <1>2, <3>1 DEF Buddy
  <2>5. CASE New(y, j, q)
    <3>1. q = h /\ j = v /\ y = z /\ v < max_order[p]
      BY <1>2, <2>5 DEF New
    <3>2. Old(z, v, Buddy(p, v))
      BY <2>2, <2>4, <3>1 DEF New
    <3> QED
      BY <1>4, <3>1, <3>2 DEF Old
  <2>6. CASE Old(y, j, q) /\ New(y, j, Buddy(q, j))
    <3>1. Fits(q, j) /\ q \in Page /\ Head(q, j) = q
      BY <1>11, <2>6 DEF Fits
    <3>2. q \in Nat /\ j \in Nat
      BY <3>1, ZoneFacts
    <3>3. Buddy(q, j) = h /\ j = v /\ y = z
      BY <2>6 DEF New
    <3>4. q = Buddy(p, v)
      BY <2>4, <3>1, <3>2, <3>3, BuddyBuddy
    <3>5. max_order[q] = max_order[h]
      BY <3>1, <3>2, <3>3, BuddyFits
    <3> QED
      BY <1>2, <1>4, <2>6, <3>3, <3>4, <3>5 DEF Old
  <2> QED
    BY <2>1, <2>2, <2>3, <2>5, <2>6
<1> QED
  BY <1>15, <1>16, <1>17, <1>18, <1>19, <1>20, <1>21, <1>22, <1>23, <1>24 DEF Blocks
---------------------------------------------------------------------------
(* Counting and owning pages.                                              *)
LEMMA ListedSet == ListsTrue => Listed = {x \in Page : \E z \in Zone, k \in Order : Head(x, k) \in lists[z][k]}
<1> SUFFICES ASSUME ListsTrue PROVE Listed = {x \in Page : \E z \in Zone, k \in Order : Head(x, k) \in lists[z][k]}
  OBVIOUS
<1>1. \A x : x \in Listed <=> x \in Page /\ \E z \in Zone, k \in Order : Head(x, k) \in lists[z][k]
  BY ListedIs
<1> QED
  BY <1>1

LEMMA ListedSetNext == (ListsTrue => Listed = {x \in Page : \E z \in Zone, k \in Order : Head(x, k) \in lists[z][k]})'
BY ListedSet, PTL

(* The pages of a set of blocks.                                           *)
LEMMA SpreadIs ==
  ASSUME NEW S, NEW b
  PROVE  /\ \A x : x \in Spread(S) <=> \E c \in S : x \in PagesOf(c)
         /\ Spread(S \cup {b}) = Spread(S) \cup PagesOf(b)
<1>1. \A x, T : x \in Spread(T) <=> \E c \in T : x \in PagesOf(c)
  BY DEF Spread
<1>2. Spread(S \cup {b}) = Spread(S) \cup PagesOf(b)
  BY <1>1
<1> QED
  BY <1>1, <1>2

(* No page of a busy block is reserved, listed or of another busy block.   *)
LEMMA PagesApart ==
  ASSUME Blocks, NEW b \in Busy, NEW S, S \subseteq Busy
  PROVE  /\ PagesOf(b) # {} /\ PagesOf(b) \cap Reserved = {} /\ PagesOf(b) \cap Listed = {}
         /\ b \notin S => PagesOf(b) \cap Spread(S) = {}
         /\ Spread(S \ {b}) = Spread(S) \ PagesOf(b)
<1>1. \A c \in Busy : Fits(c.page, OrderOf(c)) /\ \A x : x \in PagesOf(c) <=> x \in Page /\ Head(x, OrderOf(c)) = c.page
  BY BusyIs, PagesOfIs
<1>2. PagesOf(b) # {}
  <2>1. b.page \in PagesOf(b)
    BY <1>1, BusyIs
  <2> QED
    BY <2>1
<1>3. PagesOf(b) \cap Reserved = {}
  BY <1>1 DEF Blocks, ReservedApart
<1>4. PagesOf(b) \cap Listed = {}
  <2> SUFFICES ASSUME NEW x \in Listed, x \in PagesOf(b) PROVE FALSE
    OBVIOUS
  <2>1. x \in Page /\ \E z \in Zone, k \in Order : Head(x, k) \in lists[z][k]
    BY ListedIs DEF Blocks
  <2> QED
    BY <1>1, <2>1 DEF Blocks, KindsApart
<1>5. \A c \in Busy : \A x : x \in PagesOf(b) /\ x \in PagesOf(c) => b = c
  BY <1>1 DEF Blocks, BusyApart
<1>6. \A x, T : x \in Spread(T) <=> \E c \in T : x \in PagesOf(c)
  BY SpreadIs
<1>7. b \notin S => PagesOf(b) \cap Spread(S) = {}
  BY <1>5, <1>6
<1>8. ASSUME NEW x PROVE x \in Spread(S \ {b}) <=> x \in Spread(S) /\ x \notin PagesOf(b)
  BY <1>5, <1>6
<1> QED
  BY <1>2, <1>3, <1>4, <1>7, <1>8

(* What callers own, what the pool has, and what is counted.               *)
LEMMA PagesAbstract ==
  /\ OwnedPages = Reserved \cup Spread(held \cup CallsAt(AllocLabels))
  /\ PoolPages = Listed \cup Spread(CallsAt(FreeLabels))
<1>1. Taken = held \cup CallsAt(AllocLabels)
  BY DEF Taken, Allocating, CallsAt, AllocLabels
<1>2. OwnedPages = Reserved \cup Spread(held \cup CallsAt(AllocLabels))
  BY <1>1 DEF OwnedPages, Spread
<1>3. UNION {PagesOf(blk[a]) : a \in Freeing} = Spread(CallsAt(FreeLabels))
  <2> DEFINE U == UNION {PagesOf(blk[a]) : a \in Freeing}
             V == UNION {PagesOf(b) : b \in CallsAt(FreeLabels)}
  <2>1. \A x : x \in U <=> \E a \in Freeing : x \in PagesOf(blk[a])
    OBVIOUS
  <2>2. \A x : x \in V <=> \E b \in CallsAt(FreeLabels) : x \in PagesOf(b)
    OBVIOUS
  <2>3. \A b : b \in CallsAt(FreeLabels) <=> \E a \in Freeing : b = blk[a]
    BY DEF CallsAt, Freeing, FreeLabels
  <2> HIDE DEF U, V
  <2>4. U = V
    BY <2>1, <2>2, <2>3
  <2> QED
    BY <2>4 DEF U, V, Spread
<1> QED
  BY <1>2, <1>3 DEF PoolPages

LEMMA BusyKinds ==
  /\ CallsAt(AllocLabels) \subseteq Busy /\ CallsAt(FreeLabels) \subseteq Busy /\ CallsAt(CountLabels) \subseteq Busy
  /\ held \subseteq Busy
BY DEF Busy, CallsAt, AllocLabels, FreeLabels, CountLabels, Underway

LEMMA PagesAbstractNext ==
  /\ OwnedPages' = Reserved \cup Spread(held' \cup CallsAt(AllocLabels)')
  /\ PoolPages' = Listed' \cup Spread(CallsAt(FreeLabels)')
  /\ CountedPages' = Listed' \cup Spread(CallsAt(CountLabels)')
<1>1. (/\ OwnedPages = Reserved \cup Spread(held \cup CallsAt(AllocLabels))
       /\ PoolPages = Listed \cup Spread(CallsAt(FreeLabels)))'
  BY PagesAbstract, PTL
<1> QED
  BY <1>1 DEF CountedPages, Spread, PagesOf

(* A block of order k has 2^k pages, all in one zone.                      *)
LEMMA BlockCount ==
  ASSUME NEW p, NEW k, Fits(p, k)
  PROVE  /\ IsFiniteSet(Pages(p, k)) /\ Cardinality(Pages(p, k)) = 2^k /\ Pages(p, k) # {}
         /\ Pages(p, k) \subseteq PagesIn(ZoneOf(p))
<1>1. p \in Page /\ p \in Nat /\ k \in Nat /\ k <= max_order[p] /\ Head(p, k) = p
  BY ZoneFacts DEF Fits
<1>2. 2^k \in Nat /\ 2^k >= 1
  BY <1>1, Power
<1> DEFINE D == 2^k
<1>3. D \in Nat /\ D >= 1
  BY <1>2
<1> HIDE DEF D
<1>4. IsFiniteSet(p .. (p + D - 1)) /\ Cardinality(p .. (p + D - 1)) = D
  <2> DEFINE e == p + D - 1
  <2>1. p \in Int /\ e \in Int /\ p <= e /\ e - p + 1 = D
    BY <1>1, <1>3
  <2> HIDE DEF e
  <2>2. IsFiniteSet(p .. e) /\ Cardinality(p .. e) = e - p + 1
    BY <2>1, FS_Interval
  <2> QED
    BY <2>1, <2>2 DEF e
<1>5. p \in p .. (p + D - 1)
  BY <1>1, <1>3
<1>6. ASSUME NEW x \in Pages(p, k) PROVE x \in PagesIn(ZoneOf(p))
  <2>1. x \in Page /\ Head(x, k) = p
    BY <1>6, PagesAre
  <2>2. ZoneOf(x) = ZoneOf(p)
    BY <1>1, <2>1, Around, ZoneFacts
  <2> QED
    BY <2>1, <2>2, ZoneFacts
<1> QED
  BY <1>4, <1>5, <1>6 DEF Pages, D

LEMMA ZoneFinite ==
  ASSUME NEW z \in Zone, NEW L
  PROVE  IsFiniteSet(L \cap PagesIn(z)) /\ Cardinality(L \cap PagesIn(z)) \in Nat
<1>1. First(z) \in Int /\ Beyond(z) - 1 \in Int
  BY ZoneFacts
<1>2. IsFiniteSet(PagesIn(z))
  BY <1>1, FS_Interval DEF PagesIn
<1>3. IsFiniteSet(L \cap PagesIn(z))
  BY <1>2, FS_Subset
<1> QED
  BY <1>3, FS_CardinalityType

Share(p, k, z) == IF ZoneOf(p) = z THEN 2^k ELSE 0

LEMMA CountAdd ==
  ASSUME NEW p, NEW k, Fits(p, k), NEW L, L \cap Pages(p, k) = {}, NEW z \in Zone
  PROVE  Cardinality((L \cup Pages(p, k)) \cap PagesIn(z)) =
           Cardinality(L \cap PagesIn(z)) + Share(p, k, z)
<1> DEFINE B == Pages(p, k)
<1>1. /\ IsFiniteSet(B) /\ Cardinality(B) = 2^k /\ B \subseteq PagesIn(ZoneOf(p)) /\ p \in Page /\ k \in Nat
  BY BlockCount, ZoneFacts DEF Fits
<1>2. 2^k \in Nat
  BY <1>1, Power
<1>3. IsFiniteSet(L \cap PagesIn(z)) /\ Cardinality(L \cap PagesIn(z)) \in Nat
  BY ZoneFinite
<1> HIDE DEF B
<1>4. CASE ZoneOf(p) = z
  <2>1. (L \cup B) \cap PagesIn(z) = (L \cap PagesIn(z)) \cup B
    BY <1>1, <1>4
  <2>2. (L \cap PagesIn(z)) \cap B = {}
    BY DEF B
  <2>3. Cardinality((L \cap PagesIn(z)) \cup B) = Cardinality(L \cap PagesIn(z)) + Cardinality(B) - Cardinality({})
    BY <1>1, <1>3, <2>2, FS_Union
  <2>4. Cardinality({}) = 0
    BY FS_EmptySet
  <2> QED
    BY <1>1, <1>2, <1>3, <1>4, <2>1, <2>3, <2>4 DEF B, Share
<1>5. CASE ZoneOf(p) # z
  <2>1. B \cap PagesIn(z) = {}
    BY <1>1, <1>5, ZoneFacts
  <2>2. (L \cup B) \cap PagesIn(z) = L \cap PagesIn(z)
    BY <2>1
  <2> QED
    BY <1>3, <1>5, <2>2 DEF B, Share
<1> QED
  BY <1>4, <1>5
---------------------------------------------------------------------------
(* The steps, as a caller sees them.                                       *)
AbstractStep ==
  \/ \E b : /\ PagesOf(b) # {} /\ PagesOf(b) \subseteq PoolPages /\ PagesOf(b) \cap OwnedPages = {}
            /\ OwnedPages' = OwnedPages \cup PagesOf(b) /\ PoolPages' = PoolPages \ PagesOf(b)
  \/ \E b : /\ PagesOf(b) # {} /\ PagesOf(b) \subseteq OwnedPages
            /\ OwnedPages' = OwnedPages \ PagesOf(b) /\ PoolPages' = PoolPages \cup PagesOf(b)
  \/ OwnedPages' = OwnedPages /\ PoolPages' = PoolPages

(* Splitting takes the pages of the block off the lists.                   *)
LEMMA TakeListed ==
  ASSUME Blocks, Blocks', NEW a \in Actor, NEW z, NEW b, NEW v, NEW k, TakesBlock(a, z, b, v, k)
  PROVE  /\ \A x : x \in PagesOf(blk'[a]) <=> x \in Page /\ Head(x, k) = b
         /\ PagesOf(blk'[a]) \subseteq Listed /\ Listed' = Listed \ PagesOf(blk'[a])
<1>1. /\ z \in Zone /\ k \in Order /\ v \in Order /\ k <= v /\ b \in lists[z][v] /\ Fits(b, v) /\ ZoneOf(b) = z
      /\ k \in Nat /\ v \in Nat
  BY ZoneFacts DEF TakesBlock, IsSplit
<1>2. b \in Page /\ b \in Nat /\ v <= max_order[b] /\ Head(b, v) = b /\ max_order[b] \in Nat
  BY <1>1, MaxOrderIs, ZoneFacts DEF Fits
<1>3. Fits(b, k)
  BY <1>1, <1>2, AlignedDown DEF Fits
<1>4. \A x : x \in PagesOf(blk'[a]) <=> x \in Page /\ Head(x, k) = b
  BY <1>3, PagesOfIs DEF TakesBlock
<1>5. Listed = {x \in Page : \E y \in Zone, j \in Order : Head(x, j) \in lists[y][j]}
  BY ListedSet DEF Blocks
<1>6. Listed' = {x \in Page : \E y \in Zone, j \in Order : Head(x, j) \in lists'[y][j]}
  BY ListedSetNext DEF Blocks
<1>7. \A y \in Zone, j \in Order : \A q :
        q \in lists'[y][j] <=> \/ q \in lists[y][j] /\ ~(q = b /\ j = v)
                               \/ y = z /\ j \in k .. v - 1 /\ q = Buddy(b, j)
  BY DEF TakesBlock
<1>8. /\ \A x \in Page : Head(x, v) = b <=> Head(x, k) = b \/ \E j \in k .. v - 1 : Head(x, j) = Buddy(b, j)
      /\ \A x \in Page, j \in k .. v - 1 : Head(x, j) = Buddy(b, j) => Head(x, k) # b
      /\ \A j \in k .. v - 1 : j \in Order
  BY DEF TakesBlock, IsSplit
<1>9. \A x \in Page, y \in Zone, j \in Order : Head(x, v) = b /\ Head(x, j) \in lists[y][j] => y = z /\ Head(x, j) = b /\ j = v
  <2> SUFFICES ASSUME NEW x \in Page, NEW y \in Zone, NEW j \in Order, Head(x, v) = b, Head(x, j) \in lists[y][j]
               PROVE  y = z /\ Head(x, j) = b /\ j = v
    OBVIOUS
  <2>1. Fits(Head(x, j), j) /\ ZoneOf(Head(x, j)) = y
    BY DEF Blocks, ListsTrue
  <2>2. x \in Nat /\ j \in Nat /\ Head(x, j) \in Page /\ j <= max_order[Head(x, j)] /\ Head(Head(x, j), j) = Head(x, j)
    BY <2>1, ZoneFacts DEF Fits
  <2>3. ZoneOf(x) = y
    BY <2>1, <2>2, Around
  <2>4. ZoneOf(x) = z
    BY <1>1, <1>2, <2>2, Around
  <2> QED
    BY <2>3, <2>4 DEF TakesBlock, IsSplit
<1>10. ASSUME NEW x \in Page
       PROVE  x \in Listed' <=> x \in Listed /\ Head(x, k) # b
  <2>1. CASE Head(x, k) = b
    <3>1. Head(x, v) = b
      BY <1>8, <2>1
    <3>2. ASSUME NEW y \in Zone, NEW j \in Order, Head(x, j) \in lists'[y][j] PROVE FALSE
      BY <1>7, <1>8, <1>9, <2>1, <3>1, <3>2
    <3> QED
      BY <1>6, <2>1, <3>2
  <2>2. CASE Head(x, k) # b /\ Head(x, v) = b
    <3>1. PICK j \in k .. v - 1 : Head(x, j) = Buddy(b, j)
      BY <1>8, <2>2
    <3>2. j \in Order /\ Head(x, j) \in lists'[z][j]
      BY <1>1, <1>7, <1>8, <3>1
    <3>3. x \in Listed'
      BY <1>1, <1>6, <3>2
    <3>4. x \in Listed
      BY <1>1, <1>5, <2>2
    <3> QED
      BY <2>2, <3>3, <3>4
  <2>3. CASE Head(x, v) # b
    <3>1. ASSUME NEW y \in Zone, NEW j \in Order PROVE Head(x, j) \in lists'[y][j] <=> Head(x, j) \in lists[y][j]
      <4>1. ~(Head(x, j) = b /\ j = v) /\ ~(j \in k .. v - 1 /\ Head(x, j) = Buddy(b, j))
        BY <1>8, <2>3
      <4> QED
        BY <1>7, <4>1
    <3>2. Head(x, k) # b
      BY <1>8, <2>3
    <3> QED
      BY <1>5, <1>6, <3>1, <3>2
  <2> QED
    BY <2>1, <2>2, <2>3
<1>11. Listed \subseteq Page /\ Listed' \subseteq Page
  BY <1>5, <1>6
<1>12. Listed' = Listed \ PagesOf(blk'[a])
  BY <1>4, <1>10, <1>11
<1>13. ASSUME NEW x \in PagesOf(blk'[a]) PROVE x \in Listed
  <2>1. x \in Page /\ Head(x, v) = b
    BY <1>4, <1>8
  <2> QED
    BY <1>1, <1>5, <2>1
<1> QED
  BY <1>4, <1>12, <1>13

(* Merging puts the pages of the block on the lists.                       *)
LEMMA MergeListed ==
  ASSUME Blocks, Blocks', NEW a \in Actor, NEW z, NEW p, NEW k, NEW v, NEW h, GivesBack(a, z, p, k, v, h)
  PROVE  /\ Fits(p, k) /\ PagesOf(blk[a]) = Pages(p, k)
         /\ Listed \cap PagesOf(blk[a]) = {} /\ Listed' = Listed \cup PagesOf(blk[a])
<1>1. /\ z \in Zone /\ k \in Order /\ v \in Order /\ Fits(p, k) /\ p = blk[a].page /\ k = OrderOf(blk[a])
      /\ h = Head(p, v) /\ Fits(h, v) /\ ZoneOf(h) = z
  BY DEF GivesBack, IsMerge
<1>2. PagesOf(blk[a]) = Pages(p, k) /\ \A x : x \in PagesOf(blk[a]) <=> x \in Page /\ Head(x, k) = p
  BY <1>1, PagesOfIs DEF PagesOf, OrderOf
<1>3. Listed = {x \in Page : \E y \in Zone, j \in Order : Head(x, j) \in lists[y][j]}
  BY ListedSet DEF Blocks
<1>4. Listed' = {x \in Page : \E y \in Zone, j \in Order : Head(x, j) \in lists'[y][j]}
  BY ListedSetNext DEF Blocks
<1>5. \A y \in Zone, j \in Order : \A q :
        q \in lists'[y][j] <=> \/ q \in lists[y][j] /\ ~(y = z /\ j \in k .. v - 1 /\ q = Buddy(p, j))
                               \/ y = z /\ j = v /\ q = h
  BY DEF GivesBack
<1>6. /\ \A x \in Page : Head(x, v) = h <=> Head(x, k) = p \/ \E j \in k .. v - 1 : Head(x, j) = Buddy(p, j)
      /\ \A j \in k .. v - 1 : j \in Order /\ Buddy(p, j) \in lists[z][j]
  BY DEF GivesBack, IsMerge
<1>7. ASSUME NEW x \in Page, Head(x, k) = p PROVE x \notin Listed
  <2>1. blk[a] \in Busy
    BY CallIsBusy DEF GivesBack, Blocks
  <2> QED
    BY <1>1, <1>3, <1>7, <2>1 DEF Blocks, KindsApart
<1>8. ASSUME NEW x \in Page
      PROVE  x \in Listed' <=> x \in Listed \/ Head(x, k) = p
  <2>1. CASE Head(x, v) = h
    <3>1. Head(x, v) \in lists'[z][v]
      BY <1>1, <1>5, <2>1
    <3>2. x \in Listed'
      BY <1>1, <1>4, <3>1
    <3>3. ASSUME Head(x, k) # p PROVE x \in Listed
      <4>1. PICK j \in k .. v - 1 : Head(x, j) = Buddy(p, j)
        BY <1>6, <2>1, <3>3
      <4> QED
        BY <1>1, <1>3, <1>6, <4>1
    <3> QED
      BY <3>2, <3>3
  <2>2. CASE Head(x, v) # h
    <3>1. ASSUME NEW y \in Zone, NEW j \in Order PROVE Head(x, j) \in lists'[y][j] <=> Head(x, j) \in lists[y][j]
      <4>1. ~(Head(x, j) = h /\ j = v) /\ ~(j \in k .. v - 1 /\ Head(x, j) = Buddy(p, j))
        BY <1>6, <2>2
      <4> QED
        BY <1>5, <4>1
    <3>2. Head(x, k) # p
      BY <1>6, <2>2
    <3> QED
      BY <1>3, <1>4, <3>1, <3>2
  <2> QED
    BY <2>1, <2>2
<1>9. Listed \subseteq Page /\ Listed' \subseteq Page
  BY <1>3, <1>4
<1> QED
  BY <1>1, <1>2, <1>7, <1>8, <1>9

(* The step of pmm_alloc under the lock.                                   *)
LEMMA AllocTakeStep ==
  ASSUME IInv, NEW a \in Actor, AllocTake(a)
  PROVE  IInv' /\ AbstractStep
<1>1. PICK z \in Zone, v \in Order, k \in Order : \E b \in lists[z][v] : TakesBlock(a, z, b, v, k)
  BY AllocTakes DEF IInv
<1>2. PICK b \in lists[z][v] : TakesBlock(a, z, b, v, k)
  BY <1>1
<1>3. Blocks' /\ Coalesced'
  BY <1>2, SplitKeeps DEF IInv
<1> DEFINE P == PagesOf(blk'[a])
<1>4. P \subseteq Listed /\ Listed' = Listed \ P
  BY <1>2, <1>3, TakeListed DEF IInv
<1>5. /\ pc[a] = "idle" /\ pc' = [pc EXCEPT ![a] = "alloc_mark"] /\ held' = held
      /\ free_page_count' = free_page_count /\ seen' = seen /\ lost' = lost
      /\ blk'[a].page = b /\ OrderOf(blk'[a]) = k /\ \A c \in Actor : c # a => blk'[c] = blk[c]
  BY <1>2 DEF TakesBlock, IInv, Blocks, Shapes
<1>6. /\ CallsAt(AllocLabels)' = CallsAt(AllocLabels) \cup {blk'[a]}
      /\ CallsAt(CountLabels)' = CallsAt(CountLabels) \cup {blk'[a]}
      /\ CallsAt(FreeLabels)' = CallsAt(FreeLabels)
  <2>1. /\ Shapes /\ "idle" \notin AllocLabels /\ "idle" \notin CountLabels /\ "idle" \notin FreeLabels
        /\ pc[a] \notin AllocLabels /\ pc[a] \notin CountLabels /\ pc[a] \notin FreeLabels
        /\ "alloc_mark" \in AllocLabels /\ "alloc_mark" \in CountLabels /\ "alloc_mark" \notin FreeLabels
    BY <1>5 DEF IInv, Blocks, AllocLabels, CountLabels, FreeLabels, Underway
  <2>2. CallsAt(AllocLabels)' = CallsAt(AllocLabels) \cup {blk'[a]}
    BY <1>5, <2>1, CallsMove
  <2>3. CallsAt(CountLabels)' = CallsAt(CountLabels) \cup {blk'[a]}
    BY <1>5, <2>1, CallsMove
  <2>4. CallsAt(FreeLabels)' = CallsAt(FreeLabels)
    BY <1>5, <2>1, CallsMove
  <2> QED
    BY <2>2, <2>3, <2>4
<1>7. P # {}
  <2>1. CallTrue' /\ pc'[a] = "alloc_mark"
    BY <1>3, <1>5 DEF Blocks, IInv, Shapes
  <2>2. Fits(b, k)
    BY <1>5, <2>1 DEF CallTrue, Fits, OrderOf
  <2> QED
    BY <1>5, <2>2, BlockCount DEF PagesOf, OrderOf
<1>8. ASSUME NEW S, S \subseteq Busy PROVE Listed \cap Spread(S) = {}
  <2>1. \A x : x \in Spread(S) <=> \E c \in S : x \in PagesOf(c)
    BY SpreadIs
  <2>2. \A c \in S : PagesOf(c) \cap Listed = {}
    BY <1>8, PagesApart DEF IInv
  <2> QED
    BY <2>1, <2>2
<1>9. Reserved \cap Listed = {}
  <2>1. \A x \in Listed : \E y \in Zone, j \in Order : Head(x, j) \in lists[y][j]
    BY ListedIs DEF IInv, Blocks
  <2> QED
    BY <2>1 DEF IInv, Blocks, ReservedApart
<1> DEFINE A == Spread(held \cup CallsAt(AllocLabels))
           F == Spread(CallsAt(FreeLabels))
           C == Spread(CallsAt(CountLabels))
<1>10. Listed \cap A = {} /\ Listed \cap F = {}
  BY <1>8, BusyKinds
<1>11. /\ OwnedPages = Reserved \cup A /\ OwnedPages' = Reserved \cup A \cup P
       /\ PoolPages = Listed \cup F /\ PoolPages' = Listed' \cup F
       /\ CountedPages = Listed \cup C /\ CountedPages' = Listed' \cup C \cup P
  <2>1. held' \cup CallsAt(AllocLabels)' = (held \cup CallsAt(AllocLabels)) \cup {blk'[a]}
    BY <1>5, <1>6
  <2>2. Spread(held' \cup CallsAt(AllocLabels)') = A \cup P
    BY <2>1, SpreadIs
  <2>3. Spread(CallsAt(CountLabels)') = C \cup P
    BY <1>6, SpreadIs
  <2>4. CountedPages = Listed \cup C
    BY DEF CountedPages
  <2> HIDE DEF A, F, C, P
  <2> QED
    BY <1>6, <2>2, <2>3, <2>4, PagesAbstract, PagesAbstractNext DEF A, F
<1> HIDE DEF A, F, C, P
<1>12. AbstractStep
  <2>1. P # {} /\ P \subseteq PoolPages /\ P \cap OwnedPages = {}
        /\ OwnedPages' = OwnedPages \cup P /\ PoolPages' = PoolPages \ P
    BY <1>4, <1>7, <1>9, <1>10, <1>11
  <2> QED
    BY <2>1 DEF AbstractStep, P
<1>13. Counted'
  <2>1. CountedPages' = CountedPages
    BY <1>4, <1>11
  <2> QED
    BY <1>5, <2>1 DEF IInv, Counted
<1> QED
  BY <1>3, <1>12, <1>13 DEF IInv

(* The step of pmm_free under the lock, when it merges listed blocks only. *)
LEMMA FreeMergeStep ==
  ASSUME IInv, NEW a \in Actor, FreeMerge(a), ~raced'
  PROVE  IInv' /\ AbstractStep
<1>1. PICK z, p, k, v, h : GivesBack(a, z, p, k, v, h)
  BY FreeMerges DEF IInv
<1>2. Blocks' /\ Coalesced'
  BY <1>1, MergeKeeps DEF IInv
<1> DEFINE P == PagesOf(blk[a])
<1>3. Listed' = Listed \cup P
  BY <1>1, <1>2, MergeListed DEF IInv
<1>4. /\ pc[a] = "free_merge" /\ pc' = [pc EXCEPT ![a] = "idle"] /\ held' = held
      /\ free_page_count' = free_page_count /\ seen' = seen /\ lost' = lost
      /\ \A c \in Actor : c # a => blk'[c] = blk[c]
  BY <1>1 DEF GivesBack, IInv, Blocks, Shapes
<1>5. /\ CallsAt(AllocLabels)' = CallsAt(AllocLabels)
      /\ CallsAt(CountLabels)' = CallsAt(CountLabels) \ {blk[a]} /\ blk[a] \in CallsAt(CountLabels)
      /\ CallsAt(FreeLabels)' = CallsAt(FreeLabels) \ {blk[a]} /\ blk[a] \in CallsAt(FreeLabels)
  <2>1. /\ Shapes /\ "idle" \notin AllocLabels /\ "idle" \notin CountLabels /\ "idle" \notin FreeLabels
        /\ pc[a] \notin AllocLabels /\ pc[a] \in CountLabels /\ pc[a] \in FreeLabels
    BY <1>4 DEF IInv, Blocks, AllocLabels, CountLabels, FreeLabels, Underway
  <2> QED
    BY <1>4, <2>1, CallsMove
<1> DEFINE F == Spread(CallsAt(FreeLabels))
           C == Spread(CallsAt(CountLabels))
<1>6. /\ Spread(CallsAt(FreeLabels)') = F \ P /\ P \subseteq F
      /\ Spread(CallsAt(CountLabels)') = C \ P /\ P \subseteq C
  <2>1. blk[a] \in Busy
    BY <1>5, BusyKinds
  <2>2. \A S : S \subseteq Busy => Spread(S \ {blk[a]}) = Spread(S) \ P
    BY <2>1, PagesApart DEF IInv
  <2>3. \A S : blk[a] \in S => P \subseteq Spread(S)
    BY SpreadIs
  <2> QED
    BY <1>5, <2>2, <2>3, BusyKinds
<1>7. /\ OwnedPages' = OwnedPages
      /\ PoolPages = Listed \cup F /\ PoolPages' = Listed' \cup (F \ P)
      /\ CountedPages = Listed \cup C /\ CountedPages' = Listed' \cup (C \ P)
  <2>1. CountedPages = Listed \cup C
    BY DEF CountedPages
  <2> HIDE DEF F, C, P
  <2> QED
    BY <1>4, <1>5, <1>6, <2>1, PagesAbstract, PagesAbstractNext DEF F
<1> HIDE DEF F, C, P
<1>8. AbstractStep
  BY <1>3, <1>6, <1>7 DEF AbstractStep
<1>9. Counted'
  <2>1. CountedPages' = CountedPages
    BY <1>3, <1>6, <1>7
  <2> QED
    BY <1>4, <2>1 DEF IInv, Counted
<1> QED
  BY <1>2, <1>8, <1>9 DEF IInv
---------------------------------------------------------------------------
(* The steps outside the lock change the lists in nothing.                 *)
LEMMA SameBlocks ==
  ASSUME Blocks, Coalesced, lists' = lists, Busy' = Busy,
         Shapes', ListsTrue', HeldTrue', CallTrue', NoGhosts'
  PROVE  Blocks' /\ Coalesced'
<1>1. ListedApart' /\ Coalesced'
  BY DEF Blocks, ListedApart, Coalesced, max_order
<1>2. BusyApart' /\ KindsApart' /\ ReservedApart'
  BY DEF Blocks, BusyApart, KindsApart, ReservedApart, OrderOf
<1> QED
  BY <1>1, <1>2 DEF Blocks

(* The block of a call starts at no page that starts another block.        *)
LEMMA CallApart ==
  ASSUME Blocks, NEW a \in Actor, pc[a] # "idle"
  PROVE  /\ blk[a] \in Block /\ blk[a] \notin held /\ blk[a].page \in Page
         /\ \A z \in Zone, k \in Order : blk[a].page \notin lists[z][k]
         /\ \A c \in held : c.page # blk[a].page
         /\ \A c \in Actor : c # a /\ pc[c] # "idle" => blk[c].page # blk[a].page
<1>1. blk[a] \in Block /\ blk[a] \notin held /\ blk[a] \in Busy
  BY CallIsBusy DEF Blocks, Shapes
<1>2. \A c \in Busy : c.page \in Page /\ Head(c.page, OrderOf(c)) = c.page
  BY BusyIs
<1>3. ASSUME NEW z \in Zone, NEW k \in Order, blk[a].page \in lists[z][k] PROVE FALSE
  <2>1. Head(blk[a].page, k) = blk[a].page
    BY <1>3 DEF Blocks, ListsTrue, Fits
  <2> QED
    BY <1>1, <1>2, <1>3, <2>1 DEF Blocks, KindsApart
<1>4. ASSUME NEW c \in Busy, c.page = blk[a].page PROVE c = blk[a]
  BY <1>1, <1>2, <1>4 DEF Blocks, BusyApart
<1>5. held \subseteq Busy
  BY BusyKinds
<1>6. \A c \in Actor : c # a /\ pc[c] # "idle" => blk[c] # blk[a] /\ blk[c] \in Busy
  BY CallIsBusy DEF Blocks, Shapes
<1> QED
  BY <1>1, <1>2, <1>3, <1>4, <1>5, <1>6

(* A step of a call that marks its own block at most.                      *)
LEMMA OutsideLock ==
  ASSUME Blocks, Coalesced, NEW a \in Actor, pc[a] # "idle", NEW s \in Underway \ {"alloc_mark"},
         pc[a] \in AllocLabels <=> s \in AllocLabels, s # "free_store",
         pc' = [pc EXCEPT ![a] = s], blk' = blk, held' = held, lists' = lists,
         booting' = booting, raced' = raced, lost' \in BOOLEAN,
         order' \in [Page -> Order], free' \in [Page -> BOOLEAN],
         \A q \in Page : q # blk[a].page => order'[q] = order[q] /\ free'[q] = free[q],
         order'[blk[a].page] = OrderOf(blk[a]), free'[blk[a].page] <=> s = "free_merge"
  PROVE  /\ Blocks' /\ Coalesced' /\ AbstractStep
         /\ CountedPages' = IF pc[a] = "free_store" THEN CountedPages \cup PagesOf(blk[a]) ELSE CountedPages
<1>1. Shapes /\ pc[a] \in Underway /\ s \in Underway
  BY CallIsBusy DEF Blocks
<1>2. pc'[a] = s /\ \A c \in Actor : c # a => pc'[c] = pc[c]
  BY <1>1 DEF Shapes
<1>3. /\ CallsAt(Underway)' = CallsAt(Underway) /\ CallsAt(AllocLabels)' = CallsAt(AllocLabels)
      /\ CallsAt(FreeLabels)' = CallsAt(FreeLabels)
      /\ CallsAt(CountLabels)' = IF pc[a] = "free_store" THEN CallsAt(CountLabels) \cup {blk[a]} ELSE CallsAt(CountLabels)
  <2>1. /\ "idle" \notin Underway /\ "idle" \notin AllocLabels /\ "idle" \notin FreeLabels /\ "idle" \notin CountLabels
        /\ pc[a] \in FreeLabels <=> s \in FreeLabels
        /\ s \in CountLabels /\ (pc[a] = "free_store" <=> pc[a] \notin CountLabels)
    BY <1>1 DEF Underway, AllocLabels, FreeLabels, CountLabels
  <2> QED
    BY <1>1, <2>1, CallsMove
<1>4. Busy' = Busy
  BY <1>3 DEF Busy
<1>5. Shapes'
  <2>1. pc' \in [Actor -> {"idle", "alloc_mark", "alloc_load", "alloc_store", "free_store", "free_mark", "free_merge"}]
    BY <1>1 DEF Shapes, Underway
  <2>2. \A c \in Actor : pc'[c] # "idle" => pc[c] # "idle"
    BY <1>2
  <2> QED
    BY <1>1, <2>1, <2>2 DEF Shapes
<1>6. /\ blk[a].page \in Page /\ Fits(blk[a].page, OrderOf(blk[a]))
      /\ \A z \in Zone, k \in Order : blk[a].page \notin lists[z][k]
      /\ \A c \in held : c.page # blk[a].page
      /\ \A c \in Actor : c # a /\ pc[c] # "idle" => blk[c].page # blk[a].page /\ blk[c].page \in Page
  BY CallApart DEF Blocks, CallTrue
<1>7. ListsTrue'
  BY <1>6 DEF Blocks, Shapes, ListsTrue, Fits
<1>8. HeldTrue'
  BY <1>6 DEF Blocks, HeldTrue, Fits, OrderOf
<1>9. CallTrue'
  <2> SUFFICES ASSUME NEW c \in Actor
               PROVE  /\ pc'[c] # "idle" => Fits(blk[c].page, OrderOf(blk[c]))
                      /\ pc'[c] \in {"alloc_load", "alloc_store", "free_store", "free_mark", "free_merge"} =>
                           order'[blk[c].page] = OrderOf(blk[c])
                      /\ pc'[c] \in {"alloc_load", "alloc_store", "free_store", "free_mark"} => ~free'[blk[c].page]
                      /\ pc'[c] = "free_merge" => free'[blk[c].page]
    BY DEF CallTrue, Fits, OrderOf
  <2>1. CASE c = a
    BY <1>2, <1>6, <2>1
  <2>2. CASE c # a
    BY <1>2, <1>6, <2>2 DEF Blocks, CallTrue
  <2> QED
    BY <2>1, <2>2
<1>10. NoGhosts'
  <2> SUFFICES ASSUME NEW q \in Page, free'[q], Head(q, order'[q]) = q
               PROVE  \/ q \in lists[ZoneOf(q)][order'[q]]
                      \/ \E c \in Actor : pc'[c] \in {"alloc_mark", "free_merge"} /\ blk[c].page = q
    BY DEF NoGhosts
  <2>1. CASE q = blk[a].page
    BY <1>2, <2>1
  <2>2. CASE q # blk[a].page
    <3>1. \/ q \in lists[ZoneOf(q)][order[q]]
          \/ \E c \in Actor : pc[c] \in {"alloc_mark", "free_merge"} /\ blk[c].page = q
      BY <2>2 DEF Blocks, NoGhosts
    <3> QED
      BY <1>2, <2>2, <3>1
  <2> QED
    BY <2>1, <2>2
<1>11. Blocks' /\ Coalesced'
  BY <1>4, <1>5, <1>7, <1>8, <1>9, <1>10, SameBlocks
<1>12. Listed' = Listed
  BY DEF Listed
<1>13. AbstractStep
  BY <1>3, <1>12, PagesAbstract, PagesAbstractNext DEF AbstractStep
<1>14. CountedPages' = IF pc[a] = "free_store" THEN CountedPages \cup PagesOf(blk[a]) ELSE CountedPages
  <2>1. Spread(CallsAt(CountLabels) \cup {blk[a]}) = Spread(CallsAt(CountLabels)) \cup PagesOf(blk[a])
    BY SpreadIs
  <2>2. CountedPages = Listed \cup Spread(CallsAt(CountLabels))
    BY DEF CountedPages
  <2> QED
    BY <1>3, <1>12, <2>1, <2>2, PagesAbstractNext
<1> QED
  BY <1>11, <1>13, <1>14

LEMMA AllocMarkStep ==
  ASSUME IInv, NEW a \in Actor, AllocMark(a)
  PROVE  IInv' /\ AbstractStep
<1> DEFINE b == blk[a].page
<1>1. Blocks /\ Coalesced /\ Counted
  BY DEF IInv
<1>2. /\ pc[a] = "alloc_mark" /\ pc' = [pc EXCEPT ![a] = "alloc_load"] /\ lists' = lists /\ held' = held /\ blk' = blk
      /\ order' = [order EXCEPT ![b] = OrderOf(blk[a])] /\ free' = [free EXCEPT ![b] = FALSE]
      /\ free_page_count' = free_page_count /\ seen' = seen /\ booting' = booting /\ raced' = raced /\ lost' = lost
  BY DEF AllocMark, Goto, OrderOf
<1>3. b \in Page /\ OrderOf(blk[a]) \in Order
  BY <1>1, <1>2, CallApart, BlockOrder
<1>4. /\ order' \in [Page -> Order] /\ free' \in [Page -> BOOLEAN] /\ order'[b] = OrderOf(blk[a]) /\ ~free'[b]
      /\ \A q \in Page : q # b => order'[q] = order[q] /\ free'[q] = free[q]
      /\ lost' \in BOOLEAN
  BY <1>1, <1>2, <1>3 DEF Blocks, Shapes
<1> HIDE DEF b
<1>5. /\ pc[a] \in AllocLabels <=> "alloc_load" \in AllocLabels
      /\ "alloc_load" \in Underway \ {"alloc_mark"}
  BY <1>2 DEF AllocLabels, Underway
<1>6. Blocks' /\ Coalesced' /\ AbstractStep /\ CountedPages' = CountedPages
  BY <1>1, <1>2, <1>4, <1>5, OutsideLock DEF b
<1> QED
  BY <1>1, <1>2, <1>6 DEF IInv, Counted

LEMMA AllocLoadStep ==
  ASSUME IInv, NEW a \in Actor, AllocLoad(a)
  PROVE  IInv' /\ AbstractStep
<1>1. Blocks /\ Coalesced /\ Counted
  BY DEF IInv
<1>2. /\ pc[a] = "alloc_load" /\ pc' = [pc EXCEPT ![a] = "alloc_store"] /\ lists' = lists /\ held' = held /\ blk' = blk
      /\ order' = order /\ free' = free /\ free_page_count' = free_page_count /\ booting' = booting
      /\ raced' = raced /\ lost' = lost
      /\ seen' = [seen EXCEPT ![a] = free_page_count[ZoneOf(blk[a].page)]]
  BY DEF AllocLoad, Goto
<1>3. order[blk[a].page] = OrderOf(blk[a]) /\ ~free[blk[a].page] /\ ZoneOf(blk[a].page) \in Zone
  BY <1>1, <1>2, CallApart, ZoneFacts DEF Blocks, CallTrue
<1>4. order \in [Page -> Order] /\ free \in [Page -> BOOLEAN] /\ lost \in BOOLEAN
  BY <1>1 DEF Blocks, Shapes
<1>5. /\ pc[a] \in AllocLabels <=> "alloc_store" \in AllocLabels
      /\ "alloc_store" \in Underway \ {"alloc_mark"}
  BY <1>2 DEF AllocLabels, Underway
<1>6. Blocks' /\ Coalesced' /\ AbstractStep /\ CountedPages' = CountedPages
  BY <1>1, <1>2, <1>3, <1>4, <1>5, OutsideLock
<1>7. seen' \in [Actor -> Int]
  BY <1>1, <1>2, <1>3 DEF Counted
<1> QED
  BY <1>1, <1>2, <1>6, <1>7 DEF IInv, Counted

(* free_page_count is stored over what was loaded, or an update is lost.   *)
LEMMA CountStored ==
  ASSUME Counted, NEW a \in Actor, NEW b, Fits(b.page, OrderOf(b)), b = blk[a], NEW n \in Int,
         free_page_count' = [free_page_count EXCEPT ![ZoneOf(b.page)] = seen[a] + n],
         lost' = (lost \/ Overwrites(a)), seen' = [seen EXCEPT ![a] = 0],
         \A z \in Zone : Cardinality(CountedPages' \cap PagesIn(z)) =
           Cardinality(CountedPages \cap PagesIn(z)) + (IF ZoneOf(b.page) = z THEN n ELSE 0)
  PROVE  Counted'
<1>1. free_page_count \in [Zone -> Int] /\ seen \in [Actor -> Int]
  BY DEF Counted
<1>2. free_page_count' \in [Zone -> Int] /\ seen' \in [Actor -> Int]
  <2>1. seen[a] + n \in Int
    BY <1>1
  <2>2. free_page_count' \in [Zone -> Int]
    BY <1>1, <2>1
  <2>3. seen' \in [Actor -> Int]
    BY <1>1
  <2> QED
    BY <2>2, <2>3
<1>3. ASSUME ~lost', NEW z \in Zone PROVE free_page_count'[z] = Cardinality(CountedPages' \cap PagesIn(z))
  <2>1. seen[a] = free_page_count[ZoneOf(b.page)] /\ free_page_count[z] = Cardinality(CountedPages \cap PagesIn(z))
    BY <1>3 DEF Counted, Overwrites
  <2>2. free_page_count[z] \in Int
    BY <1>1
  <2>3. CASE ZoneOf(b.page) = z
    <3>1. free_page_count'[z] = free_page_count[z] + n
      BY <1>1, <2>1, <2>3
    <3> QED
      BY <2>1, <2>3, <3>1
  <2>4. CASE ZoneOf(b.page) # z
    <3>1. free_page_count'[z] = free_page_count[z]
      BY <1>1, <2>4
    <3>2. Cardinality(CountedPages' \cap PagesIn(z)) = free_page_count[z] + 0
      BY <2>1, <2>4
    <3> QED
      BY <2>2, <3>1, <3>2
  <2> QED
    BY <2>3, <2>4
<1> QED
  BY <1>2, <1>3 DEF Counted

LEMMA AllocStoreStep ==
  ASSUME IInv, NEW a \in Actor, AllocStore(a)
  PROVE  IInv' /\ AbstractStep
<1> DEFINE B == blk[a]
           k == OrderOf(B)
<1>1. Blocks /\ Coalesced /\ Counted /\ Shapes
  BY DEF IInv, Blocks
<1>2. /\ pc[a] = "alloc_store" /\ pc' = [pc EXCEPT ![a] = "idle"] /\ lists' = lists /\ order' = order /\ free' = free
      /\ held' = held \cup {B} /\ blk' = [blk EXCEPT ![a] = NoBlock] /\ seen' = [seen EXCEPT ![a] = 0]
      /\ free_page_count' = [free_page_count EXCEPT ![ZoneOf(B.page)] = seen[a] - 2^k] /\ booting' = booting
      /\ raced' = raced /\ lost' = (lost \/ Overwrites(a))
  BY DEF AllocStore, Goto, OrderOf
<1>3. /\ B \in Block /\ B.page \in Page /\ ZoneOf(B.page) \in Zone /\ k \in Nat /\ Fits(B.page, k)
      /\ order[B.page] = k /\ ~free[B.page] /\ B \in Busy
  BY <1>1, <1>2, CallApart, CallIsBusy, ZoneFacts, BlockOrder DEF Blocks, CallTrue
<1>4. /\ pc'[a] = "idle" /\ \A c \in Actor : c # a => pc'[c] = pc[c] /\ blk'[c] = blk[c]
  BY <1>1, <1>2 DEF Shapes
<1>5. /\ CallsAt(Underway)' = CallsAt(Underway) \ {B} /\ B \in CallsAt(Underway)
      /\ CallsAt(AllocLabels)' = CallsAt(AllocLabels) \ {B} /\ B \in CallsAt(AllocLabels)
      /\ CallsAt(CountLabels)' = CallsAt(CountLabels) \ {B} /\ B \in CallsAt(CountLabels)
      /\ CallsAt(FreeLabels)' = CallsAt(FreeLabels)
  <2>1. /\ "idle" \notin Underway /\ "idle" \notin AllocLabels /\ "idle" \notin CountLabels /\ "idle" \notin FreeLabels
        /\ pc[a] \in Underway /\ pc[a] \in AllocLabels /\ pc[a] \in CountLabels /\ pc[a] \notin FreeLabels
    BY <1>2 DEF AllocLabels, CountLabels, FreeLabels, Underway
  <2> QED
    BY <1>1, <1>2, <1>4, <2>1, CallsMove
<1> HIDE DEF B, k
<1>6. Busy' = Busy /\ held' \cup CallsAt(AllocLabels)' = held \cup CallsAt(AllocLabels)
  BY <1>2, <1>5 DEF Busy
<1>7. Shapes'
  <2>1. pc' \in [Actor -> {"idle", "alloc_mark", "alloc_load", "alloc_store", "free_store", "free_mark", "free_merge"}]
        /\ blk' \in [Actor -> Block \cup {NoBlock}] /\ held' \subseteq Block
    BY <1>1, <1>2, <1>3 DEF Shapes
  <2>2. lost' \in BOOLEAN
    BY <1>1, <1>2 DEF Shapes
  <2>3. \A c \in Actor : pc'[c] # "idle" => c # a /\ pc[c] # "idle" /\ blk'[c] = blk[c] /\ blk[c] # B
    BY <1>1, <1>2, <1>4 DEF Shapes, B
  <2>4. \A c \in Actor : pc'[c] # "idle" => blk'[c] \in Block /\ blk'[c] \notin held'
    BY <1>1, <1>2, <2>3 DEF Shapes
  <2>5. \A c, d \in Actor : pc'[c] # "idle" /\ pc'[d] # "idle" /\ blk'[c] = blk'[d] => c = d
    BY <1>1, <2>3 DEF Shapes
  <2> QED
    BY <1>1, <1>2, <2>1, <2>2, <2>4, <2>5 DEF Shapes
<1>8. ListsTrue'
  BY <1>1, <1>2 DEF Blocks, ListsTrue, Fits
<1>9. HeldTrue'
  <2> SUFFICES ASSUME NEW c \in held \cup {B}
               PROVE  Fits(c.page, OrderOf(c)) /\ ~free[c.page] /\ order[c.page] = OrderOf(c)
    BY <1>2 DEF HeldTrue, Fits, OrderOf
  <2>1. CASE c \in held
    BY <1>1, <2>1 DEF Blocks, HeldTrue
  <2>2. CASE c = B
    BY <1>3, <2>2 DEF k
  <2> QED
    BY <2>1, <2>2
<1>10. CallTrue'
  <2>1. \A c \in Actor : pc'[c] # "idle" => pc'[c] = pc[c] /\ blk'[c] = blk[c]
    BY <1>4
  <2> QED
    BY <1>1, <1>2, <2>1 DEF Blocks, CallTrue, Fits, OrderOf
<1>11. NoGhosts'
  <2> SUFFICES ASSUME NEW q \in Page, free[q], Head(q, order[q]) = q
               PROVE  \/ q \in lists[ZoneOf(q)][order[q]]
                      \/ \E c \in Actor : pc'[c] \in {"alloc_mark", "free_merge"} /\ blk'[c].page = q
    BY <1>2 DEF NoGhosts
  <2>1. \/ q \in lists[ZoneOf(q)][order[q]]
        \/ \E c \in Actor : pc[c] \in {"alloc_mark", "free_merge"} /\ blk[c].page = q
    BY <1>1 DEF Blocks, NoGhosts
  <2> QED
    BY <1>2, <1>4, <2>1
<1>12. Blocks' /\ Coalesced'
  BY <1>1, <1>2, <1>6, <1>7, <1>8, <1>9, <1>10, <1>11, SameBlocks
<1>13. Listed' = Listed
  BY <1>2 DEF Listed
<1>14. Counted'
  <2> DEFINE C == Spread(CallsAt(CountLabels))
             P == PagesOf(B)
  <2>1. Spread(CallsAt(CountLabels)') = C \ P /\ P \subseteq C /\ P \cap Listed = {}
    <3>1. Spread(CallsAt(CountLabels) \ {B}) = C \ P /\ P \cap Listed = {}
      BY <1>1, <1>3, BusyKinds, PagesApart
    <3>2. P \subseteq C
      BY <1>5, SpreadIs
    <3> QED
      BY <1>5, <3>1, <3>2
  <2>2. CountedPages = Listed \cup C /\ CountedPages' = Listed \cup (C \ P)
    <3>1. CountedPages = Listed \cup C
      BY DEF CountedPages
    <3> HIDE DEF C, P
    <3> QED
      BY <1>13, <2>1, <3>1, PagesAbstractNext
  <2> HIDE DEF C
  <2>3. CountedPages = CountedPages' \cup P /\ CountedPages' \cap P = {}
    BY <2>1, <2>2
  <2>4. P = Pages(B.page, k)
    BY DEF PagesOf, OrderOf, k
  <2> HIDE DEF P
  <2>5. 2^k \in Nat /\ -(2^k) \in Int
    BY <1>3, Power
  <2>6. ASSUME NEW z \in Zone
        PROVE  Cardinality(CountedPages' \cap PagesIn(z)) =
                 Cardinality(CountedPages \cap PagesIn(z)) + (IF ZoneOf(B.page) = z THEN -(2^k) ELSE 0)
    <3> DEFINE m == Cardinality(CountedPages' \cap PagesIn(z))
               n == Cardinality(CountedPages \cap PagesIn(z))
               d == 2^k
    <3>1. m \in Nat /\ n \in Nat
      BY ZoneFinite
    <3>2. \A L : L \cap Pages(B.page, k) = {} =>
            Cardinality((L \cup Pages(B.page, k)) \cap PagesIn(z)) = Cardinality(L \cap PagesIn(z)) + Share(B.page, k, z)
      BY <1>3, CountAdd
    <3>3. n = m + Share(B.page, k, z)
      BY <2>3, <2>4, <3>2
    <3>4. d \in Nat /\ Share(B.page, k, z) = IF ZoneOf(B.page) = z THEN d ELSE 0
      BY <2>5 DEF Share
    <3> HIDE DEF m, n, d
    <3>5. m = n + (IF ZoneOf(B.page) = z THEN -d ELSE 0)
      BY <3>1, <3>3, <3>4
    <3> QED
      BY <3>5 DEF m, n, d
  <2>7. free_page_count' = [free_page_count EXCEPT ![ZoneOf(B.page)] = seen[a] + (-(2^k))]
    <3>1. seen[a] \in Int
      BY <1>1 DEF Counted
    <3>2. seen[a] - 2^k = seen[a] + (-(2^k))
      BY <2>5, <3>1
    <3> QED
      BY <1>2, <3>2
  <2> QED
    BY <1>1, <1>2, <1>3, <2>5, <2>6, <2>7, CountStored DEF B, k
<1>15. AbstractStep
  BY <1>5, <1>6, <1>13, PagesAbstract, PagesAbstractNext DEF AbstractStep
<1> QED
  BY <1>12, <1>14, <1>15 DEF IInv

LEMMA FreeLoadStep ==
  ASSUME IInv, NEW a \in Actor, FreeLoad(a)
  PROVE  IInv' /\ AbstractStep
<1>1. Blocks /\ Coalesced /\ Counted /\ Shapes
  BY DEF IInv, Blocks
<1>2. PICK B \in held : /\ blk' = [blk EXCEPT ![a] = B] /\ held' = held \ {B}
                        /\ seen' = [seen EXCEPT ![a] = free_page_count[ZoneOf(B.page)]]
  BY DEF FreeLoad
<1>3. /\ pc[a] = "idle" /\ pc' = [pc EXCEPT ![a] = "free_store"] /\ lists' = lists /\ order' = order /\ free' = free
      /\ free_page_count' = free_page_count /\ booting' = booting /\ raced' = raced /\ lost' = lost
  BY DEF FreeLoad, Goto
<1>4. B \in Block /\ B.page \in Page /\ ZoneOf(B.page) \in Zone /\ Fits(B.page, OrderOf(B))
      /\ order[B.page] = OrderOf(B) /\ ~free[B.page] /\ B \in Busy
  BY <1>1, BusyKinds, ZoneFacts DEF Blocks, Shapes, HeldTrue, Fits
<1>5. /\ pc'[a] = "free_store" /\ blk'[a] = B /\ \A c \in Actor : c # a => pc'[c] = pc[c] /\ blk'[c] = blk[c]
  BY <1>1, <1>2, <1>3 DEF Shapes
<1>6. /\ CallsAt(Underway)' = CallsAt(Underway) \cup {B}
      /\ CallsAt(FreeLabels)' = CallsAt(FreeLabels) \cup {B}
      /\ CallsAt(AllocLabels)' = CallsAt(AllocLabels) /\ B \notin CallsAt(AllocLabels)
      /\ CallsAt(CountLabels)' = CallsAt(CountLabels)
  <2>1. /\ "idle" \notin Underway /\ "idle" \notin AllocLabels /\ "idle" \notin CountLabels /\ "idle" \notin FreeLabels
        /\ "free_store" \in Underway /\ "free_store" \notin AllocLabels
        /\ "free_store" \notin CountLabels /\ "free_store" \in FreeLabels
        /\ pc[a] \notin Underway /\ pc[a] \notin AllocLabels /\ pc[a] \notin CountLabels /\ pc[a] \notin FreeLabels
    BY <1>3 DEF AllocLabels, CountLabels, FreeLabels, Underway
  <2>2. B \notin CallsAt(AllocLabels)
    BY <1>1 DEF Shapes, CallsAt, AllocLabels
  <2>3. CallsAt(Underway)' = CallsAt(Underway) \cup {blk'[a]}
    BY <1>1, <1>3, <1>5, <2>1, CallsMove
  <2>4. CallsAt(FreeLabels)' = CallsAt(FreeLabels) \cup {blk'[a]}
    BY <1>1, <1>3, <1>5, <2>1, CallsMove
  <2>5. CallsAt(AllocLabels)' = CallsAt(AllocLabels)
    BY <1>1, <1>3, <1>5, <2>1, CallsMove
  <2>6. CallsAt(CountLabels)' = CallsAt(CountLabels)
    BY <1>1, <1>3, <1>5, <2>1, CallsMove
  <2> QED
    BY <1>5, <2>2, <2>3, <2>4, <2>5, <2>6
<1>7. Busy' = Busy /\ held' \cup CallsAt(AllocLabels)' = (held \cup CallsAt(AllocLabels)) \ {B}
  BY <1>2, <1>6 DEF Busy
<1>8. Shapes'
  <2>1. pc' \in [Actor -> {"idle", "alloc_mark", "alloc_load", "alloc_store", "free_store", "free_mark", "free_merge"}]
        /\ blk' \in [Actor -> Block \cup {NoBlock}] /\ held' \subseteq Block /\ B \notin held'
    BY <1>1, <1>2, <1>3, <1>4 DEF Shapes
  <2>2. \A c \in Actor : c # a /\ pc'[c] # "idle" => pc[c] # "idle" /\ blk'[c] = blk[c] /\ blk[c] # B
    BY <1>1, <1>5 DEF Shapes
  <2>3. \A c \in Actor : pc'[c] # "idle" => blk'[c] \in Block /\ blk'[c] \notin held'
    <3> SUFFICES ASSUME NEW c \in Actor, pc'[c] # "idle" PROVE blk'[c] \in Block /\ blk'[c] \notin held'
      OBVIOUS
    <3>1. CASE c = a
      BY <1>4, <1>5, <2>1, <3>1
    <3>2. CASE c # a
      BY <1>1, <1>2, <2>2, <3>2 DEF Shapes
    <3> QED
      BY <3>1, <3>2
  <2>4. \A c, d \in Actor : pc'[c] # "idle" /\ pc'[d] # "idle" /\ blk'[c] = blk'[d] => c = d
    <3> SUFFICES ASSUME NEW c \in Actor, NEW d \in Actor, pc'[c] # "idle", pc'[d] # "idle", blk'[c] = blk'[d], c # d
                 PROVE  FALSE
      OBVIOUS
    <3>1. CASE c = a \/ d = a
      BY <1>5, <2>2, <3>1
    <3>2. CASE c # a /\ d # a
      BY <1>1, <2>2, <3>2 DEF Shapes
    <3> QED
      BY <3>1, <3>2
  <2> QED
    BY <1>1, <1>3, <2>1, <2>3, <2>4 DEF Shapes
<1>9. ListsTrue'
  BY <1>1, <1>3 DEF Blocks, ListsTrue, Fits
<1>10. HeldTrue'
  BY <1>1, <1>2, <1>3 DEF Blocks, HeldTrue, Fits, OrderOf
<1>11. CallTrue'
  <2> SUFFICES ASSUME NEW c \in Actor
               PROVE  /\ pc'[c] # "idle" => Fits(blk'[c].page, OrderOf(blk'[c]))
                      /\ pc'[c] \in {"alloc_load", "alloc_store", "free_store", "free_mark", "free_merge"} =>
                           order[blk'[c].page] = OrderOf(blk'[c])
                      /\ pc'[c] \in {"alloc_load", "alloc_store", "free_store", "free_mark"} => ~free[blk'[c].page]
                      /\ pc'[c] = "free_merge" => free[blk'[c].page]
    BY <1>3 DEF CallTrue, Fits, OrderOf
  <2>1. CASE c = a
    BY <1>4, <1>5, <2>1
  <2>2. CASE c # a
    BY <1>1, <1>5, <2>2 DEF Blocks, CallTrue
  <2> QED
    BY <2>1, <2>2
<1>12. NoGhosts'
  <2> SUFFICES ASSUME NEW q \in Page, free[q], Head(q, order[q]) = q
               PROVE  \/ q \in lists[ZoneOf(q)][order[q]]
                      \/ \E c \in Actor : pc'[c] \in {"alloc_mark", "free_merge"} /\ blk'[c].page = q
    BY <1>3 DEF NoGhosts
  <2>1. \/ q \in lists[ZoneOf(q)][order[q]]
        \/ \E c \in Actor : pc[c] \in {"alloc_mark", "free_merge"} /\ blk[c].page = q
    BY <1>1 DEF Blocks, NoGhosts
  <2> QED
    BY <1>3, <1>5, <2>1
<1>13. Blocks' /\ Coalesced'
  BY <1>1, <1>3, <1>7, <1>8, <1>9, <1>10, <1>11, <1>12, SameBlocks
<1>14. Listed' = Listed
  BY <1>3 DEF Listed
<1>15. Counted'
  <2>1. seen' \in [Actor -> Int]
    BY <1>1, <1>2, <1>4 DEF Counted
  <2>2. CountedPages' = CountedPages
    BY <1>6, <1>14, PagesAbstractNext DEF CountedPages
  <2> QED
    BY <1>1, <1>3, <2>1, <2>2 DEF Counted
<1>16. AbstractStep
  <2> DEFINE A == Spread(held \cup CallsAt(AllocLabels))
             F == Spread(CallsAt(FreeLabels))
             P == PagesOf(B)
  <2>1. /\ P # {} /\ P \cap Reserved = {}
        /\ Spread(held' \cup CallsAt(AllocLabels)') = A \ P
    <3>1. held \cup CallsAt(AllocLabels) \subseteq Busy
      BY BusyKinds
    <3> QED
      BY <1>1, <1>4, <1>7, <3>1, PagesApart
  <2>2. P \subseteq A
    BY SpreadIs
  <2>3. Spread(CallsAt(FreeLabels)') = F \cup P
    BY <1>6, SpreadIs
  <2> HIDE DEF A, F, P
  <2>4. OwnedPages = Reserved \cup A /\ OwnedPages' = Reserved \cup (A \ P)
    BY <2>1, PagesAbstract, PagesAbstractNext DEF A
  <2>5. PoolPages = Listed \cup F /\ PoolPages' = Listed \cup F \cup P
    BY <1>14, <2>3, PagesAbstract, PagesAbstractNext DEF F
  <2>6. P # {} /\ P \subseteq OwnedPages /\ OwnedPages' = OwnedPages \ P /\ PoolPages' = PoolPages \cup P
    BY <2>1, <2>2, <2>4, <2>5
  <2> QED
    BY <2>6 DEF AbstractStep, P
<1> QED
  BY <1>13, <1>15, <1>16 DEF IInv

LEMMA FreeStoreStep ==
  ASSUME IInv, NEW a \in Actor, FreeStore(a)
  PROVE  IInv' /\ AbstractStep
<1> DEFINE B == blk[a]
           k == OrderOf(B)
<1>1. Blocks /\ Coalesced /\ Counted
  BY DEF IInv
<1>2. /\ pc[a] = "free_store" /\ pc' = [pc EXCEPT ![a] = "free_mark"] /\ lists' = lists /\ order' = order /\ free' = free
      /\ held' = held /\ blk' = blk /\ seen' = [seen EXCEPT ![a] = 0] /\ booting' = booting
      /\ raced' = raced /\ lost' = (lost \/ Overwrites(a))
  BY DEF FreeStore, Goto
<1>3. /\ B.page \in Page /\ k \in Nat /\ Fits(B.page, k) /\ order[B.page] = k /\ ~free[B.page] /\ B \in Busy
  BY <1>1, <1>2, CallApart, CallIsBusy, BlockOrder DEF Blocks, CallTrue
<1>4. free_page_count' = [free_page_count EXCEPT ![ZoneOf(B.page)] = seen[a] + 2^k]
  BY <1>3 DEF FreeStore
<1>5. order \in [Page -> Order] /\ free \in [Page -> BOOLEAN] /\ lost' \in BOOLEAN
  BY <1>1, <1>2 DEF Blocks, Shapes
<1>6. /\ pc[a] \in AllocLabels <=> "free_mark" \in AllocLabels
      /\ "free_mark" \in Underway \ {"alloc_mark"}
  BY <1>2 DEF AllocLabels, Underway
<1>7. Blocks' /\ Coalesced' /\ AbstractStep /\ CountedPages' = CountedPages \cup PagesOf(B)
  BY <1>1, <1>2, <1>3, <1>5, <1>6, OutsideLock
<1>8. CountedPages \cap PagesOf(B) = {}
  <2>1. B \notin CallsAt(CountLabels)
    <3>1. \A c \in Actor : pc[c] \in CountLabels => c # a /\ pc[c] # "idle"
      BY <1>2 DEF CountLabels, Underway
    <3>2. \A c \in Actor : pc[c] \in CountLabels => blk[c] # B
      BY <1>1, <1>2, <3>1 DEF Blocks, Shapes
    <3> QED
      BY <3>2 DEF CallsAt
  <2>2. PagesOf(B) \cap Listed = {} /\ PagesOf(B) \cap Spread(CallsAt(CountLabels)) = {}
    BY <1>1, <1>3, <2>1, BusyKinds, PagesApart
  <2> QED
    BY <2>2 DEF CountedPages
<1>9. 2^k \in Int
  BY <1>3, Power
<1> HIDE DEF k
<1>10. ASSUME NEW z \in Zone
       PROVE  Cardinality(CountedPages' \cap PagesIn(z)) =
                Cardinality(CountedPages \cap PagesIn(z)) + (IF ZoneOf(B.page) = z THEN 2^k ELSE 0)
  <2>1. PagesOf(B) = Pages(B.page, k)
    BY DEF PagesOf, OrderOf, k
  <2>2. \A L : L \cap Pages(B.page, k) = {} =>
          Cardinality((L \cup Pages(B.page, k)) \cap PagesIn(z)) = Cardinality(L \cap PagesIn(z)) + Share(B.page, k, z)
    BY <1>3, CountAdd
  <2> QED
    BY <1>7, <1>8, <2>1, <2>2 DEF Share
<1>11. Counted'
  BY <1>1, <1>2, <1>3, <1>4, <1>9, <1>10, CountStored DEF k
<1> QED
  BY <1>7, <1>11 DEF IInv

LEMMA FreeMarkStep ==
  ASSUME IInv, NEW a \in Actor, FreeMark(a)
  PROVE  IInv' /\ AbstractStep
<1> DEFINE b == blk[a].page
<1>1. Blocks /\ Coalesced /\ Counted
  BY DEF IInv
<1>2. /\ pc[a] = "free_mark" /\ pc' = [pc EXCEPT ![a] = "free_merge"] /\ lists' = lists /\ held' = held /\ blk' = blk
      /\ order' = order /\ free' = [free EXCEPT ![b] = TRUE]
      /\ free_page_count' = free_page_count /\ seen' = seen /\ booting' = booting /\ raced' = raced /\ lost' = lost
  BY DEF FreeMark, Goto
<1>3. b \in Page /\ order[b] = OrderOf(blk[a])
  BY <1>1, <1>2, CallApart DEF Blocks, CallTrue
<1>4. /\ order' \in [Page -> Order] /\ free' \in [Page -> BOOLEAN] /\ order'[b] = OrderOf(blk[a]) /\ free'[b]
      /\ \A q \in Page : q # b => order'[q] = order[q] /\ free'[q] = free[q]
      /\ lost' \in BOOLEAN
  BY <1>1, <1>2, <1>3 DEF Blocks, Shapes
<1> HIDE DEF b
<1>5. /\ pc[a] \in AllocLabels <=> "free_merge" \in AllocLabels
      /\ "free_merge" \in Underway \ {"alloc_mark"}
  BY <1>2 DEF AllocLabels, Underway
<1>6. Blocks' /\ Coalesced' /\ AbstractStep /\ CountedPages' = CountedPages
  BY <1>1, <1>2, <1>4, <1>5, OutsideLock DEF b
<1> QED
  BY <1>1, <1>2, <1>6 DEF IInv, Counted
---------------------------------------------------------------------------
LEMMA NextStep ==
  ASSUME IInv, [Next]_vars, ~raced'
  PROVE  IInv' /\ AbstractStep
<1>1. ASSUME NEW a \in Actor,
             \/ AllocTake(a) \/ AllocMark(a) \/ AllocLoad(a) \/ AllocStore(a)
             \/ FreeLoad(a) \/ FreeStore(a) \/ FreeMark(a) \/ FreeMerge(a)
      PROVE  IInv' /\ AbstractStep
  BY <1>1, AllocTakeStep, AllocMarkStep, AllocLoadStep, AllocStoreStep,
     FreeLoadStep, FreeStoreStep, FreeMarkStep, FreeMergeStep
<1>2. CASE UNCHANGED vars
  <2>1. /\ order' = order /\ free' = free /\ lists' = lists /\ free_page_count' = free_page_count /\ held' = held
        /\ pc' = pc /\ blk' = blk /\ seen' = seen /\ booting' = booting /\ raced' = raced /\ lost' = lost
    BY <1>2 DEF vars
  <2>2. Listed' = Listed /\ \A L : CallsAt(L)' = CallsAt(L)
    BY <2>1 DEF Listed, CallsAt
  <2>3. Busy' = Busy /\ CountedPages' = CountedPages
    BY <2>1, <2>2, PagesAbstractNext DEF Busy, CountedPages
  <2>4. Shapes' /\ ListsTrue' /\ HeldTrue' /\ CallTrue' /\ NoGhosts'
    BY <2>1 DEF IInv, Blocks, Shapes, ListsTrue, HeldTrue, CallTrue, NoGhosts, Fits, OrderOf
  <2>5. Blocks' /\ Coalesced'
    BY <2>1, <2>3, <2>4, SameBlocks DEF IInv
  <2>6. Counted'
    BY <2>1, <2>3 DEF IInv, Counted
  <2>7. OwnedPages' = OwnedPages /\ PoolPages' = PoolPages
    BY <2>1, <2>2, PagesAbstract, PagesAbstractNext
  <2> QED
    BY <2>5, <2>6, <2>7 DEF IInv, AbstractStep
<1> QED
  BY <1>1, <1>2 DEF Next

(* A race is not forgotten.                                                *)
LEMMA RacedStays == raced /\ [Next]_vars => raced'
BY DEF Next, vars, AllocTake, AllocMark, AllocLoad, AllocStore, FreeLoad, FreeStore, FreeMark, FreeMerge

(* At boot every page that is not reserved is a block of its own.          *)
LEMMA InitIInv == Init => IInv /\ Alloc!Init
<1> SUFFICES ASSUME Init PROVE IInv /\ Alloc!Init
  OBVIOUS
<1> DEFINE One(p) == [page |-> p, pages |-> 1]
<1>1. /\ order = [p \in Page |-> 0] /\ free = [p \in Page |-> FALSE]
      /\ lists = [z \in Zone |-> [k \in Order |-> {}]] /\ free_page_count = [z \in Zone |-> 0]
      /\ held = {One(p) : p \in Page \ Reserved}
      /\ pc = [a \in Actor |-> "idle"] /\ blk = [a \in Actor |-> NoBlock] /\ seen = [a \in Actor |-> 0] /\ booting = TRUE
      /\ raced = FALSE /\ lost = FALSE
  BY DEF Init
<1>2. \A z \in Zone, k \in Order : lists[z][k] = {}
  BY <1>1
<1>3. CallsAt(Underway) = {} /\ CallsAt(AllocLabels) = {} /\ CallsAt(FreeLabels) = {} /\ CallsAt(CountLabels) = {} /\ Busy = held
  BY <1>1 DEF Busy, CallsAt, Underway, AllocLabels, FreeLabels, CountLabels
<1>4. 0 \in Order /\ 0 \in Nat /\ Page \subseteq Nat
  BY ZoneFacts
<1>5. \A p \in Page : Fits(p, 0)
  <2> SUFFICES ASSUME NEW p \in Page PROVE Fits(p, 0)
    OBVIOUS
  <2>1. Head(p, 0) = p /\ max_order[p] \in Nat
    BY <1>4, HeadZero, MaxOrderIs, ZoneFacts
  <2> QED
    BY <1>4, <2>1 DEF Fits
<1>6. ASSUME NEW b \in held
      PROVE  b \in Block /\ b.page \in Page \ Reserved /\ OrderOf(b) = 0 /\ b = One(b.page)
  <2>1. PICK p \in Page \ Reserved : b = One(p)
    BY <1>1
  <2>2. 1 \in 1 .. 2^PMM_MAX_ORDER
    <3>1. 2^PMM_MAX_ORDER \in Nat /\ 2^PMM_MAX_ORDER >= 1
      BY RegionAssumption, Power
    <3> QED
      BY <3>1
  <2> QED
    BY <2>1, <2>2 DEF Block, OrderOf, pagecount_to_order
<1>7. \A x \in Page : Head(x, 0) = x
  BY <1>4, HeadZero
<1>8. Shapes
  BY <1>1, <1>4, <1>6 DEF Shapes
<1>9. ListsTrue /\ ListedApart /\ Coalesced
  BY <1>2 DEF ListsTrue, ListedApart, Coalesced
<1>10. HeldTrue
  BY <1>1, <1>5, <1>6 DEF HeldTrue
<1>11. CallTrue /\ NoGhosts
  BY <1>1 DEF CallTrue, NoGhosts
<1>12. BusyApart
  BY <1>3, <1>6, <1>7 DEF BusyApart
<1>13. KindsApart
  BY <1>2 DEF KindsApart
<1>14. ReservedApart
  BY <1>2, <1>3, <1>6, <1>7, RegionAssumption DEF ReservedApart
<1>15. Blocks
  BY <1>8, <1>9, <1>10, <1>11, <1>12, <1>13, <1>14 DEF Blocks
<1>16. Listed = {}
  <2>1. Listed = {x \in Page : \E z \in Zone, k \in Order : Head(x, k) \in lists[z][k]}
    BY <1>9, ListedSet
  <2> QED
    BY <1>2, <2>1
<1>17. Counted
  <2>1. CountedPages = {}
    BY <1>3, <1>16 DEF CountedPages, Spread
  <2>2. \A z \in Zone : Cardinality(CountedPages \cap PagesIn(z)) = 0
    <3>1. \A z \in Zone : CountedPages \cap PagesIn(z) = {}
      BY <2>1
    <3> QED
      BY <3>1, FS_EmptySet
  <2> QED
    <3>1. free_page_count \in [Zone -> Int] /\ \A z \in Zone : free_page_count[z] = 0
      BY <1>1
    <3>2. seen \in [Actor -> Int]
      BY <1>1
    <3> QED
      BY <2>2, <3>1, <3>2 DEF Counted
<1>18. OwnedPages = Page /\ PoolPages = {}
  <2>1. OwnedPages = Reserved \cup Spread(held) /\ PoolPages = {}
    <3>1. held \cup CallsAt(AllocLabels) = held /\ Spread({}) = {}
      BY <1>3 DEF Spread
    <3> QED
      BY <1>3, <1>16, <3>1, PagesAbstract
  <2>2. ASSUME NEW x PROVE x \in Spread(held) <=> x \in Page \ Reserved
    <3>1. x \in Spread(held) <=> \E b \in held : x \in PagesOf(b)
      BY SpreadIs
    <3>2. \A b \in held : x \in PagesOf(b) <=> x \in Page /\ Head(x, 0) = b.page
      BY <1>5, <1>6, PagesOfIs
    <3>3. ASSUME x \in Page \ Reserved PROVE \E b \in held : x \in PagesOf(b)
      <4>1. One(x) \in held /\ One(x).page = x
        BY <1>1, <3>3
      <4> HIDE DEF One
      <4> QED
        BY <1>7, <3>2, <3>3, <4>1
    <3>4. ASSUME NEW b \in held, x \in PagesOf(b) PROVE x \in Page \ Reserved
      BY <1>6, <1>7, <3>2, <3>4
    <3> QED
      BY <3>1, <3>3, <3>4
  <2>3. Spread(held) = Page \ Reserved
    BY <2>2
  <2> QED
    BY <2>1, <2>3, RegionAssumption
<1> QED
  BY <1>9, <1>15, <1>17, <1>18 DEF IInv, Alloc!Init

(* The inductive invariant gives what callers rely on.                     *)
LEMMA IInvGives == IInv => BlocksIntact /\ FreeListsExact
<1> SUFFICES ASSUME IInv PROVE BlocksIntact /\ FreeListsExact
  OBVIOUS
<1>1. Blocks /\ Coalesced /\ Counted /\ ListsTrue /\ HeldTrue /\ Shapes
  BY DEF IInv, Blocks
<1>2. Taken \subseteq Busy /\ held \subseteq Busy
  BY DEF Taken, Busy, CallsAt, Allocating, Underway
<1>3. \A b \in Busy : Fits(b.page, OrderOf(b))
  BY <1>1, BusyIs
<1>4. \A b \in Busy : \A x : x \in PagesOf(b) <=> x \in Page /\ Head(x, OrderOf(b)) = b.page
  BY <1>3, PagesOfIs
<1>5. ListedIsUnallocated
  <2>1. ASSUME NEW x \in Listed, x \in OwnedPages PROVE FALSE
    <3>1. x \in Page /\ \E z \in Zone, k \in Order : Head(x, k) \in lists[z][k]
      BY <1>1, ListedIs
    <3>2. x \in Reserved \/ \E b \in Taken : x \in PagesOf(b)
      BY <2>1 DEF OwnedPages
    <3>3. x \notin Reserved
      BY <1>1, <3>1 DEF Blocks, ReservedApart
    <3>4. \A b \in Taken : x \notin PagesOf(b)
      BY <1>1, <1>2, <1>4, <3>1 DEF Blocks, KindsApart
    <3> QED
      BY <3>2, <3>3, <3>4
  <2> QED
    BY <1>1, <2>1 DEF ListedIsUnallocated, ListsTrue
<1>6. HeldIntact
  <2> SUFFICES ASSUME NEW b \in held
               PROVE  /\ ~free[b.page] /\ b.page % 2^order[b.page] = 0
                      /\ b.pages <= 2^order[b.page] /\ b.pages > 2^order[b.page] \div 2
                      /\ \A c \in held : b # c => PagesOf(b) \cap PagesOf(c) = {}
    BY DEF HeldIntact
  <2>1. b \in Block /\ ~free[b.page] /\ order[b.page] = OrderOf(b) /\ Fits(b.page, OrderOf(b))
    BY <1>1 DEF Shapes, HeldTrue
  <2>2. b.page % 2^order[b.page] = 0
    <3>1. b.page \in Nat /\ OrderOf(b) \in Nat /\ Head(b.page, OrderOf(b)) = b.page
      BY <2>1, BlockOrder DEF Fits
    <3> QED
      BY <2>1, <3>1, HeadFacts
  <2>3. b.pages <= 2^order[b.page] /\ b.pages > 2^order[b.page] \div 2
    <3>1. b.pages \in 1 .. 2^PMM_MAX_ORDER
      BY <2>1 DEF Block
    <3>2. b.pages <= 2^OrderOf(b) /\ b.pages > 2^OrderOf(b) \div 2
      BY <3>1, OrderIs DEF OrderOf
    <3> QED
      BY <2>1, <3>2
  <2>4. ASSUME NEW c \in held, b # c PROVE PagesOf(b) \cap PagesOf(c) = {}
    BY <1>1, <1>2, <1>4, <2>4 DEF Blocks, BusyApart
  <2> QED
    BY <2>1, <2>2, <2>3, <2>4
<1>7. TypeOK
  BY <1>1 DEF TypeOK, Shapes, Counted
<1>8. lost \/ CountExact
  <2> SUFFICES ASSUME ~lost, \A a \in Actor : pc[a] = "idle", NEW z \in Zone
               PROVE  free_page_count[z] = Cardinality(Listed \cap PagesIn(z))
    BY DEF CountExact
  <2>1. CallsAt(CountLabels) = {}
    BY DEF CallsAt, CountLabels, Underway
  <2>2. CountedPages = Listed
    BY <2>1 DEF CountedPages, Spread
  <2> QED
    BY <1>1, <2>2 DEF Counted
<1> QED
  BY <1>1, <1>5, <1>6, <1>7, <1>8 DEF BlocksIntact, FreeListsExact

LEMMA Invariance == Spec => [](raced \/ IInv)
<1>1. Init => IInv
  BY InitIInv
<1>2. (raced \/ IInv) /\ [Next]_vars => (raced \/ IInv)'
  BY NextStep, RacedStays
<1> QED
  BY <1>1, <1>2, PTL DEF Spec

(* Concurrent calls keep the blocks of callers and of the free lists       *)
(* apart, aligned and labelled, through every split and every merge, until *)
(* a merge meets a block that is on no list (raced), for every number of   *)
(* callers, every memory map, every zone boundary, every set of reserved   *)
(* pages and every PMM_MAX_ORDER.                                          *)
THEOREM BlocksStayIntact == Spec => []BlocksIntact
<1>1. raced \/ IInv => BlocksIntact
  BY IInvGives DEF BlocksIntact
<1> QED
  BY <1>1, Invariance, PTL

(* Until then buddies never stay apart on the free lists, and with no call *)
(* under way free_page_count is the number of pages on them, unless an     *)
(* update of it has been overwritten (lost).                               *)
THEOREM ListsStayExact == Spec => []FreeListsExact
<1>1. raced \/ IInv => FreeListsExact
  BY IInvGives DEF FreeListsExact
<1> QED
  BY <1>1, Invariance, PTL

(* Until then pmm_alloc and pmm_free implement the abstract allocator of   *)
(* pages, for any number of concurrent callers.                            *)
THEOREM Refinement == Spec => ImplementsAllocator
<1>1. Init => Alloc!Init
  BY InitIInv
<1>2. (raced \/ IInv) /\ [Next]_vars => [raced' \/ Alloc!Allocate \/ Alloc!Free]_<<OwnedPages, PoolPages>>
  <2> SUFFICES ASSUME raced \/ IInv, [Next]_vars, ~raced'
               PROVE  [raced' \/ Alloc!Allocate \/ Alloc!Free]_<<OwnedPages, PoolPages>>
    OBVIOUS
  <2>1. AbstractStep
    BY NextStep, RacedStays
  <2>2. ASSUME NEW b, PagesOf(b) # {}, PagesOf(b) \subseteq PoolPages, PagesOf(b) \cap OwnedPages = {},
               OwnedPages' = OwnedPages \cup PagesOf(b), PoolPages' = PoolPages \ PagesOf(b)
        PROVE  Alloc!Allocate
    <3>1. OwnedPages' \ OwnedPages = PagesOf(b)
      BY <2>2
    <3> QED
      BY <2>2, <3>1 DEF Alloc!Allocate
  <2>3. ASSUME NEW b, PagesOf(b) # {}, PagesOf(b) \subseteq OwnedPages,
               OwnedPages' = OwnedPages \ PagesOf(b), PoolPages' = PoolPages \cup PagesOf(b)
        PROVE  Alloc!Free
    <3>1. OwnedPages \ OwnedPages' = PagesOf(b)
      BY <2>3
    <3> QED
      BY <2>3, <3>1 DEF Alloc!Free
  <2> QED
    BY <2>1, <2>2, <2>3 DEF AbstractStep
<1> QED
  BY <1>1, <1>2, Invariance, PTL DEF Spec, ImplementsAllocator
===========================================================================
