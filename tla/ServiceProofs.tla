--------------------------- MODULE ServiceProofs ---------------------------
(***************************************************************************)
(* Proofs about three services of the kernel that share nothing: lists,    *)
(* events and, at the end, TLB shootdowns.                                 *)
(*                                                                         *)
(* The links of a list_t always spell the sequence of its nodes, for any   *)
(* set of nodes and any sequence of pushes, insertions, pops and deletes.  *)
(*                                                                         *)
(* ListIsSequence speaks of walks along the links.  What is inductive is   *)
(* local: the neighbours that every single node names are those it has in  *)
(* the sequence.  All insertions are one case, a new node in a gap of the  *)
(* sequence, and all removals another.                                     *)
(***************************************************************************)
EXTENDS List, Events, TlbShootdown, FiniteSetTheorems, SequenceTheorems, WellFoundedInduction,
        TLAPS

Succ(s, i) == IF i < Len(s) THEN s[i + 1] ELSE NoItem
Pred(s, i) == IF i > 1 THEN s[i - 1] ELSE NoItem
First(s) == IF Len(s) = 0 THEN NoItem ELSE s[1]
Final(s) == IF Len(s) = 0 THEN NoItem ELSE s[Len(s)]

ListShape(l) ==
  /\ l = [head |-> l.head, tail |-> l.tail, count |-> l.count, at |-> l.at]
  /\ l.at = [n \in DOMAIN l.at |-> [prev |-> l.at[n].prev, next |-> l.at[n].next]]
  /\ DOMAIN l.at \subseteq Item

IsList(l, s) ==
  /\ ListShape(l)
  /\ s \in Seq(Item)
  /\ \A i, j \in 1 .. Len(s) : s[i] = s[j] => i = j
  /\ \A n : n \in DOMAIN l.at <=> \E i \in 1 .. Len(s) : s[i] = n
  /\ \A i \in 1 .. Len(s) : l.at[s[i]].next = Succ(s, i) /\ l.at[s[i]].prev = Pred(s, i)
  /\ l.head = First(s) /\ l.tail = Final(s) /\ l.count = Len(s)

(* t is s with n in front of position g; t is s without position i.        *)
Inserted(s, t, g, n) ==
  /\ t \in Seq(Item) /\ Len(t) = Len(s) + 1 /\ t[g] = n
  /\ \A j \in 1 .. g - 1 : t[j] = s[j]
  /\ \A j \in g + 1 .. Len(s) + 1 : t[j] = s[j - 1]

Removed(s, t, i) ==
  /\ t \in Seq(Item) /\ Len(t) = Len(s) - 1
  /\ \A j \in 1 .. i - 1 : t[j] = s[j]
  /\ \A j \in i .. Len(s) - 1 : t[j] = s[j + 1]
---------------------------------------------------------------------------
(* t is l with one link of n written, or with n added between p and q.     *)
NextSet(l, t, n, m) ==
  /\ ListShape(t) /\ t.head = l.head /\ t.tail = l.tail /\ t.count = l.count
  /\ DOMAIN t.at = DOMAIN l.at
  /\ \A x \in DOMAIN l.at : /\ t.at[x].prev = l.at[x].prev
                            /\ t.at[x].next = IF x = n THEN m ELSE l.at[x].next

PrevSet(l, t, n, m) ==
  /\ ListShape(t) /\ t.head = l.head /\ t.tail = l.tail /\ t.count = l.count
  /\ DOMAIN t.at = DOMAIN l.at
  /\ \A x \in DOMAIN l.at : /\ t.at[x].next = l.at[x].next
                            /\ t.at[x].prev = IF x = n THEN m ELSE l.at[x].prev

NodeAdded(l, t, n, p, q) ==
  /\ ListShape(t) /\ t.head = l.head /\ t.tail = l.tail /\ t.count = l.count + 1
  /\ DOMAIN t.at = {n} \cup DOMAIN l.at
  /\ t.at[n].prev = p /\ t.at[n].next = q
  /\ \A x \in DOMAIN l.at : t.at[x] = l.at[x]

LEMMA SetNextIs ==
  ASSUME NEW l, ListShape(l), NEW n, n = NoItem \/ n \in DOMAIN l.at, NEW m
  PROVE  NextSet(l, SetNext(l, n, m), n, m)
<1> DEFINE t == SetNext(l, n, m)
<1>1. NoItem \notin DOMAIN l.at
  BY ListAssumption DEF ListShape
<1>2. CASE n = NoItem
  BY <1>1, <1>2 DEF SetNext, NextSet
<1>3. CASE n # NoItem
  <2>1. n \in DOMAIN l.at /\ t = [l EXCEPT !.at = [l.at EXCEPT ![n] = [l.at[n] EXCEPT !.next = m]]]
    BY <1>3 DEF SetNext
  <2>2. t = [head |-> l.head, tail |-> l.tail, count |-> l.count,
             at |-> [l.at EXCEPT ![n] = [l.at[n] EXCEPT !.next = m]]]
    BY <2>1 DEF ListShape
  <2>3. l.at[n] = [prev |-> l.at[n].prev, next |-> l.at[n].next]
    BY <2>1 DEF ListShape
  <2>4. [l.at[n] EXCEPT !.next = m] = [prev |-> l.at[n].prev, next |-> m]
    BY <2>3
  <2> DEFINE f == [l.at EXCEPT ![n] = [prev |-> l.at[n].prev, next |-> m]]
  <2>5. t.head = l.head /\ t.tail = l.tail /\ t.count = l.count /\ t.at = f
        /\ t = [head |-> t.head, tail |-> t.tail, count |-> t.count, at |-> t.at]
    BY <2>2, <2>4
  <2>6. /\ DOMAIN f = DOMAIN l.at
        /\ \A x \in DOMAIN l.at : f[x] = IF x = n THEN [prev |-> l.at[n].prev, next |-> m] ELSE l.at[x]
        /\ f = [x \in DOMAIN l.at |-> f[x]]
    BY <2>1
  <2>7. \A x \in DOMAIN l.at : l.at[x] = [prev |-> l.at[x].prev, next |-> l.at[x].next]
    BY DEF ListShape
  <2> HIDE DEF f, t
  <2>8. \A x \in DOMAIN l.at : /\ f[x] = [prev |-> f[x].prev, next |-> f[x].next]
                               /\ f[x].prev = l.at[x].prev
                               /\ f[x].next = IF x = n THEN m ELSE l.at[x].next
    BY <2>6, <2>7
  <2>9. f = [x \in DOMAIN f |-> [prev |-> f[x].prev, next |-> f[x].next]]
    BY <2>6, <2>8
  <2>10. ListShape(t)
    BY <2>5, <2>6, <2>9 DEF ListShape
  <2>11. NextSet(l, t, n, m)
    BY <2>5, <2>6, <2>8, <2>10 DEF NextSet
  <2> QED
    BY <2>11 DEF t
<1> QED
  BY <1>2, <1>3

LEMMA SetPrevIs ==
  ASSUME NEW l, ListShape(l), NEW n, n = NoItem \/ n \in DOMAIN l.at, NEW m
  PROVE  PrevSet(l, SetPrev(l, n, m), n, m)
<1> DEFINE t == SetPrev(l, n, m)
<1>1. NoItem \notin DOMAIN l.at
  BY ListAssumption DEF ListShape
<1>2. CASE n = NoItem
  BY <1>1, <1>2 DEF SetPrev, PrevSet
<1>3. CASE n # NoItem
  <2>1. n \in DOMAIN l.at /\ t = [l EXCEPT !.at = [l.at EXCEPT ![n] = [l.at[n] EXCEPT !.prev = m]]]
    BY <1>3 DEF SetPrev
  <2>2. t = [head |-> l.head, tail |-> l.tail, count |-> l.count,
             at |-> [l.at EXCEPT ![n] = [l.at[n] EXCEPT !.prev = m]]]
    BY <2>1 DEF ListShape
  <2>3. l.at[n] = [prev |-> l.at[n].prev, next |-> l.at[n].next]
    BY <2>1 DEF ListShape
  <2>4. [l.at[n] EXCEPT !.prev = m] = [prev |-> m, next |-> l.at[n].next]
    BY <2>3
  <2> DEFINE f == [l.at EXCEPT ![n] = [prev |-> m, next |-> l.at[n].next]]
  <2>5. t.head = l.head /\ t.tail = l.tail /\ t.count = l.count /\ t.at = f
        /\ t = [head |-> t.head, tail |-> t.tail, count |-> t.count, at |-> t.at]
    BY <2>2, <2>4
  <2>6. /\ DOMAIN f = DOMAIN l.at
        /\ \A x \in DOMAIN l.at : f[x] = IF x = n THEN [prev |-> m, next |-> l.at[n].next] ELSE l.at[x]
        /\ f = [x \in DOMAIN l.at |-> f[x]]
    BY <2>1
  <2>7. \A x \in DOMAIN l.at : l.at[x] = [prev |-> l.at[x].prev, next |-> l.at[x].next]
    BY DEF ListShape
  <2> HIDE DEF f, t
  <2>8. \A x \in DOMAIN l.at : /\ f[x] = [prev |-> f[x].prev, next |-> f[x].next]
                               /\ f[x].next = l.at[x].next
                               /\ f[x].prev = IF x = n THEN m ELSE l.at[x].prev
    BY <2>6, <2>7
  <2>9. f = [x \in DOMAIN f |-> [prev |-> f[x].prev, next |-> f[x].next]]
    BY <2>6, <2>8
  <2>10. ListShape(t)
    BY <2>5, <2>6, <2>9 DEF ListShape
  <2>11. PrevSet(l, t, n, m)
    BY <2>5, <2>6, <2>8, <2>10 DEF PrevSet
  <2> QED
    BY <2>11 DEF t
<1> QED
  BY <1>2, <1>3

LEMMA PlaceIs ==
  ASSUME NEW l, ListShape(l), l.count \in Nat, NEW n \in Item, n \notin DOMAIN l.at, NEW p, NEW q
  PROVE  NodeAdded(l, Place(l, n, p, q), n, p, q)
<1> DEFINE t == Place(l, n, p, q)
           f == [m \in {n} \cup DOMAIN l.at |-> IF m = n THEN [prev |-> p, next |-> q] ELSE l.at[m]]
<1>1. t = [head |-> l.head, tail |-> l.tail, count |-> l.count + 1, at |-> f]
  <2>1. t = [l EXCEPT !.at = f, !.count = l.count + 1]
    BY DEF Place, ListShape
  <2>2. l = [head |-> l.head, tail |-> l.tail, count |-> l.count, at |-> l.at]
    BY DEF ListShape
  <2> HIDE DEF f, t
  <2> QED
    BY <2>1, <2>2
<1>2. t.head = l.head /\ t.tail = l.tail /\ t.count = l.count + 1 /\ t.at = f
  BY <1>1
<1>3. /\ DOMAIN f = {n} \cup DOMAIN l.at /\ f[n] = [prev |-> p, next |-> q]
      /\ \A x \in DOMAIN l.at : f[x] = l.at[x]
      /\ f = [x \in DOMAIN f |-> f[x]]
  OBVIOUS
<1>4. \A x \in DOMAIN l.at : l.at[x] = [prev |-> l.at[x].prev, next |-> l.at[x].next]
  BY DEF ListShape
<1>5. t = [head |-> t.head, tail |-> t.tail, count |-> t.count, at |-> t.at]
  BY <1>1
<1> HIDE DEF f, t
<1>6. \A x \in DOMAIN f : f[x] = [prev |-> f[x].prev, next |-> f[x].next]
  BY <1>3, <1>4
<1>7. f = [x \in DOMAIN f |-> [prev |-> f[x].prev, next |-> f[x].next]]
  BY <1>3, <1>6
<1>8. ListShape(t)
  BY <1>2, <1>3, <1>5, <1>7 DEF ListShape
<1>9. NodeAdded(l, t, n, p, q)
  BY <1>2, <1>3, <1>8 DEF NodeAdded
<1> QED
  BY <1>9 DEF t
---------------------------------------------------------------------------
(* A node between its new neighbours p and q, the rest as it was.          *)
LEMMA InsertKeeps ==
  ASSUME NEW l, NEW s, IsList(l, s), NEW n \in Item, n \notin DOMAIN l.at,
         NEW g \in 1 .. Len(s) + 1, NEW t, Inserted(s, t, g, n), NEW u, ListShape(u),
         NEW p, p = (IF g > 1 THEN s[g - 1] ELSE NoItem),
         NEW q, q = (IF g <= Len(s) THEN s[g] ELSE NoItem),
         DOMAIN u.at = {n} \cup DOMAIN l.at,
         \A x \in DOMAIN u.at :
           /\ u.at[x].next = IF x = p THEN n ELSE IF x = n THEN q ELSE l.at[x].next
           /\ u.at[x].prev = IF x = q THEN n ELSE IF x = n THEN p ELSE l.at[x].prev,
         u.head = IF g = 1 THEN n ELSE l.head,
         u.tail = IF g = Len(s) + 1 THEN n ELSE l.tail,
         u.count = l.count + 1
  PROVE  IsList(u, t)
<1>1. /\ Len(s) \in Nat /\ g \in Nat /\ g >= 1 /\ g <= Len(s) + 1
      /\ \A i \in 1 .. Len(s) : s[i] \in Item /\ s[i] \in DOMAIN l.at /\ s[i] # n /\ s[i] # NoItem
  BY ListAssumption DEF IsList
<1>2. /\ t \in Seq(Item) /\ Len(t) = Len(s) + 1 /\ t[g] = n
      /\ \A j \in 1 .. g - 1 : t[j] = s[j]
      /\ \A j \in g + 1 .. Len(s) + 1 : t[j] = s[j - 1]
  BY DEF Inserted
<1>3. \A i, j \in 1 .. Len(s) : s[i] = s[j] => i = j
  BY DEF IsList
<1>4. \A j \in 1 .. Len(s) + 1 :
        \/ j < g /\ j \in 1 .. Len(s) /\ t[j] = s[j]
        \/ j = g /\ t[j] = n
        \/ j > g /\ j - 1 \in 1 .. Len(s) /\ t[j] = s[j - 1]
  BY <1>1, <1>2
<1>5. \A i, j \in 1 .. Len(t) : t[i] = t[j] => i = j
  BY <1>1, <1>2, <1>3, <1>4
<1>6. ASSUME NEW m PROVE m \in DOMAIN u.at <=> \E i \in 1 .. Len(t) : t[i] = m
  <2>1. ASSUME m \in DOMAIN u.at PROVE \E i \in 1 .. Len(t) : t[i] = m
    <3>1. CASE m = n
      BY <1>1, <1>2, <3>1
    <3>2. CASE m # n
      <4>1. PICK i \in 1 .. Len(s) : s[i] = m
        BY <2>1, <3>2 DEF IsList
      <4>2. CASE i < g
        BY <1>1, <1>2, <4>1, <4>2
      <4>3. CASE i >= g
        <5>1. i + 1 \in g + 1 .. Len(s) + 1 /\ (i + 1) - 1 = i /\ i + 1 \in 1 .. Len(t)
          BY <1>1, <1>2, <4>3
        <5> QED
          BY <1>2, <4>1, <5>1
      <4> QED
        BY <1>1, <4>2, <4>3
    <3> QED
      BY <3>1, <3>2
  <2>2. ASSUME NEW i \in 1 .. Len(t) PROVE t[i] \in DOMAIN u.at
    BY <1>1, <1>2, <1>4
  <2> QED
    BY <2>1, <2>2
<1>7. ASSUME NEW i \in 1 .. Len(t)
      PROVE  u.at[t[i]].next = Succ(t, i) /\ u.at[t[i]].prev = Pred(t, i)
  <2> DEFINE x == t[i]
  <2>1. /\ x \in DOMAIN u.at
        /\ u.at[x].next = IF x = p THEN n ELSE IF x = n THEN q ELSE l.at[x].next
        /\ u.at[x].prev = IF x = q THEN n ELSE IF x = n THEN p ELSE l.at[x].prev
    BY <1>6, <1>7
  <2>2. CASE i = g
    <3>1. x = n /\ x # p /\ x # q
      <4>1. x = n /\ n # NoItem
        BY <1>2, <2>2, ListAssumption
      <4>2. n # p
        BY <1>1, <4>1
      <4>3. n # q
        BY <1>1, <4>1
      <4> QED
        BY <4>1, <4>2, <4>3
    <3>2. Succ(t, i) = q
      <4>1. CASE g <= Len(s)
        <5>1. g + 1 \in g + 1 .. Len(s) + 1 /\ (g + 1) - 1 = g /\ g < Len(t)
          BY <1>1, <1>2, <4>1
        <5>2. t[g + 1] = s[g]
          BY <1>2, <5>1
        <5> QED
          BY <2>2, <4>1, <5>1, <5>2 DEF Succ
      <4>2. CASE g = Len(s) + 1
        BY <1>1, <1>2, <2>2, <4>2 DEF Succ
      <4> QED
        BY <1>1, <4>1, <4>2
    <3>3. Pred(t, i) = p
      BY <1>1, <1>2, <2>2 DEF Pred
    <3> QED
      BY <2>1, <3>1, <3>2, <3>3
  <2>3. CASE i < g
    <3>1. i \in 1 .. Len(s) /\ x = s[i] /\ x # n
      BY <1>1, <1>2, <2>3
    <3>2. l.at[x].next = Succ(s, i) /\ l.at[x].prev = Pred(s, i)
      BY <3>1 DEF IsList
    <3>3. x # q
      BY <1>1, <1>3, <2>3, <3>1
    <3>4. Pred(t, i) = Pred(s, i)
      BY <1>1, <1>2, <2>3 DEF Pred
    <3>5. CASE i = g - 1
      <4>1. x = p /\ Succ(t, i) = n
        BY <1>1, <1>2, <3>1, <3>5 DEF Succ
      <4> QED
        BY <2>1, <3>1, <3>2, <3>3, <3>4, <4>1
    <3>6. CASE i < g - 1
      <4>1. x # p
        BY <1>1, <1>3, <3>1, <3>6
      <4>2. Succ(t, i) = Succ(s, i)
        BY <1>1, <1>2, <3>1, <3>6 DEF Succ
      <4> QED
        BY <2>1, <3>1, <3>2, <3>3, <3>4, <4>1, <4>2
    <3> QED
      BY <1>1, <2>3, <3>5, <3>6
  <2>4. CASE i > g
    <3> DEFINE k == i - 1
    <3>1. k \in 1 .. Len(s) /\ x = s[k] /\ x # n /\ k >= g /\ i = k + 1
      BY <1>1, <1>2, <2>4
    <3>2. l.at[x].next = Succ(s, k) /\ l.at[x].prev = Pred(s, k)
      BY <3>1 DEF IsList
    <3> HIDE DEF k, x
    <3>3. x # p
      BY <1>1, <1>3, <3>1
    <3>4. Succ(t, i) = Succ(s, k)
      <4>1. CASE k < Len(s)
        <5>1. k + 2 \in g + 1 .. Len(s) + 1 /\ (k + 2) - 1 = k + 1 /\ i + 1 = k + 2 /\ i < Len(t)
          BY <1>1, <1>2, <3>1, <4>1
        <5> QED
          BY <1>2, <3>1, <4>1, <5>1 DEF Succ
      <4>2. CASE k = Len(s)
        BY <1>1, <1>2, <3>1, <4>2 DEF Succ
      <4> QED
        BY <1>1, <3>1, <4>1, <4>2
    <3>5. CASE k = g
      <4>1. x = q /\ Pred(t, i) = n
        BY <1>1, <1>2, <3>1, <3>5 DEF Pred
      <4> QED
        BY <2>1, <3>1, <3>2, <3>3, <3>4, <4>1 DEF x
    <3>6. CASE k > g
      <4>1. x # q
        BY <1>1, <1>3, <3>1, <3>6
      <4>2. Pred(t, i) = Pred(s, k)
        <5>1. k \in g + 1 .. Len(s) + 1 /\ i > 1 /\ i - 1 = k /\ k > 1
          BY <1>1, <3>1, <3>6
        <5> QED
          BY <1>2, <3>6, <5>1 DEF Pred
      <4> QED
        BY <2>1, <3>1, <3>2, <3>3, <3>4, <4>1, <4>2 DEF x
    <3> QED
      BY <1>1, <3>1, <3>5, <3>6
  <2> QED
    BY <1>1, <1>2, <2>2, <2>3, <2>4
<1>8. u.head = First(t)
  <2>1. l.head = First(s)
    BY DEF IsList
  <2> QED
    BY <1>1, <1>2, <2>1 DEF First
<1>9. u.tail = Final(t)
  <2>1. l.tail = Final(s)
    BY DEF IsList
  <2>2. CASE g = Len(s) + 1
    BY <1>1, <1>2, <2>2 DEF Final
  <2>3. CASE g <= Len(s)
    <3>1. Len(s) + 1 \in g + 1 .. Len(s) + 1 /\ (Len(s) + 1) - 1 = Len(s) /\ Len(s) # 0
      BY <1>1, <2>3
    <3> QED
      BY <1>1, <1>2, <2>1, <2>3, <3>1 DEF Final
  <2> QED
    BY <1>1, <2>2, <2>3
<1>10. u.count = Len(t)
  BY <1>2 DEF IsList
<1> QED
  BY <1>2, <1>5, <1>6, <1>7, <1>8, <1>9, <1>10 DEF IsList

(* A node out of the list, its neighbours p and q linked to each other.    *)
LEMMA DeleteKeeps ==
  ASSUME NEW l, NEW s, IsList(l, s), NEW i \in 1 .. Len(s), NEW t, Removed(s, t, i), NEW u, ListShape(u),
         NEW n, n = s[i], NEW p, p = Pred(s, i), NEW q, q = Succ(s, i),
         DOMAIN u.at = (DOMAIN l.at) \ {n},
         \A x \in DOMAIN u.at :
           /\ u.at[x].next = IF x = p THEN q ELSE l.at[x].next
           /\ u.at[x].prev = IF x = q THEN p ELSE l.at[x].prev,
         u.head = IF l.head = n THEN q ELSE l.head,
         u.tail = IF l.tail = n THEN p ELSE l.tail,
         u.count = l.count - 1
  PROVE  IsList(u, t)
<1>1. /\ Len(s) \in Nat /\ i \in Nat /\ i >= 1 /\ i <= Len(s)
      /\ \A j \in 1 .. Len(s) : s[j] \in Item /\ s[j] \in DOMAIN l.at /\ s[j] # NoItem
      /\ \A j, k \in 1 .. Len(s) : s[k] = s[j] => k = j
  BY ListAssumption DEF IsList
<1>2. /\ t \in Seq(Item) /\ Len(t) = Len(s) - 1
      /\ \A j \in 1 .. i - 1 : t[j] = s[j]
      /\ \A j \in i .. Len(s) - 1 : t[j] = s[j + 1]
  BY DEF Removed
<1>3. \A j \in 1 .. Len(s) - 1 :
        \/ j < i /\ j \in 1 .. Len(s) /\ t[j] = s[j]
        \/ j >= i /\ j + 1 \in 1 .. Len(s) /\ t[j] = s[j + 1]
  BY <1>1, <1>2
<1>4. \A j, k \in 1 .. Len(t) : t[j] = t[k] => j = k
  BY <1>1, <1>2, <1>3
<1>5. ASSUME NEW m PROVE m \in DOMAIN u.at <=> \E j \in 1 .. Len(t) : t[j] = m
  <2>1. ASSUME m \in DOMAIN u.at PROVE \E j \in 1 .. Len(t) : t[j] = m
    <3>1. PICK j \in 1 .. Len(s) : s[j] = m /\ j # i
      BY <2>1 DEF IsList
    <3>2. CASE j < i
      BY <1>1, <1>2, <3>1, <3>2
    <3>3. CASE j > i
      <4>1. j - 1 \in i .. Len(s) - 1 /\ (j - 1) + 1 = j /\ j - 1 \in 1 .. Len(t)
        BY <1>1, <1>2, <3>3
      <4> QED
        BY <1>2, <3>1, <4>1
    <3> QED
      BY <1>1, <3>1, <3>2, <3>3
  <2>2. ASSUME NEW j \in 1 .. Len(t) PROVE t[j] \in DOMAIN u.at
    BY <1>1, <1>2, <1>3
  <2> QED
    BY <2>1, <2>2
<1>6. ASSUME NEW j \in 1 .. Len(t)
      PROVE  u.at[t[j]].next = Succ(t, j) /\ u.at[t[j]].prev = Pred(t, j)
  <2> DEFINE x == t[j]
  <2>1. /\ x \in DOMAIN u.at
        /\ u.at[x].next = IF x = p THEN q ELSE l.at[x].next
        /\ u.at[x].prev = IF x = q THEN p ELSE l.at[x].prev
    BY <1>5, <1>6
  <2>2. CASE j < i
    <3>1. j \in 1 .. Len(s) /\ x = s[j]
      BY <1>1, <1>2, <2>2
    <3>2. l.at[x].next = Succ(s, j) /\ l.at[x].prev = Pred(s, j)
      BY <3>1 DEF IsList
    <3> HIDE DEF x
    <3>3. x # q /\ Pred(t, j) = Pred(s, j)
      <4>1. x # q
        BY <1>1, <2>2, <3>1 DEF Succ
      <4>2. Pred(t, j) = Pred(s, j)
        BY <1>1, <1>2, <2>2 DEF Pred
      <4> QED
        BY <4>1, <4>2
    <3>4. CASE j = i - 1
      <4>1. x = p /\ Succ(t, j) = q
        <5>1. x = p
          BY <1>1, <3>1, <3>4 DEF Pred
        <5>2. Succ(t, j) = q
          <6>1. CASE i < Len(s)
            <7>1. j + 1 = i /\ j < Len(t) /\ i \in i .. Len(s) - 1
              BY <1>1, <1>2, <3>4, <6>1
            <7>2. t[i] = s[i + 1]
              BY <1>2, <7>1
            <7> QED
              BY <6>1, <7>1, <7>2 DEF Succ
          <6>2. CASE i = Len(s)
            BY <1>1, <1>2, <3>4, <6>2 DEF Succ
          <6> QED
            BY <1>1, <6>1, <6>2
        <5> QED
          BY <5>1, <5>2
      <4> QED
        BY <2>1, <3>2, <3>3, <4>1 DEF x
    <3>5. CASE j < i - 1
      <4>1. x # p /\ Succ(t, j) = Succ(s, j)
        BY <1>1, <1>2, <3>1, <3>5 DEF Succ, Pred
      <4> QED
        BY <2>1, <3>2, <3>3, <4>1 DEF x
    <3> QED
      BY <1>1, <2>2, <3>4, <3>5
  <2>3. CASE j >= i
    <3> DEFINE k == j + 1
    <3>1. k \in 1 .. Len(s) /\ x = s[k] /\ k > i /\ j = k - 1
      BY <1>1, <1>2, <2>3
    <3>2. l.at[x].next = Succ(s, k) /\ l.at[x].prev = Pred(s, k)
      BY <3>1 DEF IsList
    <3> HIDE DEF k, x
    <3>3. x # p
      BY <1>1, <3>1 DEF Pred
    <3>4. Succ(t, j) = Succ(s, k)
      <4>1. CASE k < Len(s)
        <5>1. k \in i .. Len(s) - 1 /\ j + 1 = k /\ j < Len(t)
          BY <1>1, <1>2, <3>1, <4>1
        <5> QED
          BY <1>2, <4>1, <5>1 DEF Succ
      <4>2. CASE k = Len(s)
        BY <1>1, <1>2, <3>1, <4>2 DEF Succ
      <4> QED
        BY <1>1, <3>1, <4>1, <4>2
    <3>5. CASE k = i + 1
      <4>1. x = q
        BY <1>1, <3>1, <3>5 DEF Succ
      <4>2. Pred(t, j) = p
        <5>1. j = i /\ i \in Nat
          BY <1>1, <3>1, <3>5
        <5>2. i > 1 => t[i - 1] = s[i - 1]
          BY <1>2, <5>1
        <5> QED BY <5>1, <5>2 DEF Pred
      <4> QED
        BY <2>1, <3>2, <3>3, <3>4, <4>1, <4>2 DEF x
    <3>6. CASE k > i + 1
      <4>1. x # q
        BY <1>1, <3>1, <3>6 DEF Succ
      <4>2. Pred(t, j) = Pred(s, k)
        <5>1. j - 1 \in i .. Len(s) - 1 /\ (j - 1) + 1 = k - 1 /\ j > 1 /\ k > 1
          BY <1>1, <3>1, <3>6
        <5> QED
          BY <1>2, <5>1 DEF Pred
      <4> QED
        BY <2>1, <3>2, <3>3, <3>4, <4>1, <4>2 DEF x
    <3> QED
      BY <1>1, <3>1, <3>5, <3>6
  <2> QED
    BY <1>1, <1>2, <2>2, <2>3
<1>7. u.head = First(t)
  <2>1. l.head = s[1]
    BY <1>1 DEF IsList, First
  <2>2. CASE i = 1
    BY <1>1, <1>2, <2>1, <2>2 DEF First, Succ
  <2>3. CASE i > 1
    BY <1>1, <1>2, <2>1, <2>3 DEF First
  <2> QED
    BY <1>1, <2>2, <2>3
<1>8. u.tail = Final(t)
  <2>1. l.tail = s[Len(s)]
    BY <1>1 DEF IsList, Final
  <2>2. CASE i = Len(s)
    BY <1>1, <1>2, <2>1, <2>2 DEF Final, Pred
  <2>3. CASE i < Len(s)
    <3>1. Len(s) - 1 \in i .. Len(s) - 1 /\ (Len(s) - 1) + 1 = Len(s) /\ Len(t) # 0
      BY <1>1, <1>2, <2>3
    <3> QED
      BY <1>1, <1>2, <2>1, <2>3, <3>1 DEF Final
  <2> QED
    BY <1>1, <2>2, <2>3
<1>9. u.count = Len(t)
  BY <1>2 DEF IsList
<1> QED
  BY <1>2, <1>4, <1>5, <1>6, <1>7, <1>8, <1>9 DEF IsList
---------------------------------------------------------------------------
(* What the sequence operators do, position by position.                   *)
LEMMA InsertAtIs ==
  ASSUME NEW s \in Seq(Item), NEW n \in Item, NEW g \in 1 .. Len(s) + 1
  PROVE  Inserted(s, InsertAt(s, g, n), g, n)
<1> DEFINE a == SubSeq(s, 1, g - 1)
           b == SubSeq(s, g, Len(s))
           c == a \o <<n>>
<1>1. Len(s) \in Nat /\ g \in Nat /\ g >= 1 /\ g <= Len(s) + 1
  OBVIOUS
<1>2. a \in Seq(Item) /\ Len(a) = g - 1 /\ \A i \in 1 .. g - 1 : a[i] = s[i]
  BY <1>1
<1>3. b \in Seq(Item) /\ Len(b) = Len(s) - g + 1 /\ \A i \in 1 .. Len(s) - g + 1 : b[i] = s[g + i - 1]
  BY <1>1
<1> HIDE DEF a, b
<1>4. c \in Seq(Item) /\ Len(c) = g /\ c[g] = n /\ \A i \in 1 .. g - 1 : c[i] = s[i]
  BY <1>1, <1>2
<1>5. InsertAt(s, g, n) = c \o b
  BY DEF InsertAt, a, b
<1> HIDE DEF c
<1>6. c \o b \in Seq(Item) /\ Len(c \o b) = Len(s) + 1
  BY <1>1, <1>3, <1>4
<1>7. \A i \in 1 .. g : (c \o b)[i] = c[i]
  BY <1>1, <1>3, <1>4
<1>8. \A i \in g + 1 .. Len(s) + 1 : (c \o b)[i] = s[i - 1]
  <2> TAKE i \in g + 1 .. Len(s) + 1
  <2>1. (c \o b)[i] = b[i - g]
    BY <1>1, <1>3, <1>4
  <2>2. i - g \in 1 .. Len(s) - g + 1 /\ g + (i - g) - 1 = i - 1
    BY <1>1
  <2> QED
    BY <1>3, <2>1, <2>2
<1> QED
  BY <1>1, <1>4, <1>5, <1>6, <1>7, <1>8 DEF Inserted

LEMMA RemoveAtIs ==
  ASSUME NEW s \in Seq(Item), NEW i \in 1 .. Len(s)
  PROVE  Removed(s, RemoveAt(s, i), i)
<1> DEFINE a == SubSeq(s, 1, i - 1)
           b == SubSeq(s, i + 1, Len(s))
<1>1. Len(s) \in Nat /\ i \in Nat /\ i >= 1 /\ i <= Len(s)
  OBVIOUS
<1>2. a \in Seq(Item) /\ Len(a) = i - 1 /\ \A j \in 1 .. i - 1 : a[j] = s[j]
  BY <1>1
<1>3. b \in Seq(Item) /\ Len(b) = Len(s) - i /\ \A j \in 1 .. Len(s) - i : b[j] = s[i + j]
  BY <1>1
<1>4. RemoveAt(s, i) = a \o b
  BY DEF RemoveAt
<1> HIDE DEF a, b
<1>5. a \o b \in Seq(Item) /\ Len(a \o b) = Len(s) - 1 /\ \A j \in 1 .. i - 1 : (a \o b)[j] = s[j]
  <2>1. a \o b \in Seq(Item) /\ Len(a \o b) = Len(a) + Len(b)
    BY <1>2, <1>3, ConcatProperties
  <2>2. \A j \in 1 .. Len(a) : (a \o b)[j] = a[j]
    BY <1>1, <1>2, <1>3
  <2> QED
    BY <1>1, <1>2, <1>3, <2>1, <2>2
<1>6. \A j \in i .. Len(s) - 1 : (a \o b)[j] = s[j + 1]
  <2> TAKE j \in i .. Len(s) - 1
  <2>1. (a \o b)[j] = b[j - (i - 1)]
    BY <1>1, <1>2, <1>3
  <2>2. j - (i - 1) \in 1 .. Len(s) - i /\ i + (j - (i - 1)) = j + 1
    BY <1>1
  <2> QED
    BY <1>3, <2>1, <2>2
<1> QED
  BY <1>4, <1>5, <1>6 DEF Removed

LEMMA EndsAre ==
  ASSUME NEW s \in Seq(Item), NEW n \in Item
  PROVE  /\ Inserted(s, <<n>> \o s, 1, n)
         /\ Inserted(s, Append(s, n), Len(s) + 1, n)
         /\ s # <<>> => Removed(s, Tail(s), 1) /\ Removed(s, Front(s), Len(s))
<1>1. Inserted(s, <<n>> \o s, 1, n)
  <2> DEFINE t == <<n>> \o s
  <2>1. t \in Seq(Item) /\ Len(t) = Len(s) + 1 /\ t[1] = n /\ Len(s) \in Nat
    OBVIOUS
  <2>2. \A j \in 2 .. Len(s) + 1 : t[j] = s[j - 1]
    OBVIOUS
  <2> HIDE DEF t
  <2>3. Inserted(s, t, 1, n)
    <3>1. 1 + 1 = 2 /\ 1 .. 1 - 1 = {}
      OBVIOUS
    <3> QED
      BY <2>1, <2>2, <3>1 DEF Inserted
  <2> QED
    BY <2>3 DEF t
<1>2. Inserted(s, Append(s, n), Len(s) + 1, n)
  <2> DEFINE t == Append(s, n)
  <2>1. t \in Seq(Item) /\ Len(t) = Len(s) + 1 /\ t[Len(s) + 1] = n /\ Len(s) \in Nat
        /\ \A j \in 1 .. Len(s) : t[j] = s[j]
    OBVIOUS
  <2> HIDE DEF t
  <2>2. Inserted(s, t, Len(s) + 1, n)
    BY <2>1 DEF Inserted
  <2> QED
    BY <2>2 DEF t
<1>3. ASSUME s # <<>> PROVE Removed(s, Tail(s), 1) /\ Removed(s, Front(s), Len(s))
  <2>1. Len(s) \in Nat /\ Len(s) >= 1
    BY <1>3
  <2>2. Removed(s, Tail(s), 1)
    <3>1. Tail(s) \in Seq(Item) /\ Len(Tail(s)) = Len(s) - 1 /\ \A j \in 1 .. Len(s) - 1 : Tail(s)[j] = s[j + 1]
      BY <1>3, <2>1
    <3> QED
      BY <3>1 DEF Removed
  <2>3. Removed(s, Front(s), Len(s))
    <3>1. /\ SubSeq(s, 1, Len(s) - 1) \in Seq(Item) /\ Len(SubSeq(s, 1, Len(s) - 1)) = Len(s) - 1
          /\ \A j \in 1 .. Len(s) - 1 : SubSeq(s, 1, Len(s) - 1)[j] = s[j]
      <4> DEFINE k == Len(s) - 1
      <4>1. k \in Nat /\ k <= Len(s)
        BY <2>1
      <4> HIDE DEF k
      <4>2. SubSeq(s, 1, k) \in Seq(Item) /\ Len(SubSeq(s, 1, k)) = k /\ \A j \in 1 .. k : SubSeq(s, 1, k)[j] = s[j]
        BY <2>1, <4>1
      <4> QED
        BY <4>2 DEF k
    <3> QED
      BY <2>1, <3>1 DEF Removed, Front
  <2> QED
    BY <2>2, <2>3
<1> QED
  BY <1>1, <1>2, <1>3
---------------------------------------------------------------------------
(* The four ways list.c changes links.                                     *)
LEMMA ListFacts ==
  ASSUME NEW l, NEW s, IsList(l, s)
  PROVE  /\ ListShape(l) /\ s \in Seq(Item) /\ Len(s) \in Nat /\ l.count = Len(s) /\ l.count \in Nat
         /\ \A i \in 1 .. Len(s) : s[i] \in Item /\ s[i] \in DOMAIN l.at /\ s[i] # NoItem
         /\ \A i \in 1 .. Len(s) : l.at[s[i]].next = Succ(s, i) /\ l.at[s[i]].prev = Pred(s, i)
         /\ l.head = First(s) /\ l.tail = Final(s)
         /\ \A i, j \in 1 .. Len(s) : s[i] = s[j] => i = j
BY ListAssumption DEF IsList

LEMMA InitialNode ==
  ASSUME NEW l, NEW s, IsList(l, s), Len(s) = 0, NEW n \in Item, n \notin DOMAIN l.at, NEW t, Inserted(s, t, 1, n)
  PROVE  IsList(list_initial_node(l, n), t)
<1> DEFINE v == Place(l, n, NoItem, NoItem)
           u == [v EXCEPT !.head = n, !.tail = n]
<1>1. ListShape(l) /\ l.count \in Nat /\ DOMAIN l.at = {}
  BY ListFacts DEF IsList
<1>2. /\ ListShape(v) /\ v.count = l.count + 1 /\ DOMAIN v.at = {n} \cup DOMAIN l.at
      /\ v.at[n].prev = NoItem /\ v.at[n].next = NoItem
  <2>1. NodeAdded(l, v, n, NoItem, NoItem)
    BY <1>1, PlaceIs
  <2> QED
    BY <2>1 DEF NodeAdded
<1> HIDE DEF v
<1>3. u = [head |-> n, tail |-> n, count |-> v.count, at |-> v.at]
  <2>1. v = [head |-> v.head, tail |-> v.tail, count |-> v.count, at |-> v.at]
    BY <1>2 DEF ListShape
  <2> DEFINE y == [v EXCEPT !.head = n]
  <2>2. y = [head |-> n, tail |-> v.tail, count |-> v.count, at |-> v.at]
    BY <2>1
  <2>3. u = [y EXCEPT !.tail = n]
    OBVIOUS
  <2> HIDE DEF y, u
  <2> QED
    BY <2>2, <2>3
<1>4. ListShape(u) /\ u.head = n /\ u.tail = n /\ u.count = l.count + 1 /\ u.at = v.at
  BY <1>2, <1>3 DEF ListShape
<1> HIDE DEF u
<1>5. \A x \in DOMAIN u.at :
        /\ u.at[x].next = IF x = NoItem THEN n ELSE IF x = n THEN NoItem ELSE l.at[x].next
        /\ u.at[x].prev = IF x = NoItem THEN n ELSE IF x = n THEN NoItem ELSE l.at[x].prev
  BY <1>1, <1>2, <1>4, ListAssumption
<1>6. IsList(u, t)
  BY <1>1, <1>2, <1>4, <1>5, InsertKeeps
<1> QED
  BY <1>6 DEF list_initial_node, u, v

LEMMA AppendNode ==
  ASSUME NEW l, NEW s, IsList(l, s), NEW i \in 1 .. Len(s), NEW n \in Item, n \notin DOMAIN l.at,
         NEW t, Inserted(s, t, i + 1, n)
  PROVE  IsList(list_node_append(l, s[i], n), t)
<1> DEFINE p == s[i]
           q == l.at[p].next
           v == Place(l, n, p, q)
           w == SetNext(v, p, n)
           z == SetPrev(w, q, n)
           u == IF l.tail = p THEN [z EXCEPT !.tail = n] ELSE z
<1>1. /\ ListShape(l) /\ l.count \in Nat /\ Len(s) \in Nat /\ p \in DOMAIN l.at /\ p # n /\ p \in Item
      /\ q = Succ(s, i) /\ q # n /\ (q = NoItem \/ q \in DOMAIN l.at)
  <2>1. /\ ListShape(l) /\ l.count \in Nat /\ Len(s) \in Nat /\ p \in DOMAIN l.at /\ p # n /\ p \in Item
        /\ q = Succ(s, i)
    BY ListFacts
  <2>2. CASE i < Len(s)
    <3>1. i + 1 \in 1 .. Len(s) /\ Succ(s, i) = s[i + 1]
      BY <2>1, <2>2 DEF Succ
    <3>2. s[i + 1] \in DOMAIN l.at
      BY <3>1, ListFacts
    <3> QED
      BY <2>1, <3>1, <3>2
  <2>3. CASE i = Len(s)
    <3>1. Succ(s, i) = NoItem
      BY <2>1, <2>3 DEF Succ
    <3> QED
      BY <2>1, <3>1, ListAssumption
  <2> QED
    BY <2>1, <2>2, <2>3
<1>2. l.tail = p <=> i = Len(s)
  <2>1. l.tail = Final(s) /\ \A j, k \in 1 .. Len(s) : s[j] = s[k] => j = k
    BY ListFacts
  <2> QED
    BY <1>1, <2>1 DEF Final
<1>3. NodeAdded(l, v, n, p, q)
  BY <1>1, PlaceIs
<1>4. list_node_append(l, p, n) = u
  BY <1>3 DEF list_node_append, NodeAdded
<1> HIDE DEF p, q
<1> HIDE DEF v
<1>5. NextSet(v, w, p, n)
  <2>1. ListShape(v) /\ p \in DOMAIN v.at
    BY <1>1, <1>3 DEF NodeAdded
  <2> QED
    BY <2>1, SetNextIs
<1> HIDE DEF w
<1>6. PrevSet(w, z, q, n)
  <2>1. ListShape(w) /\ (q = NoItem \/ q \in DOMAIN w.at)
    BY <1>1, <1>3, <1>5 DEF NodeAdded, NextSet
  <2> QED
    BY <2>1, SetPrevIs
<1> HIDE DEF z
<1>7. /\ ListShape(z) /\ z.head = l.head /\ z.tail = l.tail /\ z.count = l.count + 1
      /\ DOMAIN z.at = {n} \cup DOMAIN l.at
  BY <1>3, <1>5, <1>6 DEF NodeAdded, NextSet, PrevSet
<1>8. \A x \in DOMAIN z.at :
         /\ z.at[x].next = IF x = p THEN n ELSE IF x = n THEN q ELSE l.at[x].next
         /\ z.at[x].prev = IF x = q THEN n ELSE IF x = n THEN p ELSE l.at[x].prev
  BY <1>1, <1>3, <1>5, <1>6 DEF NodeAdded, NextSet, PrevSet
<1>9. /\ ListShape(u) /\ u.head = z.head /\ u.count = z.count /\ u.at = z.at
      /\ u.tail = IF i = Len(s) THEN n ELSE l.tail
  <2>1. CASE l.tail = p
    <3>1. u = [head |-> z.head, tail |-> n, count |-> z.count, at |-> z.at]
      BY <1>7, <2>1 DEF ListShape
    <3> HIDE DEF u
    <3> QED
      BY <1>2, <1>7, <2>1, <3>1 DEF ListShape
  <2>2. CASE l.tail # p
    BY <1>2, <1>7, <2>2
  <2> QED
    BY <2>1, <2>2
<1> HIDE DEF u
<1>10. DOMAIN u.at = {n} \cup DOMAIN l.at /\ u.count = l.count + 1 /\ u.head = l.head
  BY <1>7, <1>9
<1>11. \A x \in DOMAIN u.at :
        /\ u.at[x].next = IF x = p THEN n ELSE IF x = n THEN q ELSE l.at[x].next
        /\ u.at[x].prev = IF x = q THEN n ELSE IF x = n THEN p ELSE l.at[x].prev
  BY <1>9, <1>8
<1> DEFINE g == i + 1
<1>12. /\ g \in 1 .. Len(s) + 1 /\ Inserted(s, t, g, n)
       /\ p = (IF g > 1 THEN s[g - 1] ELSE NoItem)
       /\ q = (IF g <= Len(s) THEN s[g] ELSE NoItem)
       /\ u.head = IF g = 1 THEN n ELSE l.head
       /\ u.tail = IF g = Len(s) + 1 THEN n ELSE l.tail
  BY <1>1, <1>9, <1>10 DEF p, Succ
<1> HIDE DEF g
<1>13. IsList(u, t)
  BY <1>9, <1>10, <1>11, <1>12, InsertKeeps
<1> QED
  BY <1>13, <1>4 DEF p

LEMMA PrependNode ==
  ASSUME NEW l, NEW s, IsList(l, s), NEW i \in 1 .. Len(s), NEW n \in Item, n \notin DOMAIN l.at,
         NEW t, Inserted(s, t, i, n)
  PROVE  IsList(list_node_prepend(l, s[i], n), t)
<1> DEFINE q == s[i]
           p == l.at[q].prev
           v == Place(l, n, p, q)
           w == SetPrev(v, q, n)
           z == SetNext(w, p, n)
           u == IF l.head = q THEN [z EXCEPT !.head = n] ELSE z
<1>1. /\ ListShape(l) /\ l.count \in Nat /\ Len(s) \in Nat /\ q \in DOMAIN l.at /\ q # n /\ q \in Item
      /\ p = Pred(s, i) /\ p # n /\ (p = NoItem \/ p \in DOMAIN l.at)
  <2>1. /\ ListShape(l) /\ l.count \in Nat /\ Len(s) \in Nat /\ q \in DOMAIN l.at /\ q # n /\ q \in Item
        /\ p = Pred(s, i)
    BY ListFacts
  <2>2. CASE i > 1
    <3>1. i - 1 \in 1 .. Len(s) /\ Pred(s, i) = s[i - 1]
      BY <2>1, <2>2 DEF Pred
    <3>2. s[i - 1] \in DOMAIN l.at
      BY <3>1, ListFacts
    <3> QED
      BY <2>1, <3>1, <3>2
  <2>3. CASE i = 1
    <3>1. Pred(s, i) = NoItem
      BY <2>1, <2>3 DEF Pred
    <3> QED
      BY <2>1, <3>1, ListAssumption
  <2> QED
    BY <2>1, <2>2, <2>3
<1>2. l.head = q <=> i = 1
  <2>1. l.head = First(s) /\ \A j, k \in 1 .. Len(s) : s[j] = s[k] => j = k
    BY ListFacts
  <2> QED
    BY <1>1, <2>1 DEF First
<1>3. NodeAdded(l, v, n, p, q)
  BY <1>1, PlaceIs
<1>4. list_node_prepend(l, q, n) = u
  BY <1>3 DEF list_node_prepend, NodeAdded
<1> HIDE DEF p, q
<1> HIDE DEF v
<1>5. PrevSet(v, w, q, n)
  <2>1. ListShape(v) /\ q \in DOMAIN v.at
    BY <1>1, <1>3 DEF NodeAdded
  <2> QED
    BY <2>1, SetPrevIs
<1> HIDE DEF w
<1>6. NextSet(w, z, p, n)
  <2>1. ListShape(w) /\ (p = NoItem \/ p \in DOMAIN w.at)
    BY <1>1, <1>3, <1>5 DEF NodeAdded, PrevSet
  <2> QED
    BY <2>1, SetNextIs
<1> HIDE DEF z
<1>7. /\ ListShape(z) /\ z.head = l.head /\ z.tail = l.tail /\ z.count = l.count + 1
      /\ DOMAIN z.at = {n} \cup DOMAIN l.at
  BY <1>3, <1>5, <1>6 DEF NodeAdded, NextSet, PrevSet
<1>8. \A x \in DOMAIN z.at :
        /\ z.at[x].next = IF x = p THEN n ELSE IF x = n THEN q ELSE l.at[x].next
        /\ z.at[x].prev = IF x = q THEN n ELSE IF x = n THEN p ELSE l.at[x].prev
  BY <1>1, <1>3, <1>5, <1>6 DEF NodeAdded, NextSet, PrevSet
<1>9. /\ ListShape(u) /\ u.tail = z.tail /\ u.count = z.count /\ u.at = z.at
      /\ u.head = IF i = 1 THEN n ELSE l.head
  <2>1. CASE l.head = q
    <3>1. u = [head |-> n, tail |-> z.tail, count |-> z.count, at |-> z.at]
      BY <1>7, <2>1 DEF ListShape
    <3> HIDE DEF u
    <3> QED
      BY <1>2, <1>7, <2>1, <3>1 DEF ListShape
  <2>2. CASE l.head # q
    BY <1>2, <1>7, <2>2
  <2> QED
    BY <2>1, <2>2
<1> HIDE DEF u
<1>10. DOMAIN u.at = {n} \cup DOMAIN l.at /\ u.count = l.count + 1 /\ u.tail = l.tail
  BY <1>7, <1>9
<1>11. \A x \in DOMAIN u.at :
         /\ u.at[x].next = IF x = p THEN n ELSE IF x = n THEN q ELSE l.at[x].next
         /\ u.at[x].prev = IF x = q THEN n ELSE IF x = n THEN p ELSE l.at[x].prev
  BY <1>8, <1>9
<1>12. /\ i \in 1 .. Len(s) + 1
       /\ p = (IF i > 1 THEN s[i - 1] ELSE NoItem)
       /\ q = (IF i <= Len(s) THEN s[i] ELSE NoItem)
       /\ u.head = IF i = 1 THEN n ELSE l.head
       /\ u.tail = IF i = Len(s) + 1 THEN n ELSE l.tail
  BY <1>1, <1>9, <1>10 DEF q, Pred
<1>13. IsList(u, t)
  BY <1>9, <1>10, <1>11, <1>12, InsertKeeps
<1> QED
  BY <1>4, <1>13 DEF q

LEMMA DeleteNode ==
  ASSUME NEW l, NEW s, IsList(l, s), NEW i \in 1 .. Len(s), NEW t, Removed(s, t, i)
  PROVE  IsList(list_node_delete(l, s[i]), t)
<1> DEFINE n == s[i]
           q == l.at[n].next
           p == l.at[n].prev
           h == IF l.head = n THEN q ELSE l.head
           e == IF l.tail = n THEN p ELSE l.tail
           v == [l EXCEPT !.count = l.count - 1, !.head = h, !.tail = e]
           w == SetNext(v, p, q)
           z == SetPrev(w, q, p)
           u == [z EXCEPT !.at = [m \in (DOMAIN z.at) \ {n} |-> z.at[m]]]
<1>1. /\ ListShape(l) /\ l.count \in Nat /\ Len(s) \in Nat /\ n \in DOMAIN l.at
      /\ q = Succ(s, i) /\ p = Pred(s, i)
  BY ListFacts
<1>2. /\ q = NoItem \/ q \in DOMAIN l.at
      /\ p = NoItem \/ p \in DOMAIN l.at
  <2>1. \A j \in 1 .. Len(s) : s[j] \in DOMAIN l.at
    BY ListFacts
  <2>2. q = NoItem \/ q \in DOMAIN l.at
    BY <1>1, <2>1 DEF Succ
  <2>3. p = NoItem \/ p \in DOMAIN l.at
    BY <1>1, <2>1 DEF Pred
  <2> QED
    BY <2>2, <2>3
<1>3. l = [head |-> l.head, tail |-> l.tail, count |-> l.count, at |-> l.at]
  BY <1>1 DEF ListShape
<1>4. v = [head |-> h, tail |-> e, count |-> l.count - 1, at |-> l.at]
  <2> DEFINE y1 == [l EXCEPT !.count = l.count - 1]
             y2 == [y1 EXCEPT !.head = h]
  <2>1. v = [y2 EXCEPT !.tail = e]
    OBVIOUS
  <2> HIDE DEF h, e, v, q, p
  <2>2. y1 = [head |-> l.head, tail |-> l.tail, count |-> l.count - 1, at |-> l.at]
    BY <1>3
  <2> HIDE DEF y1
  <2>3. y2 = [head |-> h, tail |-> l.tail, count |-> l.count - 1, at |-> l.at]
    BY <2>2
  <2> HIDE DEF y2
  <2> QED
    BY <2>1, <2>3
<1>5. list_node_delete(l, n) = u
  <2>1. [l EXCEPT !.count = @ - 1, !.head = IF @ = n THEN q ELSE @, !.tail = IF @ = n THEN p ELSE @] = v
    BY <1>3
  <2> QED
    BY <2>1 DEF list_node_delete
<1> HIDE DEF p, q, h, e, n
<1>6. ListShape(v) /\ v.head = h /\ v.tail = e /\ v.count = l.count - 1 /\ v.at = l.at
  <2> HIDE DEF v
  <2> QED
    BY <1>1, <1>4 DEF ListShape
<1> HIDE DEF v
<1>7. NextSet(v, w, p, q)
  BY <1>2, <1>6, SetNextIs
<1> HIDE DEF w
<1>8. PrevSet(w, z, q, p)
  <2>1. ListShape(w) /\ (q = NoItem \/ q \in DOMAIN w.at)
    BY <1>2, <1>6, <1>7 DEF NextSet
  <2> QED
    BY <2>1, SetPrevIs
<1> HIDE DEF z
<1>9. /\ ListShape(z) /\ z.head = h /\ z.tail = e /\ z.count = l.count - 1 /\ DOMAIN z.at = DOMAIN l.at
      /\ \A x \in DOMAIN z.at : /\ z.at[x].next = IF x = p THEN q ELSE l.at[x].next
                                /\ z.at[x].prev = IF x = q THEN p ELSE l.at[x].prev
  BY <1>6, <1>7, <1>8 DEF NextSet, PrevSet
<1> DEFINE f == [m \in (DOMAIN z.at) \ {n} |-> z.at[m]]
<1>10. u = [head |-> z.head, tail |-> z.tail, count |-> z.count, at |-> f]
  <2>1. z = [head |-> z.head, tail |-> z.tail, count |-> z.count, at |-> z.at]
    BY <1>9 DEF ListShape
  <2>2. u = [z EXCEPT !.at = f]
    OBVIOUS
  <2> HIDE DEF f, u
  <2> QED
    BY <2>1, <2>2
<1>11. DOMAIN f = (DOMAIN l.at) \ {n} /\ \A x \in DOMAIN f : f[x] = z.at[x] /\ x \in DOMAIN z.at
  BY <1>9
<1>12. f = [x \in DOMAIN f |-> [prev |-> f[x].prev, next |-> f[x].next]] /\ DOMAIN f \subseteq Item
  <2>1. \A x \in DOMAIN z.at : z.at[x] = [prev |-> z.at[x].prev, next |-> z.at[x].next]
    BY <1>9 DEF ListShape
  <2>2. \A x \in DOMAIN f : f[x] = [prev |-> f[x].prev, next |-> f[x].next]
    BY <1>11, <2>1
  <2>3. f = [x \in DOMAIN f |-> f[x]]
    OBVIOUS
  <2>4. DOMAIN f \subseteq Item
    BY <1>1, <1>11 DEF ListShape
  <2> HIDE DEF f
  <2> QED
    BY <2>2, <2>3, <2>4
<1> HIDE DEF f, u
<1>13. ListShape(u) /\ u.head = h /\ u.tail = e /\ u.count = l.count - 1 /\ u.at = f
  BY <1>9, <1>10, <1>12 DEF ListShape
<1>14. /\ DOMAIN u.at = (DOMAIN l.at) \ {n}
       /\ \A x \in DOMAIN u.at : /\ u.at[x].next = IF x = p THEN q ELSE l.at[x].next
                                 /\ u.at[x].prev = IF x = q THEN p ELSE l.at[x].prev
  BY <1>9, <1>11, <1>13
<1>15. u.head = (IF l.head = n THEN q ELSE l.head) /\ u.tail = (IF l.tail = n THEN p ELSE l.tail)
  BY <1>13 DEF h, e
<1>16. IsList(u, t)
  BY <1>1, <1>13, <1>14, <1>15, DeleteKeeps DEF n
<1> QED
  BY <1>5, <1>16 DEF n
---------------------------------------------------------------------------
LEMMA StepIsList ==
  ASSUME IsList(list, items), [ListNext]_listVars
  PROVE  IsList(list, items)'
<1>1. /\ ListShape(list) /\ items \in Seq(Item) /\ Len(items) \in Nat
      /\ \A i \in 1 .. Len(items) : items[i] # NoItem
      /\ list.head = First(items) /\ list.tail = Final(items)
  BY ListFacts
<1>2. /\ Len(items) = 0 <=> items = <<>>
      /\ Len(items) = 0 <=> list.head = NoItem
      /\ Len(items) = 0 <=> list.tail = NoItem
      /\ Len(items) # 0 => /\ list.head = items[1] /\ list.tail = items[Len(items)]
                           /\ 1 \in 1 .. Len(items) /\ Len(items) \in 1 .. Len(items)
      /\ DOMAIN items = 1 .. Len(items)
  <2>1. (Len(items) = 0 <=> items = <<>>) /\ DOMAIN items = 1 .. Len(items)
    BY <1>1
  <2>2. CASE Len(items) = 0
    BY <1>1, <2>1, <2>2 DEF First, Final
  <2>3. CASE Len(items) # 0
    <3>1. 1 \in 1 .. Len(items) /\ Len(items) \in 1 .. Len(items)
      BY <1>1, <2>3
    <3> QED
      BY <1>1, <2>1, <2>3, <3>1 DEF First, Final
  <2> QED
    BY <2>2, <2>3
<1>3. CASE UNCHANGED listVars
  BY <1>3 DEF listVars, IsList
<1>4. ASSUME NEW n \in Item, n \notin DOMAIN list.at, PushFront(n) PROVE IsList(list, items)'
  <2>1. Inserted(items, items', 1, n)
    BY <1>1, <1>4, EndsAre DEF PushFront
  <2>2. CASE Len(items) = 0
    <3>1. list' = list_initial_node(list, n)
      BY <1>2, <1>4, <2>2 DEF PushFront, list_push_front
    <3>2. IsList(list_initial_node(list, n), items')
      BY <1>4, <2>1, <2>2, InitialNode
    <3> QED
      BY <3>1, <3>2
  <2>3. CASE Len(items) # 0
    <3>1. list' = list_node_prepend(list, items[1], n)
      BY <1>2, <1>4, <2>3 DEF PushFront, list_push_front
    <3>2. IsList(list_node_prepend(list, items[1], n), items')
      BY <1>2, <1>4, <2>1, <2>3, PrependNode
    <3> QED
      BY <3>1, <3>2
  <2> QED
    BY <2>2, <2>3
<1>5. ASSUME NEW n \in Item, n \notin DOMAIN list.at, PushBack(n) PROVE IsList(list, items)'
  <2>1. Inserted(items, items', Len(items) + 1, n)
    BY <1>1, <1>5, EndsAre DEF PushBack
  <2>2. CASE Len(items) = 0
    <3>1. list' = list_initial_node(list, n)
      BY <1>2, <1>5, <2>2 DEF PushBack, list_push_back
    <3>2. Inserted(items, items', 1, n)
      BY <2>1, <2>2
    <3>3. IsList(list_initial_node(list, n), items')
      BY <1>5, <2>2, <3>2, InitialNode
    <3> QED
      BY <3>1, <3>3
  <2>3. CASE Len(items) # 0
    <3>1. list' = list_node_append(list, items[Len(items)], n)
      BY <1>2, <1>5, <2>3 DEF PushBack, list_push_back
    <3>2. IsList(list_node_append(list, items[Len(items)], n), items')
      BY <1>2, <1>5, <2>1, <2>3, AppendNode
    <3> QED
      BY <3>1, <3>2
  <2> QED
    BY <2>2, <2>3
<1>6. ASSUME NEW n \in Item, n \notin DOMAIN list.at, NEW i \in 1 .. Len(items), AppendAt(i, n)
      PROVE  IsList(list, items)'
  <2>1. list' = list_node_append(list, items[i], n) /\ items' = InsertAt(items, i + 1, n)
    BY <1>6 DEF AppendAt
  <2>2. i + 1 \in 1 .. Len(items) + 1
    BY <1>1
  <2>3. Inserted(items, items', i + 1, n)
    BY <1>1, <2>1, <2>2, InsertAtIs
  <2> QED
    BY <1>6, <2>1, <2>3, AppendNode
<1>7. ASSUME NEW n \in Item, n \notin DOMAIN list.at, NEW i \in 1 .. Len(items), PrependAt(i, n)
      PROVE  IsList(list, items)'
  <2>1. list' = list_node_prepend(list, items[i], n) /\ items' = InsertAt(items, i, n)
    BY <1>7 DEF PrependAt
  <2>2. i \in 1 .. Len(items) + 1
    BY <1>1
  <2>3. Inserted(items, items', i, n)
    BY <1>1, <2>1, <2>2, InsertAtIs
  <2> QED
    BY <1>7, <2>1, <2>3, PrependNode
<1>8. ASSUME NEW i \in 1 .. Len(items), DeleteAt(i) PROVE IsList(list, items)'
  <2>1. list' = list_node_delete(list, items[i]) /\ items' = RemoveAt(items, i)
    BY <1>8 DEF DeleteAt
  <2>2. Removed(items, items', i)
    BY <1>1, <2>1, RemoveAtIs
  <2> QED
    BY <2>1, <2>2, DeleteNode
<1>9. CASE PopFront
  <2>1. CASE Len(items) = 0
    BY <1>2, <1>9, <2>1 DEF PopFront, list_pop_front
  <2>2. CASE Len(items) # 0
    <3>1. list' = list_node_delete(list, items[1]) /\ items' = Tail(items)
      BY <1>2, <1>9, <2>2 DEF PopFront, list_pop_front
    <3>2. Removed(items, items', 1)
      <4>1. items[1] \in Item /\ items # <<>>
        BY <1>1, <2>2
      <4>2. Removed(items, Tail(items), 1)
        BY <1>1, <4>1, EndsAre, Zenon
      <4> QED
        BY <3>1, <4>2, Zenon
    <3> QED
      BY <1>2, <2>2, <3>1, <3>2, DeleteNode
  <2> QED
    BY <2>1, <2>2
<1>10. CASE PopBack
  <2>1. CASE Len(items) = 0
    BY <1>2, <1>10, <2>1 DEF PopBack, list_pop_back
  <2>2. CASE Len(items) # 0
    <3>1. list' = list_node_delete(list, items[Len(items)]) /\ items' = Front(items)
      BY <1>2, <1>10, <2>2 DEF PopBack, list_pop_back
    <3>2. Removed(items, items', Len(items))
      <4>1. items[1] \in Item /\ items # <<>>
        BY <1>1, <2>2
      <4>2. Removed(items, Front(items), Len(items))
        BY <1>1, <4>1, EndsAre, Zenon
      <4> QED
        BY <3>1, <4>2, Zenon
    <3> QED
      BY <1>2, <2>2, <3>1, <3>2, DeleteNode
  <2> QED
    BY <2>1, <2>2
<1> QED
  BY <1>2, <1>3, <1>4, <1>5, <1>6, <1>7, <1>8, <1>9, <1>10 DEF ListNext
---------------------------------------------------------------------------
(* The least counterexample stands in for induction.                       *)
LEMMA LeastExists ==
  ASSUME NEW S, S \subseteq Nat, S # {}
  PROVE  \E v \in S : \A u \in S : v <= u
<1> DEFINE R == OpToRel(<, Nat)
<1>1. IsWellFoundedOn(R, Nat)
  BY NatLessThanWellFounded
<1>2. \A x, y \in Nat : x < y => <<x, y>> \in R
  BY DEF OpToRel
<1> HIDE DEF R
<1>3. PICK x \in S : \A y \in S : ~ (<<y, x>> \in R)
  BY <1>1, WFMin
<1>4. \A u \in S : x <= u
  <2> TAKE u \in S
  <2>1. x \in Nat /\ u \in Nat /\ ~(u < x)
    BY <1>2, <1>3
  <2> QED
    BY <2>1
<1> QED
  BY <1>4

(* Links that lead from each node of s to its successor make LIST_ITERATE  *)
(* go over s: the walk is defined by recursion, so what it visits is shown *)
(* to satisfy the equation, and any solution of the equation to agree.     *)
LEMMA WalkReads ==
  ASSUME NEW s \in Seq(Item), NEW follow, \A i \in 1 .. Len(s) : follow[s[i]] = Succ(s, i)
  PROVE  Reads(Walk(First(s), follow), s)
<1> DEFINE N == Cardinality(Item)
           Step(f, k) == IF k = 0 THEN First(s) ELSE IF f[k - 1] = NoItem THEN NoItem ELSE follow[f[k - 1]]
           IsWalk(f) == f = [k \in 0 .. N |-> Step(f, k)]
           E(k) == IF k < Len(s) THEN s[k + 1] ELSE NoItem
           e == [k \in 0 .. N |-> E(k)]
<1>1. Len(s) \in Nat /\ N \in Nat /\ \A i \in 1 .. Len(s) : s[i] # NoItem
  BY ListAssumption, FS_CardinalityType
<1>2. \A k \in 0 .. N : k # 0 => E(k) = IF E(k - 1) = NoItem THEN NoItem ELSE follow[E(k - 1)]
  <2> SUFFICES ASSUME NEW k \in 1 .. N
               PROVE  E(k) = IF E(k - 1) = NoItem THEN NoItem ELSE follow[E(k - 1)]
    BY <1>1
  <2>1. CASE k <= Len(s)
    <3>1. k \in 1 .. Len(s) /\ E(k - 1) = s[k] /\ s[k] # NoItem
      BY <1>1, <2>1
    <3>2. follow[s[k]] = E(k)
      BY <3>1 DEF Succ
    <3> QED
      BY <3>1, <3>2
  <2>2. CASE k > Len(s)
    BY <1>1, <2>2
  <2> QED
    BY <1>1, <2>1, <2>2
<1>3. E(0) = First(s)
  BY <1>1 DEF First
<1>4. \A k \in 0 .. N : e[k] = E(k)
  OBVIOUS
<1>5. IsWalk(e)
  <2>1. \A k \in 0 .. N : e[k] = Step(e, k)
    BY <1>1, <1>2, <1>3, <1>4
  <2> QED
    BY <2>1
<1>6. Walk(First(s), follow) = CHOOSE f : IsWalk(f)
  BY DEF Walk
<1> DEFINE W == Walk(First(s), follow)
<1> HIDE DEF e, Step
<1>7. IsWalk(W)
  <2>1. IsWalk(CHOOSE f : IsWalk(f))
    BY <1>5, Zenon
  <2> QED
    BY <1>6, <2>1, Zenon
<1> USE DEF Step
<1>8. \A k \in 0 .. N : W[k] = Step(W, k)
  BY <1>7
<1> HIDE DEF W, e
<1>9. \A k \in 0 .. N : W[k] = E(k)
  <2> DEFINE B == {k \in 0 .. N : W[k] # E(k)}
  <2> SUFFICES ASSUME B # {} PROVE FALSE
    OBVIOUS
  <2>1. PICK k \in B : \A j \in B : k <= j
    <3>1. B \subseteq Nat
      BY <1>1
    <3> HIDE DEF B
    <3> QED
      BY <3>1, LeastExists
  <2>2. k \in 0 .. N /\ W[k] # E(k) /\ \A j \in 0 .. N : j < k => W[j] = E(j)
    BY <1>1, <2>1
  <2>3. CASE k = 0
    BY <1>1, <1>3, <1>8, <2>2, <2>3
  <2>4. CASE k # 0
    <3>1. k - 1 \in 0 .. N /\ W[k - 1] = E(k - 1)
      BY <1>1, <2>2, <2>4
    <3> HIDE DEF E
    <3> QED
      BY <1>2, <1>8, <2>2, <2>4, <3>1
  <2> QED
    BY <2>3, <2>4
<1> QED
  BY <1>9 DEF Reads, W

LEMMA ListReads ==
  ASSUME NEW l, NEW s, IsList(l, s)
  PROVE  /\ Reads(Walk(l.head, [n \in DOMAIN l.at |-> l.at[n].next]), s)
         /\ Reads(Walk(l.tail, [n \in DOMAIN l.at |-> l.at[n].prev]), Reverse(s))
<1> DEFINE next == [n \in DOMAIN l.at |-> l.at[n].next]
           prev == [n \in DOMAIN l.at |-> l.at[n].prev]
           r == Reverse(s)
<1>1. /\ s \in Seq(Item) /\ Len(s) \in Nat /\ l.head = First(s) /\ l.tail = Final(s)
      /\ \A i \in 1 .. Len(s) : s[i] \in Item /\ s[i] \in DOMAIN l.at
      /\ \A i \in 1 .. Len(s) : l.at[s[i]].next = Succ(s, i) /\ l.at[s[i]].prev = Pred(s, i)
  BY ListFacts
<1>2. /\ \A i \in 1 .. Len(s) : next[s[i]] = Succ(s, i)
      /\ \A i \in 1 .. Len(s) : prev[s[i]] = Pred(s, i)
  BY <1>1
<1>3. r = [i \in 1 .. Len(s) |-> s[(Len(s) - i) + 1]]
  BY DEF Reverse
<1> HIDE DEF next, prev, r
<1>4. r \in Seq(Item) /\ Len(r) = Len(s) /\ \A i \in 1 .. Len(s) : r[i] = s[(Len(s) - i) + 1]
  <2>1. \A i \in 1 .. Len(s) : s[(Len(s) - i) + 1] \in Item
    BY <1>1
  <2> QED
    BY <1>1, <1>3, <2>1
<1>5. \A i \in 1 .. Len(r) : prev[r[i]] = Succ(r, i)
  <2> TAKE i \in 1 .. Len(r)
  <2> DEFINE k == (Len(s) - i) + 1
  <2>1. k \in 1 .. Len(s) /\ r[i] = s[k] /\ (i < Len(r) <=> k > 1) /\ i \in 1 .. Len(s)
    BY <1>1, <1>4
  <2>2. i < Len(r) => r[i + 1] = s[k - 1]
    <3> SUFFICES ASSUME i < Len(r) PROVE r[i + 1] = s[k - 1]
      OBVIOUS
    <3>1. i + 1 \in 1 .. Len(s) /\ (Len(s) - (i + 1)) + 1 = k - 1
      BY <1>1, <1>4
    <3> QED
      BY <1>4, <3>1
  <2> HIDE DEF k
  <2> QED
    BY <1>2, <2>1, <2>2 DEF Succ, Pred
<1>6. l.tail = First(r)
  <2>1. CASE Len(s) = 0
    BY <1>1, <1>4, <2>1 DEF First, Final
  <2>2. CASE Len(s) # 0
    <3>1. 1 \in 1 .. Len(s) /\ (Len(s) - 1) + 1 = Len(s)
      BY <1>1, <2>2
    <3> QED
      BY <1>1, <1>4, <2>2, <3>1 DEF First, Final
  <2> QED
    BY <2>1, <2>2
<1>7. Reads(Walk(l.head, next), s)
  BY <1>1, <1>2, WalkReads
<1>8. Reads(Walk(l.tail, prev), r)
  BY <1>4, <1>5, <1>6, WalkReads
<1> QED
  BY <1>7, <1>8 DEF next, prev, r

(* However nodes are pushed, inserted, popped and deleted, a list_t read   *)
(* from head along next is the sequence it stands for, read from tail      *)
(* along prev it is the reverse, and count is its length (list.c).         *)
THEOREM ListStaysSequence == ListSpec => []ListIsSequence
<1>1. ListInit => IsList(list, items)
  <2> SUFFICES ASSUME ListInit PROVE IsList(list, items)
    OBVIOUS
  <2>1. items = <<>> /\ list = [head |-> NoItem, tail |-> NoItem, count |-> 0, at |-> [n \in {} |-> NoItem]]
    BY DEF ListInit, EmptyList
  <2>2. list.head = NoItem /\ list.tail = NoItem /\ list.count = 0 /\ DOMAIN list.at = {} /\ list.at = [n \in {} |-> NoItem]
    BY <2>1
  <2>3. items \in Seq(Item) /\ Len(items) = 0
    BY <2>1
  <2>4. ListShape(list)
    <3>1. list.at = [n \in DOMAIN list.at |-> [prev |-> list.at[n].prev, next |-> list.at[n].next]]
      BY <2>2
    <3> QED
      BY <2>1, <2>2, <3>1 DEF ListShape
  <2> QED
    BY <2>2, <2>3, <2>4 DEF IsList, First, Final
<1>2. IsList(list, items) /\ [ListNext]_listVars => IsList(list, items)'
  BY StepIsList
<1>3. IsList(list, items) => ListIsSequence
  BY ListReads DEF ListIsSequence, IsList
<1> QED
  BY <1>1, <1>2, <1>3, PTL DEF ListSpec
---------------------------------------------------------------------------
(***************************************************************************)
(* event_queue and events_process never leave an event without a timer,    *)
(* for all delays, tick lengths, frequencies, counter widths and limits.   *)
(*                                                                         *)
(* The inductive invariant adds what the tree of events provides: it is    *)
(* sorted by deadline, so the event that event_queue compares with is the  *)
(* earliest, and no request is in it twice.                                *)
(***************************************************************************)
Event == [req : Req, due : Nat]

EventTypeOK ==
  /\ events \in Seq(Event) /\ free_events \in Nat /\ dw_items \subseteq Req
  /\ timer \in Int /\ (timer = OFF \/ timer >= 1)
  /\ pending \in BOOLEAN /\ handling \in BOOLEAN

SortedEvents ==
  \A i, j \in 1 .. Len(events) : i <= j => events[i].due <= events[j].due

DistinctEvents ==
  \A i, j \in 1 .. Len(events) : events[i].req = events[j].req => i = j

EInv == EventTypeOK /\ SortedEvents /\ DistinctEvents /\ EventsKept
---------------------------------------------------------------------------
LEMMA MaxOfTwo ==
  ASSUME NEW a \in Nat, NEW b \in Nat
  PROVE  Max({a, b}) = IF a >= b THEN a ELSE b
<1>1. PICK m \in {a, b} : m = (IF a >= b THEN a ELSE b)
  OBVIOUS
<1>2. m \in {a, b} /\ \A y \in {a, b} : m >= y
  BY <1>1
<1>3. Max({a, b}) \in {a, b} /\ \A y \in {a, b} : Max({a, b}) >= y
  BY <1>2 DEF Max
<1> QED
  BY <1>1, <1>3

(* The count the timer gets is positive and never runs past the delay, but *)
(* for the one tick a shorter delay is given: neither the wrap of the      *)
(* product nor the clamp of the quotient makes it longer.                  *)
LEMMA TicksBound ==
  ASSUME NEW delay \in Nat
  PROVE  /\ Ticks(delay) * TICK \in Nat /\ Ticks(delay) * TICK >= 1
         /\ Ticks(delay) * TICK <= delay \/ Ticks(delay) * TICK = TICK
<1> USE EventAssumption
<1> DEFINE p == delay * FREQUENCY
           u == TICK * FREQUENCY
           x == p % WIDTH
           t == x \div u
<1>1. p \in Nat /\ u \in Nat /\ u > 0
  OBVIOUS
<1>2. x \in Nat /\ x <= p
  <2> HIDE DEF p
  <2> QED
    BY <1>1
<1>3. t \in Nat /\ t * u <= x
  <2> HIDE DEF x, u
  <2> QED
    BY <1>1, <1>2
<1>4. t * TICK <= delay
  <2>1. t * TICK \in Nat /\ (t * TICK) * FREQUENCY = t * u
    BY <1>3
  <2>2. (t * TICK) * FREQUENCY <= delay * FREQUENCY
    <3>1. t * u <= p
      <4> HIDE DEF t, u, x, p
      <4>1. t * u \in Int
        BY <1>1, <1>3
      <4> QED
        BY <1>1, <1>2, <1>3, <4>1
    <3> QED
      BY <2>1, <3>1
  <2> DEFINE a == t * TICK
  <2>3. a \in Nat /\ a * FREQUENCY <= delay * FREQUENCY
    BY <2>1, <2>2
  <2> HIDE DEF a
  <2>4. a <= delay
    <3> SUFFICES ASSUME a >= delay + 1 PROVE FALSE
      BY <2>3
    <3>1. a * FREQUENCY >= (delay + 1) * FREQUENCY
      BY <2>3
    <3>2. (delay + 1) * FREQUENCY = delay * FREQUENCY + FREQUENCY
      OBVIOUS
    <3> QED
      BY <2>3, <3>1, <3>2
  <2> QED
    BY <2>4 DEF a
<1>5. Ticks(delay) = IF t < 1 THEN 1 ELSE IF t > MAX_TICKS THEN MAX_TICKS ELSE t
  BY DEF Ticks
<1> HIDE DEF t
<1>6. CASE t < 1
  BY <1>5, <1>6
<1>7. CASE t > MAX_TICKS
  <2>1. Ticks(delay) = MAX_TICKS
    BY <1>3, <1>5, <1>7
  <2>2. MAX_TICKS * TICK <= t * TICK /\ MAX_TICKS * TICK \in Nat /\ MAX_TICKS * TICK >= 1
    BY <1>3, <1>7
  <2>3. t * TICK \in Int
    BY <1>3
  <2> QED
    BY <1>4, <2>1, <2>2, <2>3
<1>8. CASE t >= 1 /\ t <= MAX_TICKS
  BY <1>3, <1>4, <1>5, <1>8
<1> QED
  BY <1>3, <1>6, <1>7, <1>8

LEMMA Insertion ==
  ASSUME NEW S, NEW s \in Seq(S), NEW e \in S, NEW k \in 1 .. Len(s) + 1
  PROVE  /\ InsertAt(s, k, e) \in Seq(S) /\ Len(InsertAt(s, k, e)) = Len(s) + 1
         /\ \A i \in 1 .. k - 1 : InsertAt(s, k, e)[i] = s[i]
         /\ InsertAt(s, k, e)[k] = e
         /\ \A i \in k + 1 .. Len(s) + 1 : InsertAt(s, k, e)[i] = s[i - 1]
<1> DEFINE a == SubSeq(s, 1, k - 1)
           b == SubSeq(s, k, Len(s))
           c == a \o <<e>>
<1>1. Len(s) \in Nat /\ k \in Nat /\ k >= 1 /\ k <= Len(s) + 1
  OBVIOUS
<1>2. a \in Seq(S) /\ Len(a) = k - 1 /\ \A i \in 1 .. k - 1 : a[i] = s[i]
  BY <1>1
<1>3. b \in Seq(S) /\ Len(b) = Len(s) - k + 1 /\ \A i \in 1 .. Len(s) - k + 1 : b[i] = s[k + i - 1]
  BY <1>1
<1> HIDE DEF a, b
<1>4. c \in Seq(S) /\ Len(c) = k /\ c[k] = e /\ \A i \in 1 .. k - 1 : c[i] = s[i]
  BY <1>1, <1>2
<1>5. InsertAt(s, k, e) = c \o b
  BY DEF InsertAt, a, b
<1> HIDE DEF c
<1>6. c \o b \in Seq(S) /\ Len(c \o b) = Len(s) + 1
  BY <1>1, <1>3, <1>4
<1>7. \A i \in 1 .. k : (c \o b)[i] = c[i]
  BY <1>1, <1>3, <1>4
<1>8. \A i \in k + 1 .. Len(s) + 1 : (c \o b)[i] = s[i - 1]
  <2> TAKE i \in k + 1 .. Len(s) + 1
  <2>1. (c \o b)[i] = b[i - k]
    BY <1>1, <1>3, <1>4
  <2>2. i - k \in 1 .. Len(s) - k + 1 /\ k + (i - k) - 1 = i - 1
    BY <1>1
  <2> QED
    BY <1>3, <2>1, <2>2
<1> QED
  BY <1>1, <1>4, <1>5, <1>6, <1>7, <1>8

LEMMA UpTo ==
  ASSUME NEW k \in Nat
  PROVE  IsFiniteSet(1 .. k) /\ Cardinality(1 .. k) = k
<1>1. IsFiniteSet(1 .. k) /\ Cardinality(1 .. k) = IF 1 > k THEN 0 ELSE k - 1 + 1
  BY FS_Interval
<1> QED
  BY <1>1

(* The index event_queue inserts at: the events due by then are the first. *)
LEMMA FirstDue ==
  ASSUME EInv, NEW delay \in Nat
  PROVE  \E m \in 0 .. Len(events) :
           /\ Cardinality({i \in DOMAIN events : events[i].due <= delay}) = m
           /\ \A i \in 1 .. Len(events) : events[i].due <= delay <=> i <= m
<1> DEFINE D == {i \in DOMAIN events : events[i].due <= delay}
           m == Cardinality(D)
           n == Len(events)
<1>1. n \in Nat /\ DOMAIN events = 1 .. n /\ \A i \in 1 .. n : events[i].due \in Nat
  <2>1. events \in Seq(Event)
    BY DEF EInv, EventTypeOK
  <2>2. n \in Nat /\ DOMAIN events = 1 .. n /\ \A i \in 1 .. n : events[i] \in Event
    BY <2>1
  <2> QED
    BY <2>2 DEF Event
<1>2. D \in SUBSET (1 .. n) /\ \A i \in 1 .. n : i \in D <=> events[i].due <= delay
  BY <1>1
<1>3. \A i \in D, j \in 1 .. n : j <= i => j \in D
  BY <1>1, <1>2 DEF EInv, SortedEvents
<1> HIDE DEF D, n
<1>4. IsFiniteSet(1 .. n) /\ Cardinality(1 .. n) = n
  <2>1. n \in Nat
    BY <1>1
  <2> QED
    BY ONLY <2>1, UpTo
<1>5. IsFiniteSet(D) /\ m <= n /\ m \in Nat
  <2>1. IsFiniteSet(D) /\ m <= Cardinality(1 .. n)
    BY <1>2, <1>4, FS_Subset
  <2> QED
    BY <1>4, <2>1, FS_CardinalityType
<1>6. \A x \in D : x <= m
  <2> TAKE x \in D
  <2>1. x \in Nat /\ x >= 1 /\ 1 .. x \in SUBSET D
    BY <1>1, <1>2, <1>3
  <2>2. Cardinality(1 .. x) = x
    BY <2>1, UpTo
  <2> QED
    BY <1>5, <2>1, <2>2, FS_Subset
<1>7. D = 1 .. m
  <2>1. D \in SUBSET (1 .. m)
    BY <1>1, <1>2, <1>5, <1>6
  <2>2. IsFiniteSet(1 .. m) /\ Cardinality(1 .. m) = m
    <3>1. m \in Nat
      BY <1>5
    <3> HIDE DEF m
    <3> QED
      BY ONLY <3>1, UpTo
  <2> QED
    BY <2>1, <2>2, FS_Subset
<1>8. \A i \in 1 .. n : events[i].due <= delay <=> i <= m
  BY <1>1, <1>2, <1>5, <1>7
<1>9. m \in 0 .. n
  BY <1>1, <1>5
<1> QED
  BY <1>8, <1>9 DEF D, n
---------------------------------------------------------------------------
(* What the sequence of events holds.                                      *)
LEMMA EventsAre ==
  ASSUME EventTypeOK
  PROVE  /\ Len(events) \in Nat /\ DOMAIN events = 1 .. Len(events)
         /\ \A i \in 1 .. Len(events) : events[i] \in Event /\ events[i].req \in Req /\ events[i].due \in Nat
         /\ events # <<>> <=> Len(events) > 0
         /\ events # <<>> => Head(events) = events[1] /\ Head(events).due \in Nat
         /\ \A r : r \in Queued <=> \E i \in 1 .. Len(events) : events[i].req = r
<1>1. events \in Seq(Event)
  BY DEF EventTypeOK
<1>2. /\ Len(events) \in Nat /\ DOMAIN events = 1 .. Len(events)
      /\ \A i \in 1 .. Len(events) : events[i] \in Event
      /\ events # <<>> <=> Len(events) > 0
      /\ events # <<>> => Head(events) = events[1]
  BY <1>1
<1>3. \A i \in 1 .. Len(events) : events[i].req \in Req /\ events[i].due \in Nat
  BY <1>2 DEF Event
<1>4. \A r : r \in Queued <=> \E i \in 1 .. Len(events) : events[i].req = r
  BY <1>2 DEF Queued
<1> QED
  BY <1>2, <1>3, <1>4

LEMMA InitEInv == EventInit => EInv
<1> SUFFICES ASSUME EventInit PROVE EInv
  OBVIOUS
<1>1. EventTypeOK
  <2>1. events \in Seq(Event) /\ free_events \in Nat
    BY DEF EventInit
  <2>2. timer \in Int /\ timer = OFF
    BY DEF EventInit, OFF
  <2>3. dw_items \subseteq Req /\ pending \in BOOLEAN /\ handling \in BOOLEAN
    BY DEF EventInit
  <2> QED
    BY <2>1, <2>2, <2>3 DEF EventTypeOK
<1>2. Queued = {} /\ Len(events) = 0
  BY <1>1, EventsAre DEF EventInit
<1> QED
  BY <1>1, <1>2 DEF EInv, EventInit, SortedEvents, DistinctEvents, EventsKept, Armed, StructsKept

LEMMA QueueStep ==
  ASSUME EInv, NEW r \in Req, NEW delay \in Delay, event_queue(r, delay)
  PROVE  EInv'
<1> USE DEF EInv, EventsKept
<1> DEFINE e == [req |-> r, due |-> delay]
           n == Len(events)
<1>1. /\ r \notin Queued /\ r \notin dw_items /\ ~handling
      /\ UNCHANGED <<dw_items, pending, handling>>
      /\ \/ free_events # 0 /\ free_events' = 0 /\ structs' = structs - free_events + 1
         \/ free_events = 0 /\ free_events' = 0 /\ structs' = structs + 1
  BY DEF event_queue
<1>2. delay \in Nat /\ e \in Event /\ TICK \in Nat /\ TICK >= 1
  BY EventAssumption DEF Event
<1>3. PICK m \in 0 .. n :
        /\ Cardinality({i \in DOMAIN events : events[i].due <= delay}) = m
        /\ \A i \in 1 .. n : events[i].due <= delay <=> i <= m
  BY <1>2, FirstDue
<1>4. events' = InsertAt(events, m + 1, e)
  BY <1>3 DEF event_queue
<1>5. /\ n \in Nat /\ m \in Nat /\ m <= n
      /\ \A i \in 1 .. n : events[i].req \in Req /\ events[i].due \in Nat
      /\ events # <<>> <=> n > 0
      /\ events # <<>> => Head(events) = events[1]
      /\ \A q : q \in Queued <=> \E i \in 1 .. n : events[i].req = q
  BY <1>3, EventsAre
<1>6. /\ events' \in Seq(Event) /\ Len(events') = n + 1
      /\ \A i \in 1 .. m : events'[i] = events[i]
      /\ events'[m + 1] = e
      /\ \A i \in m + 2 .. n + 1 : events'[i] = events[i - 1]
  <2>1. m + 1 \in 1 .. n + 1 /\ (m + 1) - 1 = m /\ (m + 1) + 1 = m + 2
    BY <1>5
  <2>2. events \in Seq(Event)
    BY DEF EventTypeOK
  <2> DEFINE k == m + 1
  <2>3. k \in 1 .. Len(events) + 1 /\ k - 1 = m /\ k + 1 = m + 2 /\ events' = InsertAt(events, k, e)
    BY <1>4, <2>1
  <2>4. e \in Event
    BY <1>2
  <2> HIDE DEF e, k
  <2>5. /\ events' \in Seq(Event) /\ Len(events') = Len(events) + 1
        /\ \A i \in 1 .. k - 1 : events'[i] = events[i]
        /\ events'[k] = e
        /\ \A i \in k + 1 .. Len(events) + 1 : events'[i] = events[i - 1]
    <3>1. k \in 1 .. Len(events) + 1
      BY <2>3
    <3>2. /\ InsertAt(events, k, e) \in Seq(Event)
          /\ Len(InsertAt(events, k, e)) = Len(events) + 1
      BY ONLY <2>2, <2>4, <3>1, Insertion
    <3>3. \A i \in 1 .. k - 1 : InsertAt(events, k, e)[i] = events[i]
      BY ONLY <2>2, <2>4, <3>1, Insertion
    <3>4. InsertAt(events, k, e)[k] = e
      BY ONLY <2>2, <2>4, <3>1, Insertion
    <3>5. \A i \in k + 1 .. Len(events) + 1 : InsertAt(events, k, e)[i] = events[i - 1]
      BY ONLY <2>2, <2>4, <3>1, Insertion
    <3> QED
      BY <2>3, <3>2, <3>3, <3>4, <3>5
  <2> QED
    BY <2>3, <2>5 DEF k
<1>7. e.req = r /\ e.due = delay
  OBVIOUS
<1> HIDE DEF e, n
<1>8. timer' \in Int /\ (timer' = OFF \/ timer' >= 1)
  <2>1. timer' = timer \/ timer' = Ticks(delay) * TICK
    BY DEF event_queue, arch_event_timer_arm
  <2>2. Ticks(delay) * TICK \in Nat /\ Ticks(delay) * TICK >= 1
    BY <1>2, TicksBound
  <2>3. timer \in Int /\ (timer = OFF \/ timer >= 1)
    BY DEF EventTypeOK
  <2> DEFINE c == Ticks(delay) * TICK
  <2>4. c \in Nat /\ c >= 1 /\ (timer' = timer \/ timer' = c)
    BY <2>1, <2>2
  <2> HIDE DEF c
  <2> QED
    BY <2>3, <2>4
<1>9. EventTypeOK'
  BY <1>1, <1>6, <1>8 DEF EventTypeOK
<1>10. SortedEvents'
  <2> SUFFICES ASSUME NEW i \in 1 .. n + 1, NEW j \in 1 .. n + 1, i <= j
               PROVE  events'[i].due <= events'[j].due
    BY <1>6 DEF SortedEvents
  <2>1. \A k, l \in 1 .. n : k <= l => events[k].due <= events[l].due
    BY DEF SortedEvents, n
  <2>2. \A k \in 1 .. n : k > m => events[k].due > delay
    BY <1>2, <1>3, <1>5
  <2>3. CASE j <= m
    BY <1>5, <1>6, <2>1, <2>3
  <2>4. CASE j = m + 1
    BY <1>2, <1>3, <1>5, <1>6, <1>7, <2>4
  <2>5. CASE j >= m + 2
    <3>1. j - 1 \in 1 .. n /\ j - 1 > m /\ events'[j] = events[j - 1]
      BY <1>5, <1>6, <2>5
    <3>2. CASE i <= m
      BY <1>5, <1>6, <2>1, <3>1, <3>2
    <3>3. CASE i = m + 1
      BY <1>2, <1>5, <1>6, <1>7, <2>2, <3>1, <3>3
    <3>4. CASE i >= m + 2
      <4>1. i - 1 \in 1 .. n /\ events'[i] = events[i - 1] /\ i - 1 <= j - 1
        BY <1>5, <1>6, <3>4
      <4> QED
        BY <2>1, <3>1, <4>1
    <3> QED
      BY <1>5, <3>2, <3>3, <3>4
  <2> QED
    BY <1>5, <2>3, <2>4, <2>5
<1>11. \A k \in 1 .. n : events[k].req # r
  BY <1>1, <1>5
<1>12. DistinctEvents'
  <2> SUFFICES ASSUME NEW i \in 1 .. n + 1, NEW j \in 1 .. n + 1, events'[i].req = events'[j].req, i < j
               PROVE  FALSE
    BY <1>6 DEF DistinctEvents
  <2>1. \A k, l \in 1 .. n : events[k].req = events[l].req => k = l
    BY DEF DistinctEvents, n
  <2>2. CASE j <= m
    BY <1>5, <1>6, <2>1, <2>2
  <2>3. CASE j = m + 1
    <3>1. i \in 1 .. m /\ events'[i] = events[i] /\ i \in 1 .. n
      BY <1>5, <1>6, <2>3
    <3> QED
      BY <1>6, <1>7, <1>11, <2>3, <3>1
  <2>4. CASE j >= m + 2
    <3>1. j - 1 \in 1 .. n /\ events'[j] = events[j - 1]
      BY <1>5, <1>6, <2>4
    <3>2. CASE i <= m
      BY <1>5, <1>6, <2>1, <2>4, <3>1, <3>2
    <3>3. CASE i = m + 1
      BY <1>6, <1>7, <1>11, <3>1, <3>3
    <3>4. CASE i >= m + 2
      <4>1. i - 1 \in 1 .. n /\ events'[i] = events[i - 1] /\ i - 1 # j - 1
        BY <1>5, <1>6, <3>4
      <4> QED
        BY <2>1, <3>1, <4>1
    <3> QED
      BY <1>5, <3>2, <3>3, <3>4
  <2> QED
    BY <1>5, <2>2, <2>3, <2>4
<1>13. Armed'
  <2>1. events' # <<>> /\ Head(events') = events'[1]
    BY <1>5, <1>6
  <2>2. CASE events = <<>> \/ Head(events).due > delay
    <3>1. timer' = Ticks(delay) * TICK
      BY <2>2 DEF event_queue, arch_event_timer_arm
    <3>2. m = 0
      BY <1>2, <1>3, <1>5, <2>2
    <3>3. Head(events').due = delay
      BY <1>6, <1>7, <2>1, <3>2
    <3>4. timer' # OFF /\ timer' <= Max({delay, TICK})
      BY <1>2, <3>1, TicksBound, MaxOfTwo DEF OFF
    <3> QED
      BY <3>3, <3>4 DEF Armed
  <2>3. CASE events # <<>> /\ ~(Head(events).due > delay)
    <3>1. timer' = timer
      BY <2>3 DEF event_queue
    <3>2. 1 \in 1 .. m /\ Head(events') = Head(events)
      BY <1>2, <1>3, <1>5, <1>6, <2>1, <2>3
    <3> QED
      BY <1>1, <2>3, <3>1, <3>2 DEF Armed
  <2> QED
    BY <2>2, <2>3
<1>14. StructsKept'
  <2>1. structs' = Len(events') + free_events'
    BY <1>1, <1>5, <1>6 DEF StructsKept, EventTypeOK, n
  <2>2. \A q : q \in Queued' => q \in Queued \/ q = r
    <3> SUFFICES ASSUME NEW i \in 1 .. n + 1 PROVE events'[i].req \in Queued \/ events'[i].req = r
      BY <1>6 DEF Queued
    <3>1. CASE i <= m
      BY <1>5, <1>6, <3>1
    <3>2. CASE i = m + 1
      BY <1>6, <1>7, <3>2
    <3>3. CASE i >= m + 2
      <4>1. i - 1 \in 1 .. n /\ events'[i] = events[i - 1]
        BY <1>5, <1>6, <3>3
      <4> QED
        BY <1>5, <4>1
    <3> QED
      BY <1>5, <3>1, <3>2, <3>3
  <2> QED
    BY <1>1, <2>1, <2>2 DEF StructsKept
<1> QED
  BY <1>9, <1>10, <1>12, <1>13, <1>14

LEMMA ProcessStep ==
  ASSUME EInv, events_process
  PROVE  EInv'
<1> USE DEF EInv, EventsKept
<1> DEFINE n == Len(events)
<1>1. /\ n \in Nat /\ DOMAIN events = 1 .. n
      /\ \A i \in 1 .. n : events[i] \in Event /\ events[i].req \in Req /\ events[i].due \in Nat
      /\ events # <<>> <=> n > 0
      /\ events # <<>> => Head(events) = events[1] /\ Head(events).due \in Nat
      /\ \A q : q \in Queued <=> \E i \in 1 .. n : events[i].req = q
  BY EventsAre
<1>2. handling /\ UNCHANGED pending
  BY DEF events_process
<1>3. CASE /\ events # <<>> /\ events' = Tail(events)
           /\ dw_items' = dw_items \union {Head(events).req} /\ free_events' = free_events + 1
           /\ UNCHANGED <<structs, timer, handling>>
  <2>1. /\ events' \in Seq(Event) /\ Len(events') = n - 1 /\ n >= 1
        /\ \A i \in 1 .. n - 1 : events'[i] = events[i + 1]
    BY <1>1, <1>3 DEF EventTypeOK
  <2> HIDE DEF n
  <2>2. \A i \in 1 .. n - 1 : i + 1 \in 1 .. n /\ events'[i] = events[i + 1]
    BY <1>1, <2>1
  <2>3. EventTypeOK'
    BY <1>1, <1>2, <1>3, <2>1 DEF EventTypeOK
  <2>4. SortedEvents'
    <3> SUFFICES ASSUME NEW i \in 1 .. n - 1, NEW j \in 1 .. n - 1, i <= j
                 PROVE  events'[i].due <= events'[j].due
      BY <2>1 DEF SortedEvents
    <3>1. i + 1 <= j + 1
      OBVIOUS
    <3> QED
      BY <2>2, <3>1 DEF SortedEvents, n
  <2>5. DistinctEvents'
    <3> SUFFICES ASSUME NEW i \in 1 .. n - 1, NEW j \in 1 .. n - 1, events'[i].req = events'[j].req
                 PROVE  i = j
      BY <2>1 DEF DistinctEvents
    <3>1. i + 1 = j + 1
      BY <2>2 DEF DistinctEvents, n
    <3> QED
      BY <3>1
  <2>6. Armed'
    BY <1>2, <1>3 DEF Armed
  <2>7. \A q : q \in Queued' => q \in Queued /\ q # Head(events).req
    <3> SUFFICES ASSUME NEW i \in 1 .. n - 1
                 PROVE  events'[i].req \in Queued /\ events'[i].req # Head(events).req
      BY <2>1 DEF Queued
    <3>1. events'[i].req \in Queued
      BY <1>1, <2>2
    <3>2. i + 1 # 1 /\ 1 \in 1 .. n
      BY <2>1
    <3>3. events[i + 1].req # events[1].req
      BY <2>2, <3>2 DEF DistinctEvents, n
    <3> QED
      BY <1>1, <1>3, <2>2, <3>1, <3>3
  <2>8. StructsKept'
    <3>1. structs' = Len(events') + free_events'
      BY <1>1, <1>3, <2>1 DEF StructsKept, EventTypeOK, n
    <3> QED
      BY <1>3, <2>7, <3>1 DEF StructsKept
  <2> QED
    BY <2>3, <2>4, <2>5, <2>6, <2>8
<1>4. CASE /\ events # <<>> /\ arch_event_timer_arm(Head(events).due) /\ handling' = FALSE
           /\ UNCHANGED <<events, free_events, structs, dw_items>>
  <2>1. timer' = Ticks(Head(events).due) * TICK /\ TICK \in Nat
    BY <1>4, EventAssumption DEF arch_event_timer_arm
  <2>2. timer' \in Int /\ timer' >= 1 /\ timer' <= Max({Head(events).due, TICK})
    <3> DEFINE d == Head(events).due
               c == Ticks(d) * TICK
    <3>1. d \in Nat
      BY <1>1, <1>4
    <3> HIDE DEF d
    <3>2. c \in Nat /\ c >= 1 /\ (c <= d \/ c = TICK)
      BY <3>1, TicksBound
    <3>3. Max({d, TICK}) = IF d >= TICK THEN d ELSE TICK
      BY <2>1, <3>1, MaxOfTwo
    <3>4. timer' = c
      BY <2>1 DEF d
    <3> HIDE DEF c
    <3>5. timer' \in Int /\ timer' >= 1 /\ timer' <= Max({d, TICK})
      BY <2>1, <3>1, <3>2, <3>3, <3>4
    <3> QED
      BY <3>5 DEF d
  <2>3. EventTypeOK'
    BY <1>2, <1>4, <2>2 DEF EventTypeOK
  <2>4. Armed'
    BY <1>4, <2>2 DEF Armed, OFF
  <2> QED
    BY <1>4, <2>3, <2>4 DEF SortedEvents, DistinctEvents, StructsKept, Queued
<1>5. CASE events = <<>> /\ handling' = FALSE /\ UNCHANGED <<events, free_events, structs, dw_items, timer>>
  <2>1. EventTypeOK'
    BY <1>2, <1>5 DEF EventTypeOK
  <2>2. SortedEvents' /\ DistinctEvents'
    BY <1>5 DEF SortedEvents, DistinctEvents
  <2>3. Armed'
    BY <1>5 DEF Armed
  <2>4. StructsKept'
    BY <1>5 DEF StructsKept, Queued
  <2> QED
    BY <2>1, <2>2, <2>3, <2>4
<1> QED
  BY <1>3, <1>4, <1>5 DEF events_process

LEMMA TickStep ==
  ASSUME EInv, Tick
  PROVE  EInv'
<1> USE DEF EInv, EventsKept
<1> DEFINE n == Len(events)
<1>1. /\ n \in Nat /\ DOMAIN events = 1 .. n
      /\ \A i \in 1 .. n : events[i] \in Event /\ events[i].req \in Req /\ events[i].due \in Nat
      /\ events # <<>> <=> n > 0
      /\ events # <<>> => Head(events) = events[1] /\ Head(events).due \in Nat
  BY EventsAre
<1>2. /\ events' = [i \in 1 .. n |-> [events[i] EXCEPT !.due = IF @ = 0 THEN 0 ELSE @ - 1]]
      /\ timer' = IF timer \in {OFF, 1} THEN OFF ELSE timer - 1
      /\ pending' = (pending \/ timer = 1)
      /\ UNCHANGED <<free_events, structs, dw_items, handling>>
  BY <1>1 DEF Tick
<1> HIDE DEF n
<1>3. \A i \in 1 .. n : /\ events'[i] \in Event /\ events'[i].req = events[i].req
                        /\ events'[i].due = IF events[i].due = 0 THEN 0 ELSE events[i].due - 1
  BY <1>1, <1>2 DEF Event
<1>4. events' \in Seq(Event) /\ Len(events') = n /\ (events' # <<>> => events # <<>> /\ Head(events') = events'[1])
  <2>1. \A i \in 1 .. n : events'[i] \in Event
    BY <1>3
  <2>2. events' = [i \in 1 .. n |-> events'[i]]
    BY <1>2
  <2> QED
    BY <1>1, <2>1, <2>2
<1>5. EventTypeOK'
  BY <1>2, <1>4 DEF EventTypeOK, OFF
<1>6. SortedEvents'
  BY <1>1, <1>3, <1>4 DEF SortedEvents, n
<1>7. DistinctEvents'
  BY <1>3, <1>4 DEF DistinctEvents, n
<1>8. Armed'
  <2> SUFFICES ASSUME events' # <<>>, ~handling, ~pending, timer # 1
               PROVE  timer' # OFF /\ timer' <= Max({Head(events').due, TICK})
    BY <1>2 DEF Armed
  <2>1. events # <<>> /\ timer # OFF /\ timer <= Max({Head(events).due, TICK})
    BY <1>4 DEF Armed
  <2>2. timer' = timer - 1 /\ timer' >= 1 /\ timer \in Int
    BY <1>2, <2>1 DEF EventTypeOK
  <2>3. /\ Head(events).due \in Nat /\ Head(events').due \in Nat /\ TICK \in Nat /\ TICK >= 1
        /\ Head(events').due >= Head(events).due - 1
    <3>1. 1 \in 1 .. n /\ Head(events') = events'[1] /\ Head(events) = events[1]
      BY <1>1, <1>4, <2>1
    <3> QED
      BY <1>1, <1>3, <3>1, EventAssumption
  <2> QED
    BY <2>1, <2>2, <2>3, MaxOfTwo DEF OFF
<1>9. StructsKept'
  <2>1. Queued' = Queued
    <3>1. \A r : r \in Queued' <=> r \in Queued
      BY <1>1, <1>3, <1>4 DEF Queued
    <3> QED
      BY <3>1
  <2> QED
    BY <1>2, <1>4, <2>1 DEF StructsKept, n
<1> QED
  BY <1>5, <1>6, <1>7, <1>8, <1>9

LEMMA StepEInv == EInv /\ [EventNext]_eventVars => EInv'
<1> SUFFICES ASSUME EInv, [EventNext]_eventVars PROVE EInv'
  OBVIOUS
<1> USE DEF EInv, EventsKept
<1>1. CASE UNCHANGED eventVars
  BY <1>1 DEF eventVars, EventTypeOK, SortedEvents, DistinctEvents, Armed, StructsKept, Queued
<1>2. CASE TakeInterrupt
  BY <1>2 DEF TakeInterrupt, EventTypeOK, SortedEvents, DistinctEvents, Armed, StructsKept, Queued
<1>3. ASSUME NEW r \in Req, WorkDone(r) PROVE EInv'
  BY <1>3 DEF WorkDone, EventTypeOK, SortedEvents, DistinctEvents, Armed, StructsKept, Queued
<1> QED
  BY <1>1, <1>2, <1>3, QueueStep, ProcessStep, TickStep DEF EventNext

(* For every set of requests and delays, every tick, frequency, counter    *)
(* width and limit: an event that waits has a timer that wakes the CPU for *)
(* it in time, and no event struct is lost, through any interleaving of    *)
(* event_queue, the timer interrupt and the steps of events_process.       *)
THEOREM EventsAreKept == EventSpec => []EventsKept
<1>1. EventInit => EInv
  BY InitEInv
<1>2. EInv /\ [EventNext]_eventVars => EInv'
  BY StepEInv
<1>3. EInv => EventsKept
  BY DEF EInv
<1> QED
  BY <1>1, <1>2, <1>3, PTL DEF EventSpec
---------------------------------------------------------------------------
(***************************************************************************)
(* A TLB shootdown is complete when it returns, for any number of CPUs.    *)
(*                                                                         *)
(* The heart of the argument is the set Done(c) of the CPUs that have      *)
(* answered the shootdown of c: complete_count is its size, and its        *)
(* members no longer have the range cached.  It stays exact because an     *)
(* answer is only ever given to the shootdown of another CPU that is under *)
(* way: between two shootdowns an IPI still on its way finds its target's  *)
(* status set, unless the target is the one whose shootdown was the last   *)
(* (Quiet).  A handler that runs on that CPU, then or during its own       *)
(* shootdown, is the double count tlb.c does not exclude: the step that    *)
(* sets miscounted, and the only one the invariant does not survive.       *)
(***************************************************************************)
(* The shootdown of c is published and not over.                           *)
Active(c) == pc[c] \in {"invalidate", "wait", "poll", "ipi", "unlock"}

Done(c) == { d \in Cpu : IF d = c THEN pc[c] # "invalidate" ELSE status[d] /\ handler[d] = "none" }

(* g_shootdown_lock excludes.                                              *)
LockHeld ==
  \A c \in Cpu : (pc[c] = "publish" \/ Active(c)) <=> shootdown_lock = c

(* IPIs go to the other CPUs.                                              *)
AsksOthers ==
  \A c \in Cpu : pc[c] = "ipi" => cursor # c /\ cursor < CpuCount

(* Between two shootdowns no handler is at work, and a CPU that an IPI may *)
(* still reach has its status set, and will ignore it, unless its own      *)
(* shootdown was the last.                                                 *)
Quiet ==
  (\A c \in Cpu : ~Active(c)) =>
    \A d \in Cpu : handler[d] = "none" /\ (~status[d] => address = d \/ (~irr[d] /\ ~sent[d]))

(* While the shootdown of c is under way, the handlers work for it, and    *)
(* those that have invalidated do not have the range cached.               *)
Answers ==
  \A c \in Cpu : Active(c) =>
    /\ address = c
    /\ \A d \in Cpu \ {c} :
         /\ handler[d] # "none" => status[d] /\ range[d] = c
         /\ status[d] /\ handler[d] # "invalidate" => c \notin stale[d]
    /\ handler[c] = "none"
    /\ pc[c] # "invalidate" => c \notin stale[c]

(* complete_count is the number of answers, and all are in at the end.     *)
Counted ==
  \A c \in Cpu : Active(c) =>
    /\ complete_count = Cardinality(Done(c))
    /\ pc[c] = "unlock" => Done(c) = Cpu

Base == TypeOK /\ LockHeld /\ AsksOthers

IInv == Base /\ Quiet /\ Answers /\ Counted
---------------------------------------------------------------------------
LEMMA CpuFinite ==
  /\ IsFiniteSet(Cpu) /\ Cardinality(Cpu) = CpuCount
  /\ CpuCount \in Nat /\ CpuCount > 0 /\ CpuCount \notin Cpu /\ Cpu \subseteq Nat
<1>1. CpuCount \in Nat /\ CpuCount > 0
  BY CpuAssumption
<1>2. IsFiniteSet(0..(CpuCount - 1)) /\ Cardinality(0..(CpuCount - 1)) = CpuCount
  BY <1>1, FS_Interval
<1> QED
  BY <1>1, <1>2 DEF Cpu

(* Sets of CPUs, and what one more member does to their size.              *)
LEMMA CpuSets ==
  ASSUME NEW S \in SUBSET Cpu
  PROVE  /\ IsFiniteSet(S) /\ Cardinality(S) \in 0..CpuCount
         /\ Cardinality(S) = CpuCount => S = Cpu
         /\ \A d \in Cpu \ S : Cardinality(S \cup {d}) = Cardinality(S) + 1
<1>1. /\ IsFiniteSet(S) /\ Cardinality(S) <= Cardinality(Cpu)
      /\ Cardinality(S) = Cardinality(Cpu) => S = Cpu
  BY CpuFinite, FS_Subset
<1>2. Cardinality(S) \in Nat
  BY <1>1, FS_CardinalityType
<1>3. \A d \in Cpu \ S : Cardinality(S \cup {d}) = Cardinality(S) + 1
  BY <1>1, FS_AddElement
<1> QED
  BY <1>1, <1>2, <1>3, CpuFinite

(* A CPU that answers the shootdown of c is one more in Done(c), and there *)
(* was room for it in the count.                                           *)
LEMMA OneMore ==
  ASSUME IInv, NEW c \in Cpu, Active(c), NEW d \in Cpu, d \notin Done(c)
  PROVE  /\ complete_count + 1 \in 0..CpuCount
         /\ Cardinality(Done(c) \cup {d}) = complete_count + 1
<1>1. Done(c) \in SUBSET Cpu /\ Done(c) \cup {d} \in SUBSET Cpu
  BY DEF Done
<1>2. Cardinality(Done(c)) = complete_count
  BY DEF IInv, Counted
<1>3. Cardinality(Done(c) \cup {d}) = Cardinality(Done(c)) + 1
  BY <1>1, CpuSets
<1>4. Cardinality(Done(c) \cup {d}) \in 0..CpuCount
  BY <1>1, CpuSets
<1> QED
  BY <1>2, <1>3, <1>4

LEMMA InitIInv == Init => IInv
<1> SUFFICES ASSUME Init PROVE IInv
  OBVIOUS
<1> USE CpuFinite, CpuAssumption DEF Init
<1>1. TypeOK
  <2>1. 0 \in Cpu /\ CpuCount \in 0..CpuCount
    BY DEF Cpu
  <2>2. miscounted \in BOOLEAN /\ status \in [Cpu -> BOOLEAN]
    OBVIOUS
  <2>3. sent \in [Cpu -> BOOLEAN] /\ irr \in [Cpu -> BOOLEAN] /\ threaded \in [Cpu -> BOOLEAN]
    OBVIOUS
  <2> QED
    BY <2>1, <2>2, <2>3 DEF TypeOK
<1>2. LockHeld /\ AsksOthers /\ Quiet
  BY DEF LockHeld, AsksOthers, Quiet, Active
<1>3. Answers /\ Counted
  BY DEF Answers, Counted, Active
<1> QED
  BY <1>1, <1>2, <1>3 DEF IInv, Base
---------------------------------------------------------------------------
(* Types, the lock and the loop of the IPIs stay in order in any case.     *)
LEMMA StepBase ==
  ASSUME Base, NEW c \in Cpu,
         \/ BecomeThreaded(c) \/ Mask(c) \/ ShootdownEarly(c) \/ ShootdownEnter(c)
         \/ Continue(c) \/ DeliverIpi(c) \/ Handle(c)
  PROVE  Base'
<1> USE CpuFinite, CpuAssumption DEF Base, Goto, handlerVars, shared, ipiVars
<1>1. ASSUME BecomeThreaded(c) PROVE Base'
  <2>1. TypeOK'
    BY <1>1 DEF TypeOK, BecomeThreaded
  <2>2. LockHeld'
    BY <1>1 DEF TypeOK, LockHeld, BecomeThreaded, Active
  <2>3. AsksOthers'
    BY <1>1 DEF TypeOK, LockHeld, AsksOthers, BecomeThreaded, Active
  <2> QED
    BY <2>1, <2>2, <2>3
<1>2. ASSUME Mask(c) PROVE Base'
  <2>1. TypeOK'
    BY <1>2 DEF TypeOK, Mask
  <2>2. LockHeld'
    BY <1>2 DEF TypeOK, LockHeld, Mask, Active
  <2>3. AsksOthers'
    BY <1>2 DEF TypeOK, LockHeld, AsksOthers, Mask, Active
  <2> QED
    BY <2>1, <2>2, <2>3
<1>3. ASSUME Unmask(c) PROVE Base'
  <2>1. TypeOK'
    BY <1>3 DEF TypeOK, Unmask
  <2>2. LockHeld'
    BY <1>3 DEF TypeOK, LockHeld, Unmask, Active
  <2>3. AsksOthers'
    BY <1>3 DEF TypeOK, LockHeld, AsksOthers, Unmask, Active
  <2> QED
    BY <2>1, <2>2, <2>3
<1>4. ASSUME ShootdownEarly(c) PROVE Base'
  <2>1. TypeOK'
    BY <1>4 DEF TypeOK, ShootdownEarly
  <2>2. LockHeld'
    BY <1>4 DEF TypeOK, LockHeld, ShootdownEarly, Active
  <2>3. AsksOthers'
    BY <1>4 DEF TypeOK, LockHeld, AsksOthers, ShootdownEarly, Active
  <2> QED
    BY <2>1, <2>2, <2>3
<1>5. ASSUME ShootdownEnter(c) PROVE Base'
  <2>1. TypeOK'
    BY <1>5 DEF TypeOK, ShootdownEnter
  <2>2. LockHeld'
    BY <1>5 DEF TypeOK, LockHeld, ShootdownEnter, Active
  <2>3. AsksOthers'
    BY <1>5 DEF TypeOK, LockHeld, AsksOthers, ShootdownEnter, Active
  <2> QED
    BY <2>1, <2>2, <2>3
<1>6. ASSUME AcquireShootdownLock(c) PROVE Base'
  <2>1. TypeOK'
    BY <1>6 DEF TypeOK, AcquireShootdownLock, Cpu
  <2>2. LockHeld'
    BY <1>6 DEF TypeOK, LockHeld, AcquireShootdownLock, Active
  <2>3. AsksOthers'
    BY <1>6 DEF TypeOK, LockHeld, AsksOthers, AcquireShootdownLock, Active
  <2> QED
    BY <2>1, <2>2, <2>3
<1>7. ASSUME Publish(c) PROVE Base'
  <2>1. TypeOK'
    BY <1>7 DEF TypeOK, Publish
  <2>2. LockHeld'
    BY <1>7 DEF TypeOK, LockHeld, Publish, Active
  <2>3. AsksOthers'
    BY <1>7 DEF TypeOK, LockHeld, AsksOthers, Publish, Active
  <2> QED
    BY <2>1, <2>2, <2>3
<1>8. ASSUME InvalidateSelf(c) PROVE Base'
  <2>1. TypeOK'
    BY <1>8 DEF TypeOK, InvalidateSelf
  <2>2. LockHeld'
    BY <1>8 DEF TypeOK, LockHeld, InvalidateSelf, Active
  <2>3. AsksOthers'
    BY <1>8 DEF TypeOK, LockHeld, AsksOthers, InvalidateSelf, Active
  <2> QED
    BY <2>1, <2>2, <2>3
<1>9. ASSUME WaitCheck(c) PROVE Base'
  <2>1. TypeOK'
    BY <1>9 DEF TypeOK, WaitCheck
  <2>2. LockHeld'
    BY <1>9 DEF TypeOK, LockHeld, WaitCheck, Active
  <2>3. AsksOthers'
    BY <1>9 DEF TypeOK, LockHeld, AsksOthers, WaitCheck, Active
  <2> QED
    BY <2>1, <2>2, <2>3
<1>10. ASSUME Poll(c) PROVE Base'
  <2>1. TypeOK'
    BY <1>10 DEF TypeOK, Poll
  <2>2. LockHeld'
    BY <1>10 DEF TypeOK, LockHeld, Poll, Active
  <2>3. AsksOthers'
    BY <1>10 DEF TypeOK, LockHeld, AsksOthers, Poll, Active
  <2> QED
    BY <2>1, <2>2, <2>3
<1>11. ASSUME SendIpi(c) PROVE Base'
  <2>a. cursor \in Cpu /\ cursor + 1 \in 0..CpuCount
    BY <1>11 DEF TypeOK, AsksOthers, SendIpi, Cpu
  <2>1. TypeOK'
    BY <1>11, <2>a DEF TypeOK, SendIpi
  <2>2. LockHeld'
    BY <1>11 DEF TypeOK, LockHeld, SendIpi, Active
  <2>3. AsksOthers'
    BY <1>11 DEF TypeOK, LockHeld, AsksOthers, SendIpi, Active
  <2> QED
    BY <2>1, <2>2, <2>3
<1>12. ASSUME Unlock(c) PROVE Base'
  <2>1. TypeOK'
    BY <1>12 DEF TypeOK, Unlock
  <2>2. LockHeld'
    BY <1>12 DEF TypeOK, LockHeld, Unlock, Active
  <2>3. AsksOthers'
    BY <1>12 DEF TypeOK, LockHeld, AsksOthers, Unlock, Active
  <2> QED
    BY <2>1, <2>2, <2>3
<1>13. ASSUME DeliverIpi(c) PROVE Base'
  <2>1. TypeOK'
    BY <1>13 DEF TypeOK, DeliverIpi
  <2>2. LockHeld'
    BY <1>13 DEF TypeOK, LockHeld, DeliverIpi, Active
  <2>3. AsksOthers'
    BY <1>13 DEF TypeOK, LockHeld, AsksOthers, DeliverIpi, Active
  <2> QED
    BY <2>1, <2>2, <2>3
<1>14. ASSUME HandlerEnter(c) PROVE Base'
  <2>1. TypeOK'
    <3>1. CASE status[c]
      BY <1>14, <3>1 DEF TypeOK, HandlerEnter
    <3>2. CASE ~status[c]
      <4>1. /\ status' = [status EXCEPT ![c] = TRUE] /\ irr' = [irr EXCEPT ![c] = FALSE]
            /\ range' = [range EXCEPT ![c] = address]
            /\ handler' = [handler EXCEPT ![c] = "invalidate"]
        BY <1>14, <3>2 DEF HandlerEnter
      <4>2. status' \in [Cpu -> BOOLEAN] /\ irr' \in [Cpu -> BOOLEAN]
        BY <4>1 DEF TypeOK
      <4>3. range' \in [Cpu -> Cpu] /\ handler' \in [Cpu -> {"none", "invalidate", "count"}]
        BY <4>1 DEF TypeOK
      <4> QED
        BY <1>14, <4>2, <4>3 DEF TypeOK, HandlerEnter
    <3> QED
      BY <3>1, <3>2
  <2>2. LockHeld'
    BY <1>14 DEF TypeOK, LockHeld, HandlerEnter, Active
  <2>3. AsksOthers'
    BY <1>14 DEF TypeOK, LockHeld, AsksOthers, HandlerEnter, Active
  <2> QED
    BY <2>1, <2>2, <2>3
<1>15. ASSUME HandlerInvalidate(c) PROVE Base'
  <2>1. TypeOK'
    BY <1>15 DEF TypeOK, HandlerInvalidate
  <2>2. LockHeld'
    BY <1>15 DEF TypeOK, LockHeld, HandlerInvalidate, Active
  <2>3. AsksOthers'
    BY <1>15 DEF TypeOK, LockHeld, AsksOthers, HandlerInvalidate, Active
  <2> QED
    BY <2>1, <2>2, <2>3
<1>16. ASSUME HandlerCount(c) PROVE Base'
  <2>1. TypeOK'
    BY <1>16 DEF TypeOK, HandlerCount, Cpu
  <2>2. LockHeld'
    BY <1>16 DEF TypeOK, LockHeld, HandlerCount, Active
  <2>3. AsksOthers'
    BY <1>16 DEF TypeOK, LockHeld, AsksOthers, HandlerCount, Active
  <2> QED
    BY <2>1, <2>2, <2>3
<1> QED
  BY <1>1, <1>2, <1>3, <1>4, <1>5, <1>6, <1>7, <1>8, <1>9, <1>10, <1>11, <1>12, <1>13, <1>14, <1>15, <1>16 DEF Continue, Handle

LEMMA StepIInv ==
  ASSUME IInv, ~miscounted', NEW c \in Cpu,
         \/ BecomeThreaded(c) \/ Mask(c) \/ ShootdownEarly(c) \/ ShootdownEnter(c)
         \/ Continue(c) \/ DeliverIpi(c) \/ Handle(c)
  PROVE  IInv'
<1>0. Base'
  BY StepBase DEF IInv
<1> USE CpuFinite, CpuAssumption DEF IInv, Base, Goto, handlerVars, shared, ipiVars
<1>1. ASSUME BecomeThreaded(c) PROVE IInv'
  <2>1. Quiet'
    BY <1>1 DEF TypeOK, LockHeld, Quiet, Answers, BecomeThreaded, Active, Running, InterruptsOn
  <2>2. Answers'
    BY <1>1 DEF TypeOK, LockHeld, Quiet, Answers, BecomeThreaded, Active, Running, InterruptsOn
  <2>3. Counted'
    <3>1. \A e \in Cpu : Active(e)' => Active(e) /\ (pc'[e] = "unlock" => pc[e] = "unlock")
      BY <1>1 DEF TypeOK, BecomeThreaded, Active
    <3>2. \A e \in Cpu : Active(e) => Done(e)' = Done(e)
      BY <1>1 DEF TypeOK, LockHeld, Answers, BecomeThreaded, Active, Done
    <3>3. complete_count' = complete_count
      BY <1>1 DEF BecomeThreaded
    <3> QED
      BY <3>1, <3>2, <3>3 DEF Counted
  <2> QED
    BY <1>0, <2>1, <2>2, <2>3
<1>2. ASSUME Mask(c) PROVE IInv'
  <2>1. Quiet'
    BY <1>2 DEF TypeOK, LockHeld, Quiet, Answers, Mask, Active, Running, InterruptsOn
  <2>2. Answers'
    BY <1>2 DEF TypeOK, LockHeld, Quiet, Answers, Mask, Active, Running, InterruptsOn
  <2>3. Counted'
    <3>1. \A e \in Cpu : Active(e)' => Active(e) /\ (pc'[e] = "unlock" => pc[e] = "unlock")
      BY <1>2 DEF TypeOK, Mask, Active
    <3>2. \A e \in Cpu : Active(e) => Done(e)' = Done(e)
      BY <1>2 DEF TypeOK, LockHeld, Answers, Mask, Active, Done
    <3>3. complete_count' = complete_count
      BY <1>2 DEF Mask
    <3> QED
      BY <3>1, <3>2, <3>3 DEF Counted
  <2> QED
    BY <1>0, <2>1, <2>2, <2>3
<1>3. ASSUME Unmask(c) PROVE IInv'
  <2>1. Quiet'
    BY <1>3 DEF TypeOK, LockHeld, Quiet, Answers, Unmask, Active, Running, InterruptsOn
  <2>2. Answers'
    BY <1>3 DEF TypeOK, LockHeld, Quiet, Answers, Unmask, Active, Running, InterruptsOn
  <2>3. Counted'
    <3>1. \A e \in Cpu : Active(e)' => Active(e) /\ (pc'[e] = "unlock" => pc[e] = "unlock")
      BY <1>3 DEF TypeOK, Unmask, Active
    <3>2. \A e \in Cpu : Active(e) => Done(e)' = Done(e)
      BY <1>3 DEF TypeOK, LockHeld, Answers, Unmask, Active, Done
    <3>3. complete_count' = complete_count
      BY <1>3 DEF Unmask
    <3> QED
      BY <3>1, <3>2, <3>3 DEF Counted
  <2> QED
    BY <1>0, <2>1, <2>2, <2>3
<1>4. ASSUME ShootdownEarly(c) PROVE IInv'
  <2>1. Quiet'
    BY <1>4 DEF TypeOK, LockHeld, Quiet, Answers, ShootdownEarly, Active, Running, InterruptsOn
  <2>2. Answers'
    BY <1>4 DEF TypeOK, LockHeld, Quiet, Answers, ShootdownEarly, Active, Running, InterruptsOn
  <2>3. Counted'
    <3>1. \A e \in Cpu : Active(e)' => Active(e) /\ (pc'[e] = "unlock" => pc[e] = "unlock")
      BY <1>4 DEF TypeOK, ShootdownEarly, Active
    <3>2. \A e \in Cpu : Active(e) => Done(e)' = Done(e)
      BY <1>4 DEF TypeOK, LockHeld, Answers, ShootdownEarly, Active, Done
    <3>3. complete_count' = complete_count
      BY <1>4 DEF ShootdownEarly
    <3> QED
      BY <3>1, <3>2, <3>3 DEF Counted
  <2> QED
    BY <1>0, <2>1, <2>2, <2>3
<1>5. ASSUME ShootdownEnter(c) PROVE IInv'
  <2>1. Quiet'
    BY <1>5 DEF TypeOK, LockHeld, Quiet, Answers, ShootdownEnter, Active, Running, InterruptsOn
  <2>2. Answers'
    BY <1>5 DEF TypeOK, LockHeld, Quiet, Answers, ShootdownEnter, Active, Running, InterruptsOn
  <2>3. Counted'
    <3>1. \A e \in Cpu : Active(e)' => Active(e) /\ (pc'[e] = "unlock" => pc[e] = "unlock")
      BY <1>5 DEF TypeOK, ShootdownEnter, Active
    <3>2. \A e \in Cpu : Active(e) => Done(e)' = Done(e)
      BY <1>5 DEF TypeOK, LockHeld, Answers, ShootdownEnter, Active, Done
    <3>3. complete_count' = complete_count
      BY <1>5 DEF ShootdownEnter
    <3> QED
      BY <3>1, <3>2, <3>3 DEF Counted
  <2> QED
    BY <1>0, <2>1, <2>2, <2>3
<1>6. ASSUME AcquireShootdownLock(c) PROVE IInv'
  <2>1. Quiet'
    BY <1>6 DEF TypeOK, LockHeld, Quiet, Answers, AcquireShootdownLock, Active, Running, InterruptsOn
  <2>2. Answers'
    BY <1>6 DEF TypeOK, LockHeld, Quiet, Answers, AcquireShootdownLock, Active, Running, InterruptsOn
  <2>3. Counted'
    <3>1. \A e \in Cpu : Active(e)' => Active(e) /\ (pc'[e] = "unlock" => pc[e] = "unlock")
      BY <1>6 DEF TypeOK, AcquireShootdownLock, Active
    <3>2. \A e \in Cpu : Active(e) => Done(e)' = Done(e)
      BY <1>6 DEF TypeOK, LockHeld, Answers, AcquireShootdownLock, Active, Done
    <3>3. complete_count' = complete_count
      BY <1>6 DEF AcquireShootdownLock
    <3> QED
      BY <3>1, <3>2, <3>3 DEF Counted
  <2> QED
    BY <1>0, <2>1, <2>2, <2>3
<1>7. ASSUME Publish(c) PROVE IInv'
  <2>1. Quiet'
    BY <1>7 DEF TypeOK, LockHeld, Quiet, Answers, Publish, Active, Running, InterruptsOn
  <2>2. Answers'
    BY <1>7 DEF TypeOK, LockHeld, Quiet, Answers, Publish, Active, Running, InterruptsOn
  <2>3. Counted'
    <3>1. \A e \in Cpu : Active(e)' => e = c
      BY <1>7 DEF TypeOK, Publish, LockHeld, Active
    <3>2. Done(c)' = {}
      BY <1>7 DEF TypeOK, Publish, Done
    <3>3. Cardinality({}) = 0
      BY FS_EmptySet
    <3>4. complete_count' = 0 /\ pc'[c] = "invalidate"
      BY <1>7 DEF TypeOK, Publish
    <3> QED
      BY <3>1, <3>2, <3>3, <3>4 DEF Counted
  <2> QED
    BY <1>0, <2>1, <2>2, <2>3
<1>8. ASSUME InvalidateSelf(c) PROVE IInv'
  <2>a. Active(c) /\ c \notin Done(c)
    BY <1>8 DEF InvalidateSelf, Active, Done
  <2>b. complete_count + 1 \in 0..CpuCount /\ Cardinality(Done(c) \cup {c}) = complete_count + 1
    BY <2>a, OneMore
  <2>1. Quiet'
    BY <1>8 DEF TypeOK, LockHeld, Quiet, Answers, InvalidateSelf, Active, Running, InterruptsOn
  <2>2. Answers'
    BY <1>8 DEF TypeOK, LockHeld, Quiet, Answers, InvalidateSelf, Active, Running, InterruptsOn
  <2>3. Counted'
    <3>1. Done(c)' = Done(c) \cup {c}
      BY <1>8 DEF TypeOK, InvalidateSelf, Done
    <3>2. \A e \in Cpu : Active(e)' => e = c
      BY <1>8 DEF TypeOK, InvalidateSelf, LockHeld, Active
    <3>3. complete_count' = complete_count + 1 /\ pc'[c] = "wait"
      BY <1>8 DEF TypeOK, InvalidateSelf
    <3> QED
      BY <2>b, <3>1, <3>2, <3>3 DEF Counted
  <2> QED
    BY <1>0, <2>1, <2>2, <2>3
<1>9. ASSUME WaitCheck(c) PROVE IInv'
  <2>1. Quiet'
    BY <1>9 DEF TypeOK, LockHeld, Quiet, Answers, WaitCheck, Active, Running, InterruptsOn
  <2>2. Answers'
    BY <1>9 DEF TypeOK, LockHeld, Quiet, Answers, WaitCheck, Active, Running, InterruptsOn
  <2>3. Counted'
    <3>1. Done(c) \in SUBSET Cpu /\ Active(c)
      BY <1>9 DEF WaitCheck, Done, Active
    <3>2. complete_count = CpuCount => Done(c) = Cpu
      BY <3>1, CpuSets DEF Counted
    <3>3. Done(c)' = Done(c) /\ complete_count' = complete_count
      BY <1>9 DEF TypeOK, WaitCheck, Done
    <3>4. \A e \in Cpu : Active(e)' => e = c
      BY <1>9 DEF TypeOK, WaitCheck, LockHeld, Active
    <3>5. pc'[c] = "unlock" => complete_count = CpuCount
      BY <1>9 DEF TypeOK, WaitCheck
    <3> QED
      BY <3>1, <3>2, <3>3, <3>4, <3>5 DEF Counted
  <2> QED
    BY <1>0, <2>1, <2>2, <2>3
<1>10. ASSUME Poll(c) PROVE IInv'
  <2>1. Quiet'
    BY <1>10 DEF TypeOK, LockHeld, Quiet, Answers, Poll, Active, Running, InterruptsOn
  <2>2. Answers'
    BY <1>10 DEF TypeOK, LockHeld, Quiet, Answers, Poll, Active, Running, InterruptsOn
  <2>3. Counted'
    <3>1. \A e \in Cpu : Active(e)' => Active(e) /\ (pc'[e] = "unlock" => pc[e] = "unlock")
      BY <1>10 DEF TypeOK, Poll, Active
    <3>2. \A e \in Cpu : Active(e) => Done(e)' = Done(e)
      BY <1>10 DEF TypeOK, LockHeld, Answers, Poll, Active, Done
    <3>3. complete_count' = complete_count
      BY <1>10 DEF Poll
    <3> QED
      BY <3>1, <3>2, <3>3 DEF Counted
  <2> QED
    BY <1>0, <2>1, <2>2, <2>3
<1>11. ASSUME SendIpi(c) PROVE IInv'
  <2>1. Quiet'
    BY <1>11 DEF TypeOK, LockHeld, Quiet, Answers, SendIpi, Active, Running, InterruptsOn
  <2>2. Answers'
    BY <1>11 DEF TypeOK, LockHeld, Quiet, Answers, SendIpi, Active, Running, InterruptsOn
  <2>3. Counted'
    <3>1. \A e \in Cpu : Active(e)' => Active(e) /\ (pc'[e] = "unlock" => pc[e] = "unlock")
      BY <1>11 DEF TypeOK, SendIpi, Active
    <3>2. \A e \in Cpu : Active(e) => Done(e)' = Done(e)
      BY <1>11 DEF TypeOK, LockHeld, Answers, SendIpi, Active, Done
    <3>3. complete_count' = complete_count
      BY <1>11 DEF SendIpi
    <3> QED
      BY <3>1, <3>2, <3>3 DEF Counted
  <2> QED
    BY <1>0, <2>1, <2>2, <2>3
<1>12. ASSUME Unlock(c) PROVE IInv'
  <2>1. Quiet'
    <3>1. Done(c) = Cpu /\ Active(c)
      BY <1>12 DEF Unlock, Counted, Active
    <3>2. \A d \in Cpu \ {c} : status[d] /\ handler[d] = "none"
      BY <3>1 DEF Done
    <3>3. handler[c] = "none" /\ address = c
      BY <3>1 DEF Answers
    <3> QED
      BY <1>12, <3>2, <3>3 DEF Unlock, Quiet
  <2>2. Answers'
    BY <1>12 DEF TypeOK, LockHeld, Quiet, Answers, Unlock, Active, Running, InterruptsOn
  <2>3. Counted'
    <3>1. \A e \in Cpu : Active(e)' => Active(e) /\ (pc'[e] = "unlock" => pc[e] = "unlock")
      BY <1>12 DEF TypeOK, Unlock, Active
    <3>2. \A e \in Cpu : Active(e) => Done(e)' = Done(e)
      BY <1>12 DEF TypeOK, LockHeld, Answers, Unlock, Active, Done
    <3>3. complete_count' = complete_count
      BY <1>12 DEF Unlock
    <3> QED
      BY <3>1, <3>2, <3>3 DEF Counted
  <2> QED
    BY <1>0, <2>1, <2>2, <2>3
<1>13. ASSUME DeliverIpi(c) PROVE IInv'
  <2>1. Quiet'
    BY <1>13 DEF TypeOK, LockHeld, Quiet, Answers, DeliverIpi, Active, Running, InterruptsOn
  <2>2. Answers'
    BY <1>13 DEF TypeOK, LockHeld, Quiet, Answers, DeliverIpi, Active, Running, InterruptsOn
  <2>3. Counted'
    <3>1. \A e \in Cpu : Active(e)' => Active(e) /\ (pc'[e] = "unlock" => pc[e] = "unlock")
      BY <1>13 DEF TypeOK, DeliverIpi, Active
    <3>2. \A e \in Cpu : Active(e) => Done(e)' = Done(e)
      BY <1>13 DEF TypeOK, LockHeld, Answers, DeliverIpi, Active, Done
    <3>3. complete_count' = complete_count
      BY <1>13 DEF DeliverIpi
    <3> QED
      BY <3>1, <3>2, <3>3 DEF Counted
  <2> QED
    BY <1>0, <2>1, <2>2, <2>3
<1>14. ASSUME HandlerEnter(c) PROVE IInv'
  <2>1. Quiet'
    BY <1>14 DEF TypeOK, LockHeld, Quiet, Answers, HandlerEnter, AnswersItself, Active, Running, InterruptsOn
  <2>2. Answers'
    BY <1>14 DEF TypeOK, LockHeld, Quiet, Answers, HandlerEnter, AnswersItself, Active, Running, InterruptsOn
  <2>3. Counted'
    <3>1. \A e \in Cpu : Active(e)' => Active(e) /\ (pc'[e] = "unlock" => pc[e] = "unlock")
      BY <1>14 DEF TypeOK, HandlerEnter, Active
    <3>2. \A e \in Cpu : Active(e) => Done(e)' = Done(e)
      <4>1. ~status[c] => \A e \in Cpu : Active(e) => e # c
        BY <1>14 DEF HandlerEnter, AnswersItself, Answers
      <4>2. CASE status[c]
        BY <1>14, <4>2 DEF HandlerEnter, Done
      <4>3. CASE ~status[c]
        <5>1. \A d \in Cpu \ {c} : status'[d] = status[d] /\ handler'[d] = handler[d]
          BY <1>14, <4>3 DEF TypeOK, HandlerEnter
        <5>2. pc' = pc /\ handler'[c] = "invalidate"
          BY <1>14, <4>3 DEF TypeOK, HandlerEnter
        <5> QED
          BY <4>1, <4>3, <5>1, <5>2 DEF Done
      <4> QED
        BY <4>2, <4>3
    <3>3. complete_count' = complete_count
      BY <1>14 DEF HandlerEnter
    <3> QED
      BY <3>1, <3>2, <3>3 DEF Counted
  <2> QED
    BY <1>0, <2>1, <2>2, <2>3
<1>15. ASSUME HandlerInvalidate(c) PROVE IInv'
  <2>1. Quiet'
    BY <1>15 DEF TypeOK, LockHeld, Quiet, Answers, HandlerInvalidate, Active, Running, InterruptsOn
  <2>2. Answers'
    BY <1>15 DEF TypeOK, LockHeld, Quiet, Answers, HandlerInvalidate, Active, Running, InterruptsOn
  <2>3. Counted'
    <3>1. \A e \in Cpu : Active(e)' => Active(e) /\ (pc'[e] = "unlock" => pc[e] = "unlock")
      BY <1>15 DEF TypeOK, HandlerInvalidate, Active
    <3>2. \A e \in Cpu : Active(e) => Done(e)' = Done(e)
      BY <1>15 DEF TypeOK, LockHeld, Answers, HandlerInvalidate, Active, Done
    <3>3. complete_count' = complete_count
      BY <1>15 DEF HandlerInvalidate
    <3> QED
      BY <3>1, <3>2, <3>3 DEF Counted
  <2> QED
    BY <1>0, <2>1, <2>2, <2>3
<1>16. ASSUME HandlerCount(c) PROVE IInv'
  <2>a. PICK e \in Cpu \ {c} : Active(e)
    BY <1>16 DEF HandlerCount, Quiet, Answers
  <2>b. c \notin Done(e)
    BY <1>16, <2>a DEF HandlerCount, Done
  <2>c. complete_count + 1 \in 0..CpuCount /\ Cardinality(Done(e) \cup {c}) = complete_count + 1
    BY <2>a, <2>b, OneMore
  <2>1. Quiet'
    BY <1>16 DEF TypeOK, LockHeld, Quiet, Answers, HandlerCount, Active, Running, InterruptsOn
  <2>2. Answers'
    BY <1>16 DEF TypeOK, LockHeld, Quiet, Answers, HandlerCount, Active, Running, InterruptsOn
  <2>3. Counted'
    <3>1. Done(e)' = Done(e) \cup {c}
      BY <1>16, <2>a DEF TypeOK, HandlerCount, Answers, Done
    <3>2. \A f \in Cpu : Active(f)' => f = e
      BY <1>16, <2>a DEF TypeOK, HandlerCount, LockHeld, Active
    <3>3. pc' = pc /\ complete_count' = complete_count + 1
      BY <1>16 DEF HandlerCount
    <3>4. pc[e] # "unlock"
      BY <2>a, <2>b DEF Counted
    <3> QED
      BY <2>c, <3>1, <3>2, <3>3, <3>4 DEF Counted
  <2> QED
    BY <1>0, <2>1, <2>2, <2>3
<1> QED
  BY <1>1, <1>2, <1>3, <1>4, <1>5, <1>6, <1>7, <1>8, <1>9, <1>10, <1>11, <1>12, <1>13, <1>14, <1>15, <1>16 DEF Continue, Handle

(* A count that went wrong stays recorded.                                 *)
LEMMA MiscountedStays == [Next]_vars /\ miscounted => miscounted'
  BY DEF Next, Continue, Handle, BecomeThreaded, Mask, ShootdownEarly, ShootdownEnter, Unmask,
         AcquireShootdownLock, Publish, InvalidateSelf, WaitCheck, Poll, SendIpi, Unlock, DeliverIpi,
         HandlerEnter, HandlerInvalidate, HandlerCount, vars

(* Base does not depend on it.                                             *)
LEMMA BaseInvariance == Spec => []Base
<1>1. ASSUME Base, UNCHANGED vars PROVE Base'
  BY <1>1 DEF Base, vars, handlerVars, shared, ipiVars, TypeOK, LockHeld, AsksOthers, Active
<1>2. ASSUME Base, Next PROVE Base'
  BY <1>2, StepBase DEF Next
<1>3. Init => Base
  BY InitIInv DEF IInv
<1> QED
  BY <1>1, <1>2, <1>3, PTL DEF Spec

(* IInv holds at every point of a shootdown, whatever the CPUs that answer *)
(* are doing and however late their IPIs are.                              *)
LEMMA Invariance == Spec => [](miscounted \/ IInv)
<1>1. ASSUME IInv, UNCHANGED vars PROVE IInv'
  BY <1>1 DEF IInv, Base, vars, handlerVars, shared, ipiVars, TypeOK, LockHeld, AsksOthers,
              Quiet, Answers, Counted, Active, Done
<1>2. ASSUME IInv, Next PROVE miscounted' \/ IInv'
  BY <1>2, StepIInv DEF Next
<1> QED
  BY <1>1, <1>2, InitIInv, MiscountedStays, PTL DEF Spec

(* What tlb.h promises of x86_64_tlb_shootdown, on any number of CPUs, all *)
(* of which may initiate: an answer is counted once and for the shootdown  *)
(* it was given to, and on return no CPU has a translation of the range    *)
(* cached.  IPIs may merge and be late.  The only behaviours excused are   *)
(* those in which the handler ran on a CPU for that CPU's own shootdown.   *)
THEOREM ShootdownIsComplete == Spec => []ShootdownComplete
<1>1. ASSUME IInv PROVE CountedOnce /\ NothingStaleAtReturn
  <2>1. CountedOnce
    <3> SUFFICES ASSUME NEW c \in Cpu, pc[c] \in {"wait", "poll", "ipi"}
                 PROVE  complete_count <= Cardinality({ d \in Cpu : c \notin stale[d] })
      BY DEF CountedOnce
    <3> DEFINE clean == { d \in Cpu : c \notin stale[d] }
    <3>1. Active(c) /\ pc[c] # "invalidate"
      BY DEF Active
    <3>2. Done(c) \subseteq clean
      BY <1>1, <3>1 DEF IInv, Answers, Done
    <3>3. IsFiniteSet(clean)
      <4>1. clean \in SUBSET Cpu
        OBVIOUS
      <4> QED
        BY <4>1, CpuSets
    <3>4. Cardinality(Done(c)) <= Cardinality(clean)
      BY <3>2, <3>3, FS_Subset
    <3> QED
      BY <1>1, <3>1, <3>4 DEF IInv, Counted
  <2>2. NothingStaleAtReturn
    <3> SUFFICES ASSUME NEW c \in Cpu, pc[c] = "unlock", NEW d \in Cpu
                 PROVE  c \notin stale[d]
      BY DEF NothingStaleAtReturn
    <3>1. Active(c) /\ d \in Done(c)
      BY <1>1 DEF IInv, Counted, Active
    <3> QED
      BY <1>1, <3>1 DEF IInv, Answers, Done
  <2> QED
    BY <2>1, <2>2
<1>2. Base => TypeOK
  BY DEF Base
<1> QED
  BY <1>1, <1>2, BaseInvariance, Invariance, PTL DEF ShootdownComplete
============================================================================
