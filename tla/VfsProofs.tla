----------------------------- MODULE VfsProofs ------------------------------
(***************************************************************************)
(* Proofs about module Vfs, for any archive, any paths and names and any   *)
(* number of file systems, nodes and bytes: the trees of the tmpfs and the *)
(* mounts agree, a read returns what was written, and a listing that comes *)
(* to its end has missed nothing.                                          *)
(*                                                                         *)
(* A lookup makes vnodes, and may make a node, while it goes; the second   *)
(* part shows that each turn of its loop leaves the file systems in order  *)
(* (FsOK) and only adds to them (Grows).                                   *)
(***************************************************************************)
EXTENDS Vfs, FiniteSetTheorems, WellFoundedInduction, TLAPS

Root(v) == Vnode(v, DIR, 2, 1)
Table(type) == IF type = DIR THEN DirTable ELSE FileTable
Byte == STRING \union {JUNK, ZERO, "x", "y"}
TmpNodes == [name : Text, parent : Vnodes \union {NONE}, children : Seq(Vnodes), base : Seq(Byte)]

FsTypes(s) ==
  /\ s = [all |-> s.all, mounted |-> s.mounted, cache |-> s.cache, tmp |-> s.tmp, id_counter |-> s.id_counter]
  /\ s.all \in Seq([ops : {RDSK, TMPFS}, mount_point : Vnodes \union {NONE}])
  /\ s.mounted \in [DOMAIN s.mounted -> Nat \union {NONE}] /\ DOMAIN s.mounted \subseteq Vnodes
  /\ s.tmp \in [DOMAIN s.tmp -> TmpNodes] /\ DOMAIN s.tmp \subseteq Vnodes
  /\ s.id_counter \in Seq(Nat) /\ Len(s.id_counter) = Len(s.all)

(* One vnode for every node: of a disk those in its caches, of a tmpfs     *)
(* those of its tree.                                                      *)
NodesKnown(s) ==
  /\ \A n \in DOMAIN s.mounted :
       /\ n.copy = 1 /\ n.vfs \in 1..Len(s.all)
       /\ IF s.all[n.vfs].ops = TMPFS THEN n \in DOMAIN s.tmp
          ELSE n \in s.cache /\ n.index \in 1..Len(Table(n.type))
  /\ \A n \in DOMAIN s.tmp :
       n \in DOMAIN s.mounted /\ s.all[n.vfs].ops = TMPFS /\ n.index \in 2..s.id_counter[n.vfs]
  /\ \A v \in 1..Len(s.all) : s.all[v].ops = TMPFS => Root(v) \in DOMAIN s.tmp

Tree(tmp) ==
  /\ \A n \in DOMAIN tmp :
       IF n.index = 2 THEN n.type = DIR /\ tmp[n].parent = NONE
       ELSE LET p == tmp[n].parent
            IN p \in DOMAIN tmp /\ p.type = DIR /\ \E i \in 1..Len(tmp[p].children) : tmp[p].children[i] = n
  /\ \A d \in DOMAIN tmp : \A i \in 1..Len(tmp[d].children) :
       tmp[d].children[i] \in DOMAIN tmp /\ tmp[tmp[d].children[i]].parent = d
  /\ \A d \in DOMAIN tmp : \A i, j \in 1..Len(tmp[d].children) :
       tmp[tmp[d].children[i]].name = tmp[tmp[d].children[j]].name => i = j
Trees(s) == Tree(s.tmp)

Mounts(s) ==
  /\ \A n \in DOMAIN s.mounted : s.mounted[n] # NONE =>
       /\ s.mounted[n] \in 1..Len(s.all) /\ s.all[s.mounted[n]].mount_point = n
       /\ n.vfs < s.mounted[n] /\ n.type = DIR
  /\ \A v \in 1..Len(s.all) : v > 1 =>
       s.all[v].mount_point \in DOMAIN s.mounted /\ s.mounted[s.all[v].mount_point] = v

FsOK(s) == FsTypes(s) /\ NodesKnown(s) /\ Trees(s) /\ Mounts(s)

(* The buffer of a file has the bytes that were written to it.             *)
Bytes ==
  /\ want = [n \in {m \in DOMAIN fs.tmp : m.type = FILE} |-> want[n]]
  /\ \A n \in DOMAIN want :
       /\ want[n] \in Seq(Byte) /\ Len(want[n]) = Len(fs.tmp[n].base)
       /\ \A i \in 1..Len(want[n]) : want[n][i] \in {fs.tmp[n].base[i], JUNK}

(* The names in front of a reader at the given offset.                     *)
NamesFrom(table, chain, k) == {table[chain[i]].name : i \in {i \in 1..Len(chain) : i > k}}
Ahead(s, n, offset) ==
  LET files == Chain(FileTable, DirTable[n.index].file)
      dirs == Chain(DirTable, DirTable[n.index].dir)
  IN IF IsTmpfs(s, n) THEN NamesFrom(s.tmp, s.tmp[n].children, offset)
     ELSE NamesFrom(FileTable, files, offset) \union NamesFrom(DirTable, dirs, offset - Len(FileTable))

Reading(s, r) ==
  /\ r = [dir |-> r.dir, offset |-> r.offset, seen |-> r.seen, there |-> r.there, done |-> r.done]
  /\ r.dir \in DOMAIN s.mounted /\ r.dir.type = DIR /\ r.offset \in Nat
  /\ r.seen \subseteq Entries(s, r.dir)
  /\ r.there \subseteq r.seen \union (IF r.done THEN {} ELSE Ahead(s, r.dir, r.offset))

VfsInv == FsOK(fs) /\ Bytes /\ (reader # NONE => Reading(fs, reader))
---------------------------------------------------------------------------
(* The lists of an archive.                                                *)

(* The least counterexample stands in for induction.                       *)
LEMMA LeastExists ==
  ASSUME NEW S, S \subseteq Nat, S # {}
  PROVE  \E v \in S : \A u \in S : v <= u
  <1> DEFINE R == OpToRel(<, Nat)
  <1>1. IsWellFoundedOn(R, Nat)
    BY NatLessThanWellFounded
  <1>2. \A x, y \in Nat : x < y => <<x, y>> \in R
    BY DEF OpToRel
  <1> HIDE DEF R
  <1>3. PICK x \in S : \A y \in S : ~ (<<y, x>> \in R)
    BY <1>1, WFMin
  <1>4. \A u \in S : x <= u
    <2> TAKE u \in S
    <2>1. x \in Nat /\ u \in Nat /\ ~(u < x)
      BY <1>2, <1>3
    <2> QED BY <2>1
  <1> QED BY <1>4

(* c is the list that begins at entry i: next_index leads through it.      *)
IsChain(table, i, c) ==
  /\ c \in Seq(1..Len(table))
  /\ IF i = 0 THEN Len(c) = 0 ELSE Len(c) > 0 /\ c[1] = i
  /\ \A q \in 1..Len(c) : table[c[q]].next = IF q < Len(c) THEN c[q + 1] ELSE 0

LEMMA Prepended ==
  ASSUME NEW X, NEW x \in X, NEW c \in Seq(X)
  PROVE  /\ <<x>> \o c \in Seq(X) /\ Len(<<x>> \o c) = Len(c) + 1 /\ Len(c) \in Nat
         /\ (<<x>> \o c)[1] = x /\ \A q \in 1..Len(c) : (<<x>> \o c)[q + 1] = c[q]
  OBVIOUS

LEMMA ChainGrows ==
  ASSUME NEW table, Len(table) \in Nat, Ends(table), NEW i \in 1..Len(table), NEW c,
         IsChain(table, table[i].next, c)
  PROVE  IsChain(table, i, <<i>> \o c)
  <1> DEFINE d == <<i>> \o c
  <1>1. c \in Seq(1..Len(table)) /\ Len(c) \in Nat
    BY DEF IsChain
  <1>2. /\ d \in Seq(1..Len(table)) /\ Len(d) = Len(c) + 1
        /\ d[1] = i /\ \A q \in 1..Len(c) : d[q + 1] = c[q]
    BY <1>1, Prepended
  <1> HIDE DEF d
  <1>3. table[i].next = IF 1 < Len(d) THEN d[2] ELSE 0
    <2>1. CASE Len(c) = 0
      BY <1>2, <2>1 DEF IsChain
    <2>2. CASE Len(c) > 0
      <3>1. table[i].next = c[1]
        BY <2>2 DEF IsChain
      <3>2. d[1 + 1] = c[1]
        BY <1>1, <1>2, <2>2
      <3> QED BY <1>1, <1>2, <2>2, <3>1, <3>2
    <2> QED BY <1>1, <2>1, <2>2
  <1>4. ASSUME NEW q \in 1..Len(d) PROVE table[d[q]].next = IF q < Len(d) THEN d[q + 1] ELSE 0
    <2>1. CASE q = 1
      BY <1>2, <1>3, <2>1
    <2>2. CASE q # 1
      <3>1. q - 1 \in 1..Len(c) /\ (q - 1) + 1 = q /\ (q < Len(d) <=> q - 1 < Len(c))
        BY <1>1, <1>2, <2>2
      <3>2. d[q] = c[q - 1]
        BY <1>2, <3>1
      <3>3. q < Len(d) => d[q + 1] = c[q]
        <4>1. q < Len(d) => q \in 1..Len(c)
          BY <3>1
        <4> QED BY <1>2, <4>1
      <3>4. table[c[q - 1]].next = IF q - 1 < Len(c) THEN c[(q - 1) + 1] ELSE 0
        BY <3>1 DEF IsChain
      <3> QED BY <3>1, <3>2, <3>3, <3>4
    <2> QED BY <2>1, <2>2
  <1>5. IsChain(table, i, d)
    BY <1>1, <1>2, <1>4 DEF IsChain
  <1> QED BY <1>5 DEF d

LEMMA ChainTail ==
  ASSUME NEW table, Len(table) \in Nat, Ends(table), NEW i \in 1..Len(table), NEW c,
         IsChain(table, i, c)
  PROVE  IsChain(table, table[i].next, Tail(c)) /\ c = <<i>> \o Tail(c)
  <1> DEFINE d == Tail(c)
  <1>1. c \in Seq(1..Len(table)) /\ Len(c) \in Nat /\ Len(c) > 0 /\ c[1] = i
    BY DEF IsChain
  <1>2. d \in Seq(1..Len(table)) /\ Len(d) = Len(c) - 1 /\ \A q \in 1..Len(d) : d[q] = c[q + 1]
    BY <1>1
  <1>3. c = <<i>> \o d
    BY <1>1
  <1> HIDE DEF d
  <1>4. ASSUME NEW q \in 1..Len(d) PROVE table[d[q]].next = IF q < Len(d) THEN d[q + 1] ELSE 0
    <2>1. q + 1 \in 1..Len(c) /\ d[q] = c[q + 1] /\ (q < Len(d) <=> q + 1 < Len(c))
      <3>1. q + 1 \in 1..Len(c) /\ (q < Len(d) <=> q + 1 < Len(c))
        <4>1. Len(c) \in Nat /\ Len(d) = Len(c) - 1
          BY <1>1, <1>2
        <4> QED BY <4>1
      <3>2. d[q] = c[q + 1]
        BY <1>2
      <3> QED BY <3>1, <3>2
    <2>2. table[c[q + 1]].next = IF q + 1 < Len(c) THEN c[(q + 1) + 1] ELSE 0
      BY <2>1 DEF IsChain
    <2>3. q < Len(d) => d[q + 1] = c[(q + 1) + 1]
      <3>1. q < Len(d) => q + 1 \in 1..Len(d)
        BY <1>1, <1>2
      <3> QED BY <1>2, <3>1
    <2> QED BY <2>1, <2>2, <2>3
  <1>5. table[i].next = IF 1 < Len(c) THEN c[2] ELSE 0
    <2>1. 1 \in 1..Len(c)
      BY <1>1
    <2>2. table[c[1]].next = IF 1 < Len(c) THEN c[1 + 1] ELSE 0
      BY <2>1 DEF IsChain
    <2> QED BY <1>1, <2>2
  <1>6. IF table[i].next = 0 THEN Len(d) = 0 ELSE Len(d) > 0 /\ d[1] = table[i].next
    <2>1. CASE 1 < Len(c)
      <3>1. c[2] \in 1..Len(table) /\ 1 \in 1..Len(d) /\ d[1] = c[2]
        BY <1>1, <1>2, <2>1
      <3> QED BY <1>1, <1>2, <1>5, <2>1, <3>1
    <2>2. CASE ~(1 < Len(c))
      BY <1>1, <1>2, <1>5, <2>2
    <2> QED BY <2>1, <2>2
  <1>7. IsChain(table, table[i].next, d)
    BY <1>2, <1>4, <1>6 DEF IsChain
  <1> QED BY <1>3, <1>7 DEF d

(* Every entry begins one list.                                            *)
LEMMA ChainExists ==
  ASSUME NEW table, Len(table) \in Nat, Ends(table), NEW k \in 0..Len(table)
  PROVE  \E c : IsChain(table, k, c)
  <1> DEFINE T == {i \in 1..Len(table) : ~\E c : IsChain(table, i, c)}
  <1>1. IsChain(table, 0, <<>>)
    BY DEF IsChain
  <1>2. T = {}
    <2> SUFFICES ASSUME T # {} PROVE FALSE
      OBVIOUS
    <2>1. PICK i \in T : table[i].next \notin T
      BY DEF Ends
    <2>2. i \in 1..Len(table) /\ ~\E c : IsChain(table, i, c)
      OBVIOUS
    <2>3. table[i].next \in 0..Len(table)
      BY <2>2 DEF Ends
    <2>4. \E c : IsChain(table, table[i].next, c)
      <3>1. CASE table[i].next = 0
        BY <1>1, <3>1
      <3>2. CASE table[i].next # 0
        <4>1. table[i].next \in 1..Len(table)
          BY <2>3, <3>2
        <4> QED BY <2>1, <4>1
      <3> QED BY <3>1, <3>2
    <2>5. PICK c : IsChain(table, table[i].next, c)
      BY <2>4
    <2> QED BY <2>2, <2>5, ChainGrows
  <1>3. k = 0 \/ k \in 1..Len(table)
    OBVIOUS
  <1> QED BY <1>1, <1>2, <1>3

LEMMA ChainUnique ==
  ASSUME NEW table, Len(table) \in Nat, Ends(table), NEW k \in 0..Len(table), NEW a, NEW b,
         IsChain(table, k, a), IsChain(table, k, b)
  PROVE  a = b
  <1> DEFINE Two(i) == \E c, d : IsChain(table, i, c) /\ IsChain(table, i, d) /\ c # d
             T == {i \in 1..Len(table) : Two(i)}
  <1>1. ~Two(0)
    <2> SUFFICES ASSUME NEW c, NEW d, IsChain(table, 0, c), IsChain(table, 0, d) PROVE c = d
      OBVIOUS
    <2>1. c \in Seq(1..Len(table)) /\ Len(c) = 0 /\ d \in Seq(1..Len(table)) /\ Len(d) = 0
      BY DEF IsChain
    <2>2. c = <<>> /\ d = <<>>
      BY <2>1
    <2> QED BY <2>2
  <1>2. T = {}
    <2> SUFFICES ASSUME T # {} PROVE FALSE
      OBVIOUS
    <2>1. PICK i \in T : table[i].next \notin T
      <3> HIDE DEF Two
      <3> QED BY DEF Ends
    <2> HIDE DEF Two
    <2>2. i \in 1..Len(table) /\ Two(i)
      OBVIOUS
    <2>3. table[i].next \in 0..Len(table)
      BY <2>2 DEF Ends
    <2>4. ~Two(table[i].next)
      <3>1. CASE table[i].next = 0
        BY <1>1, <3>1
      <3>2. CASE table[i].next # 0
        <4>1. table[i].next \in 1..Len(table)
          BY <2>3, <3>2
        <4> QED BY <2>1, <4>1
      <3> QED BY <3>1, <3>2
    <2>5. PICK c, d : IsChain(table, i, c) /\ IsChain(table, i, d) /\ c # d
      BY <2>2 DEF Two
    <2>6. /\ IsChain(table, table[i].next, Tail(c)) /\ c = <<i>> \o Tail(c)
          /\ IsChain(table, table[i].next, Tail(d)) /\ d = <<i>> \o Tail(d)
      BY <2>2, <2>5, ChainTail
    <2>7. Tail(c) = Tail(d)
      BY <2>4, <2>6 DEF Two
    <2> QED BY <2>5, <2>6, <2>7
  <1>3. k = 0 \/ k \in 1..Len(table)
    OBVIOUS
  <1> QED BY <1>1, <1>2, <1>3

(* Chain, which is defined along next_index, reads that list.              *)
LEMMA ChainReads ==
  ASSUME NEW table, Len(table) \in Nat, Ends(table), NEW k \in 0..Len(table)
  PROVE  IsChain(table, k, Chain(table, k))
  <1> DEFINE N == Len(table)
             Solves(g) == g = [i \in 0..N |-> IF i = 0 THEN <<>> ELSE <<i>> \o g[table[i].next]]
             F == [i \in 0..N |-> CHOOSE c : IsChain(table, i, c)]
             G == CHOOSE g : Solves(g)
  <1>1. ASSUME NEW i \in 0..N PROVE IsChain(table, i, F[i])
    <2>1. \E c : IsChain(table, i, c)
      BY ChainExists
    <2>2. IsChain(table, i, CHOOSE c : IsChain(table, i, c))
      BY <2>1
    <2> QED BY <2>2
  <1> HIDE DEF F
  <1>2. ASSUME NEW i \in 0..N PROVE F[i] = IF i = 0 THEN <<>> ELSE <<i>> \o F[table[i].next]
    <2>1. CASE i = 0
      <3>1. F[0] \in Seq(1..N) /\ Len(F[0]) = 0
        BY <1>1, <2>1 DEF IsChain
      <3> QED BY <2>1, <3>1
    <2>2. CASE i # 0
      <3>1. i \in 1..N
        BY <2>2
      <3>2. IsChain(table, i, F[i])
        BY <1>1
      <3>3. table[i].next \in 0..N
        BY <3>1 DEF Ends
      <3>4. IsChain(table, table[i].next, Tail(F[i])) /\ F[i] = <<i>> \o Tail(F[i])
        BY <3>1, <3>2, ChainTail
      <3>5. IsChain(table, table[i].next, F[table[i].next])
        BY <1>1, <3>3
      <3>6. Tail(F[i]) = F[table[i].next]
        BY <3>3, <3>4, <3>5, ChainUnique
      <3> QED BY <2>2, <3>4, <3>6
    <2> QED BY <2>1, <2>2
  <1>3. Solves(F)
    <2>1. F = [i \in 0..N |-> F[i]]
      BY DEF F
    <2> QED BY <1>2, <2>1
  <1>4. Solves(G)
    <2> HIDE DEF Solves
    <2> QED BY <1>3
  <1>5. Chain(table, k) = G[k]
    BY DEF Chain
  <1> HIDE DEF G
  <1>6. \A i \in 0..N : G[i] = IF i = 0 THEN <<>> ELSE <<i>> \o G[table[i].next]
    BY <1>4
  <1> DEFINE T == {i \in 1..N : ~IsChain(table, i, G[i])}
  <1>7. IsChain(table, 0, G[0])
    <2>1. G[0] = <<>>
      <3>1. 0 \in 0..N
        OBVIOUS
      <3> QED BY <1>6, <3>1
    <2> QED BY <2>1 DEF IsChain
  <1>8. T = {}
    <2> SUFFICES ASSUME T # {} PROVE FALSE
      OBVIOUS
    <2>1. PICK i \in T : table[i].next \notin T
      BY DEF Ends
    <2>2. i \in 1..N /\ ~IsChain(table, i, G[i])
      OBVIOUS
    <2>3. table[i].next \in 0..N
      BY <2>2 DEF Ends
    <2>4. IsChain(table, table[i].next, G[table[i].next])
      <3>1. CASE table[i].next = 0
        BY <1>7, <3>1
      <3>2. CASE table[i].next # 0
        <4>1. table[i].next \in 1..N
          BY <2>3, <3>2
        <4> QED BY <2>1, <4>1
      <3> QED BY <3>1, <3>2
    <2>5. G[i] = <<i>> \o G[table[i].next]
      <3>1. i \in 0..N /\ i # 0
        BY <2>2
      <3> QED BY <1>6, <3>1
    <2> QED BY <2>2, <2>4, <2>5, ChainGrows
  <1>9. k = 0 \/ k \in 1..N
    OBVIOUS
  <1> QED BY <1>5, <1>7, <1>8, <1>9

(* A list has no entry twice, and so no more entries than the table.       *)
LEMMA ChainShort ==
  ASSUME NEW table, Len(table) \in Nat, Ends(table), NEW k, NEW c, IsChain(table, k, c)
  PROVE  Len(c) <= Len(table)
  <1> DEFINE N == Len(table)
  <1>1. c \in Seq(1..N) /\ Len(c) \in Nat
    BY DEF IsChain
  <1>2. ASSUME NEW p \in 1..Len(c), NEW q \in 1..Len(c), c[p] = c[q], p < q PROVE FALSE
    <2> DEFINE T == {c[r] : r \in p..(q - 1)}
    <2>1. T \in SUBSET (1..N) /\ c[p] \in T
      BY <1>1, <1>2
    <2>2. ASSUME NEW x \in T PROVE table[x].next \in T
      <3>1. PICK r \in p..(q - 1) : x = c[r]
        BY <2>2
      <3>2. r \in 1..Len(c) /\ r < Len(c) /\ r + 1 \in p..q
        BY <1>1
      <3>3. table[c[r]].next = c[r + 1]
        BY <3>2 DEF IsChain
      <3>4. CASE r + 1 = q
        BY <1>2, <2>1, <3>1, <3>3, <3>4
      <3>5. CASE r + 1 # q
        <4>1. r + 1 \in p..(q - 1)
          BY <3>2, <3>5
        <4> QED BY <3>1, <3>3, <4>1
      <3> QED BY <3>4, <3>5
    <2> HIDE DEF T
    <2> QED BY <2>1, <2>2 DEF Ends
  <1>3. \A p, q \in 1..Len(c) : c[p] = c[q] => p = q
    <2> SUFFICES ASSUME NEW p \in 1..Len(c), NEW q \in 1..Len(c), c[p] = c[q], p # q PROVE FALSE
      OBVIOUS
    <2>1. p < q \/ q < p
      BY <1>1
    <2> QED BY <1>2, <2>1
  <1>4. c \in Injection(1..Len(c), 1..N)
    BY <1>1, <1>3 DEF Injection, IsInjective
  <1>5. /\ IsFiniteSet(1..Len(c)) /\ IsFiniteSet(1..N)
        /\ Cardinality(1..Len(c)) = Len(c) /\ Cardinality(1..N) = N
    <2>1. \A m \in Nat : IsFiniteSet(1..m) /\ Cardinality(1..m) = m
      <3> TAKE m \in Nat
      <3>1. IsFiniteSet(1..m) /\ Cardinality(1..m) = IF 1 > m THEN 0 ELSE m - 1 + 1
        BY FS_Interval
      <3> QED BY <3>1
    <2> QED BY <1>1, <2>1
  <1>6. Cardinality(1..Len(c)) <= Cardinality(1..N)
    <2> HIDE DEF N
    <2> QED BY <1>4, <1>5, FS_Injection
  <1> QED BY <1>5, <1>6
LEMMA Tables ==
  /\ Len(DirTable) \in Nat /\ Ends(DirTable) /\ Len(FileTable) \in Nat /\ Ends(FileTable)
  /\ ROOT_INDEX \in 1..Len(DirTable)
  /\ \A i \in 1..Len(DirTable) :
       /\ DirTable[i].name \in Text /\ DirTable[i].file \in 0..Len(FileTable)
       /\ DirTable[i].dir \in 0..Len(DirTable) /\ DirTable[i].parent \in 0..Len(DirTable)
  /\ \A i \in 1..Len(FileTable) : FileTable[i].name \in Text /\ FileTable[i].data \in Seq(Text)
  <1> DEFINE dirs == 0..Len(DirTable)
             Dir == [name : Text, file : 0..Len(FileTable), dir : dirs, next : dirs, parent : dirs]
             File == [name : Text, data : Seq(Text), next : 0..Len(FileTable), parent : dirs]
  <1>1. /\ DirTable \in Seq(Dir) /\ FileTable \in Seq(File)
        /\ ROOT_INDEX \in 1..Len(DirTable) /\ Ends(DirTable) /\ Ends(FileTable)
    BY RdskAssumption
  <1>2. /\ Len(DirTable) \in Nat /\ Len(FileTable) \in Nat
        /\ \A i \in 1..Len(DirTable) : DirTable[i] \in Dir
        /\ \A i \in 1..Len(FileTable) : FileTable[i] \in File
    <2> HIDE DEF Dir, File
    <2> QED BY <1>1
  <1> QED BY <1>1, <1>2

(* find_dir and find_file return an index of the table or 0.               *)
LEMMA FindFacts ==
  ASSUME NEW table, Len(table) \in Nat, Ends(table), NEW k \in 0..Len(table), NEW name
  PROVE  find(table, k, name) \in 0..Len(table)
  <1> DEFINE c == Chain(table, k)
             hits == {q \in DOMAIN c : table[c[q]].name = name}
             Least == CHOOSE q \in hits : \A l \in hits : q <= l
  <1>1. c \in Seq(1..Len(table)) /\ DOMAIN c = 1..Len(c) /\ Len(c) \in Nat
    <2>1. IsChain(table, k, c)
      BY ChainReads
    <2> HIDE DEF c
    <2> QED BY <2>1 DEF IsChain
  <1>2. find(table, k, name) = IF hits = {} THEN 0 ELSE c[Least]
    BY DEF find
  <1> HIDE DEF c
  <1>3. ASSUME hits # {} PROVE Least \in hits
    <2>1. hits \subseteq Nat
      BY <1>1
    <2> HIDE DEF hits
    <2>2. \E q \in hits : \A l \in hits : q <= l
      BY <1>3, <2>1, LeastExists
    <2> QED BY <2>2
  <1>4. ASSUME hits # {} PROVE c[Least] \in 1..Len(table)
    <2>1. Least \in 1..Len(c)
      BY <1>1, <1>3, <1>4
    <2> HIDE DEF Least
    <2> QED BY <1>1, <2>1
  <1> HIDE DEF hits, Least
  <1>5. CASE hits = {}
    BY <1>2, <1>5
  <1>6. CASE hits # {}
    <2>1. c[Least] \in 0..Len(table)
      BY <1>4, <1>6
    <2> QED BY <1>2, <1>6, <2>1
  <1> QED BY <1>5, <1>6
---------------------------------------------------------------------------
(* Adding to the file systems.                                             *)

(* t is s with more file systems, more vnodes, more nodes and more         *)
(* children in front of those that a directory has.                        *)
Shifted(c, d) == \E k \in Nat : Len(d) = Len(c) + k /\ \A i \in 1..Len(c) : d[i + k] = c[i]

Grows(s, t) ==
  /\ Len(s.all) <= Len(t.all) /\ \A v \in 1..Len(s.all) : t.all[v].ops = s.all[v].ops
  /\ DOMAIN s.mounted \subseteq DOMAIN t.mounted /\ DOMAIN s.tmp \subseteq DOMAIN t.tmp
  /\ \A n \in DOMAIN s.tmp : /\ t.tmp[n].name = s.tmp[n].name /\ t.tmp[n].base = s.tmp[n].base
                             /\ Shifted(s.tmp[n].children, t.tmp[n].children)
  /\ \A n \in DOMAIN t.tmp \ DOMAIN s.tmp : t.tmp[n].base = <<>>

(* What an operation leaves behind, and the vnode it may return.           *)
Keeps(s, r) ==
  /\ r = [s |-> r.s, res |-> r.res, node |-> r.node]
  /\ FsOK(r.s) /\ Grows(s, r.s) /\ r.s.all = s.all
Returns(s, r) == Keeps(s, r) /\ (r.res = "OK" => r.node \in DOMAIN r.s.mounted)

LEMMA TmpFacts ==
  ASSUME NEW s, FsTypes(s), NEW n \in DOMAIN s.tmp
  PROVE  /\ n \in Vnodes
         /\ s.tmp[n] \in TmpNodes /\ s.tmp[n].name \in Text /\ s.tmp[n].base \in Seq(Byte)
         /\ s.tmp[n].children \in Seq(Vnodes) /\ Len(s.tmp[n].children) \in Nat
         /\ s.tmp[n].parent \in Vnodes \union {NONE}
  <1>1. s.tmp[n] \in TmpNodes /\ n \in Vnodes
    BY DEF FsTypes
  <1>2. /\ s.tmp[n].name \in Text /\ s.tmp[n].base \in Seq(Byte)
        /\ s.tmp[n].children \in Seq(Vnodes) /\ s.tmp[n].parent \in Vnodes \union {NONE}
    BY <1>1 DEF TmpNodes
  <1>3. Len(s.tmp[n].children) \in Nat
    BY <1>2
  <1> QED BY <1>1, <1>2, <1>3

LEMMA ShiftedSame ==
  ASSUME NEW c, Len(c) \in Nat PROVE Shifted(c, c)
  <1>1. 0 \in Nat /\ Len(c) = Len(c) + 0 /\ \A i \in 1..Len(c) : c[i + 0] = c[i]
    OBVIOUS
  <1> QED BY <1>1 DEF Shifted

LEMMA GrowsSame ==
  ASSUME NEW s, FsTypes(s) PROVE Grows(s, s)
  <1>1. Len(s.all) \in Nat
    BY DEF FsTypes
  <1>2. \A n \in DOMAIN s.tmp : Shifted(s.tmp[n].children, s.tmp[n].children)
    BY TmpFacts, ShiftedSame
  <1> QED BY <1>1, <1>2 DEF Grows

LEMMA ShiftedMore ==
  ASSUME NEW c, NEW d, NEW e, Len(c) \in Nat, Shifted(c, d), Shifted(d, e)
  PROVE  Shifted(c, e)
  <1>1. PICK k \in Nat : Len(d) = Len(c) + k /\ \A i \in 1..Len(c) : d[i + k] = c[i]
    BY DEF Shifted
  <1>2. PICK l \in Nat : Len(e) = Len(d) + l /\ \A i \in 1..Len(d) : e[i + l] = d[i]
    BY DEF Shifted
  <1>3. k + l \in Nat /\ Len(e) = Len(c) + (k + l)
    BY <1>1, <1>2
  <1>4. ASSUME NEW i \in 1..Len(c) PROVE e[i + (k + l)] = c[i]
    <2>1. i + k \in 1..Len(d) /\ (i + k) + l = i + (k + l)
      BY <1>1
    <2>2. e[(i + k) + l] = d[i + k] /\ d[i + k] = c[i]
      BY <1>1, <1>2, <2>1
    <2> QED BY <2>1, <2>2
  <1> QED BY <1>3, <1>4 DEF Shifted

LEMMA GrowsMore ==
  ASSUME NEW s, NEW t, NEW u, FsTypes(s), FsTypes(t), FsTypes(u), Grows(s, t), Grows(t, u)
  PROVE  Grows(s, u)
  <1>1. Len(s.all) \in Nat /\ Len(t.all) \in Nat /\ Len(u.all) \in Nat
    BY DEF FsTypes
  <1>2. Len(s.all) <= Len(u.all) /\ \A v \in 1..Len(s.all) : u.all[v].ops = s.all[v].ops
    <2>1. Len(s.all) <= Len(t.all) /\ Len(t.all) <= Len(u.all)
      BY DEF Grows
    <2>2. \A v \in 1..Len(s.all) : v \in 1..Len(t.all)
      BY <1>1, <2>1
    <2> QED BY <1>1, <2>1, <2>2 DEF Grows
  <1>3. DOMAIN s.mounted \subseteq DOMAIN u.mounted /\ DOMAIN s.tmp \subseteq DOMAIN u.tmp
    BY DEF Grows
  <1>4. ASSUME NEW n \in DOMAIN s.tmp
        PROVE  /\ u.tmp[n].name = s.tmp[n].name /\ u.tmp[n].base = s.tmp[n].base
               /\ Shifted(s.tmp[n].children, u.tmp[n].children)
    <2>1. n \in DOMAIN t.tmp
      BY DEF Grows
    <2>2. /\ t.tmp[n].name = s.tmp[n].name /\ t.tmp[n].base = s.tmp[n].base
          /\ Shifted(s.tmp[n].children, t.tmp[n].children)
          /\ u.tmp[n].name = t.tmp[n].name /\ u.tmp[n].base = t.tmp[n].base
          /\ Shifted(t.tmp[n].children, u.tmp[n].children)
      BY <2>1 DEF Grows
    <2>3. Len(s.tmp[n].children) \in Nat
      BY TmpFacts
    <2> QED BY <2>2, <2>3, ShiftedMore
  <1>5. ASSUME NEW n \in DOMAIN u.tmp \ DOMAIN s.tmp PROVE u.tmp[n].base = <<>>
    <2>1. CASE n \in DOMAIN t.tmp
      BY <2>1 DEF Grows
    <2>2. CASE n \notin DOMAIN t.tmp
      BY <2>2 DEF Grows
    <2> QED BY <2>1, <2>2
  <1> QED BY <1>2, <1>3, <1>4, <1>5 DEF Grows

LEMMA KeepsMore ==
  ASSUME NEW s, FsOK(s), NEW r, Keeps(s, r), NEW q
  PROVE  /\ Keeps(r.s, q) => Keeps(s, q)
         /\ Returns(r.s, q) => Returns(s, q)
  <1>1. Keeps(r.s, q) => Keeps(s, q)
    BY GrowsMore DEF Keeps, FsOK
  <1> QED BY <1>1 DEF Returns

LEMMA KeepsSame ==
  ASSUME NEW s, FsOK(s), NEW res, NEW node
  PROVE  /\ Keeps(s, Result(s, res, node))
         /\ (res = "OK" => node \in DOMAIN s.mounted) => Returns(s, Result(s, res, node))
  BY GrowsSame DEF Keeps, Returns, Result, FsOK
---------------------------------------------------------------------------
(* Vnodes of a disk.                                                       *)

LEMMA VnodeFacts ==
  ASSUME NEW v \in Nat, NEW type \in {DIR, FILE}, NEW index \in Nat
  PROVE  LET n == Vnode(v, type, index, 1)
         IN n \in Vnodes /\ n.vfs = v /\ n.type = type /\ n.index = index /\ n.copy = 1
  BY DEF Vnode, Vnodes

(* A vnode is told by these three.                                         *)
LEMMA VnodeIs ==
  ASSUME NEW s, FsOK(s), NEW n \in DOMAIN s.mounted
  PROVE  n = Vnode(n.vfs, n.type, n.index, 1)
  <1>1. n \in Vnodes /\ n.copy = 1
    BY DEF FsOK, FsTypes, NodesKnown
  <1> QED BY <1>1 DEF Vnode, Vnodes

LEMMA NodeFacts ==
  ASSUME NEW s, FsOK(s), NEW n \in DOMAIN s.mounted
  PROVE  /\ n \in Vnodes /\ n.vfs \in 1..Len(s.all) /\ n.type \in {DIR, FILE} /\ n.index \in Nat
         /\ Len(s.all) \in Nat /\ s.all[n.vfs].ops \in {RDSK, TMPFS}
         /\ IsTmpfs(s, n) => n \in DOMAIN s.tmp
         /\ ~IsTmpfs(s, n) => n \in s.cache /\ n.index \in 1..Len(Table(n.type))
  <1>1. n \in Vnodes /\ n.vfs \in 1..Len(s.all) /\ Len(s.all) \in Nat
    BY DEF FsOK, FsTypes, NodesKnown
  <1>2. n.type \in {DIR, FILE} /\ n.index \in Nat
    BY <1>1 DEF Vnodes
  <1>3. s.all[n.vfs].ops \in {RDSK, TMPFS}
    <2> DEFINE V == [ops : {RDSK, TMPFS}, mount_point : Vnodes \union {NONE}]
    <2>1. s.all \in Seq(V)
      BY DEF FsOK, FsTypes
    <2>2. s.all[n.vfs] \in V
      <3> HIDE DEF V
      <3> QED BY <1>1, <2>1
    <2> QED BY <2>2
  <1> QED BY <1>1, <1>2, <1>3 DEF FsOK, NodesKnown, IsTmpfs

LEMMA WithVnodeFields ==
  ASSUME NEW s, FsTypes(s), NEW n, NEW w, w = WithVnode(s, n)
  PROVE  /\ w = [all |-> w.all, mounted |-> w.mounted, cache |-> w.cache, tmp |-> w.tmp,
                 id_counter |-> w.id_counter]
         /\ w.all = s.all /\ w.cache = s.cache /\ w.tmp = s.tmp /\ w.id_counter = s.id_counter
         /\ w.mounted = [m \in DOMAIN w.mounted |-> w.mounted[m]]
         /\ DOMAIN w.mounted = DOMAIN s.mounted \union {n} /\ w.mounted[n] = NONE
         /\ \A m \in DOMAIN s.mounted : m # n => w.mounted[m] = s.mounted[m]
  <1>1. s = [all |-> s.all, mounted |-> s.mounted, cache |-> s.cache, tmp |-> s.tmp, id_counter |-> s.id_counter]
    BY DEF FsTypes
  <1> QED BY <1>1 DEF WithVnode

LEMMA SameTrees ==
  ASSUME NEW s, NEW t, Trees(s), t.tmp = s.tmp
  PROVE  Trees(t)
  BY DEF Trees

(* A new vnode of a disk, in the cache.                                    *)
LEMMA VnodeAdded ==
  ASSUME NEW s, FsOK(s), NEW v \in 1..Len(s.all), s.all[v].ops # TMPFS,
         NEW type \in {DIR, FILE}, NEW index \in 1..Len(Table(type)),
         NEW n, n = Vnode(v, type, index, 1), n \notin DOMAIN s.mounted,
         NEW t, t = [WithVnode(s, n) EXCEPT !.cache = @ \union {n}]
  PROVE  FsOK(t) /\ Grows(s, t) /\ t.all = s.all /\ t.tmp = s.tmp /\ n \in DOMAIN t.mounted
  <1>0. FsTypes(s) /\ NodesKnown(s) /\ Trees(s) /\ Mounts(s) /\ Len(s.all) \in Nat
    BY DEF FsOK, FsTypes
  <1>1. /\ t = [all |-> t.all, mounted |-> t.mounted, cache |-> t.cache, tmp |-> t.tmp, id_counter |-> t.id_counter]
        /\ t.all = s.all /\ t.tmp = s.tmp /\ t.id_counter = s.id_counter
        /\ t.cache = s.cache \union {n}
        /\ t.mounted = [m \in DOMAIN s.mounted \union {n} |-> IF m = n THEN NONE ELSE s.mounted[m]]
    BY <1>0 DEF FsTypes, WithVnode
  <1>2. n \in Vnodes /\ n.vfs = v /\ n.type = type /\ n.index = index /\ n.copy = 1
    <2>1. v \in Nat /\ index \in Nat
      BY <1>0, Tables DEF Table
    <2> QED BY <2>1, VnodeFacts
  <1>3. /\ DOMAIN t.mounted = DOMAIN s.mounted \union {n} /\ t.mounted[n] = NONE
        /\ \A m \in DOMAIN s.mounted : t.mounted[m] = s.mounted[m]
    BY <1>1
  <1>4. FsTypes(t)
    <2>1. t.mounted \in [DOMAIN t.mounted -> Nat \union {NONE}]
      BY <1>0, <1>1 DEF FsTypes
    <2>2. DOMAIN t.mounted \subseteq Vnodes
      BY <1>0, <1>2, <1>3 DEF FsTypes
    <2> QED BY <1>0, <1>1, <2>1, <2>2 DEF FsTypes
  <1>5. NodesKnown(t)
    <2>1. ASSUME NEW m \in DOMAIN t.mounted
          PROVE  /\ m.copy = 1 /\ m.vfs \in 1..Len(t.all)
                 /\ IF t.all[m.vfs].ops = TMPFS THEN m \in DOMAIN t.tmp
                    ELSE m \in t.cache /\ m.index \in 1..Len(Table(m.type))
      <3>1. CASE m = n
        BY <1>1, <1>2, <3>1
      <3>2. CASE m # n
        BY <1>0, <1>1, <1>3, <3>2 DEF NodesKnown
      <3> QED BY <3>1, <3>2
    <2> QED BY <1>0, <1>1, <1>3, <2>1 DEF NodesKnown
  <1>6. Trees(t)
    <2>1. t.tmp = s.tmp
      BY <1>1
    <2> QED BY <1>0, <2>1, SameTrees
  <1>7. Mounts(t)
    <2>1. \A m \in DOMAIN t.mounted : t.mounted[m] # NONE => m \in DOMAIN s.mounted
      BY <1>3
    <2> QED BY <1>0, <1>1, <1>3, <2>1 DEF Mounts
  <1>8. Grows(s, t)
    <2>1. Grows(s, s)
      BY <1>0, GrowsSame
    <2> QED BY <1>1, <1>3, <2>1 DEF Grows
  <1> QED BY <1>1, <1>3, <1>4, <1>5, <1>6, <1>7, <1>8 DEF FsOK

LEMMA GetNode ==
  ASSUME NEW s, FsOK(s), NEW v \in 1..Len(s.all), s.all[v].ops # TMPFS,
         NEW type \in {DIR, FILE}, NEW index \in 1..Len(Table(type))
  PROVE  /\ Returns(s, get_vfs_node(s, v, type, index))
         /\ get_vfs_node(s, v, type, index).res = "OK"
         /\ get_vfs_node(s, v, type, index).node = Vnode(v, type, index, 1)
         /\ get_vfs_node(s, v, type, index).s.tmp = s.tmp
  <1> DEFINE made == {n \in DOMAIN s.mounted : n.vfs = v /\ n.type = type /\ n.index = index}
             cached == made \intersect s.cache
             m == Vnode(v, type, index, 1)
             t == [WithVnode(s, m) EXCEPT !.cache = @ \union {m}]
  <1>1. \A n \in made : n = m /\ n \in s.cache
    <2> TAKE n \in made
    <2>1. n \in DOMAIN s.mounted /\ n.vfs = v /\ n.type = type /\ n.index = index
      OBVIOUS
    <2>2. n = m
      BY <2>1, VnodeIs
    <2> QED BY <2>1, <2>2, NodeFacts DEF IsTmpfs
  <1>2. CASE cached # {}
    <2>1. (CHOOSE c \in cached : TRUE) = m
      BY <1>1, <1>2
    <2>2. get_vfs_node(s, v, type, index) = Result(s, "OK", m)
      BY <1>2, <2>1 DEF get_vfs_node
    <2>3. m \in DOMAIN s.mounted
      BY <1>1, <1>2
    <2> HIDE DEF m
    <2>4. Returns(s, Result(s, "OK", m))
      BY <2>3, KeepsSame
    <2> QED BY <2>2, <2>4 DEF Result, m
  <1>3. CASE cached = {}
    <2>1. made = {}
      BY <1>1, <1>3
    <2>2. Cardinality(made) + 1 = 1
      <3>1. Cardinality(made) = 0
        <4> HIDE DEF made
        <4> QED BY <2>1, FS_EmptySet
      <3> QED BY <3>1
    <2>3. get_vfs_node(s, v, type, index) = Result(t, "OK", m)
      <3> DEFINE n == Vnode(v, type, index, Cardinality(made) + 1)
      <3>1. get_vfs_node(s, v, type, index)
              = IF cached # {} THEN Result(s, "OK", CHOOSE c \in cached : TRUE)
                ELSE Result([WithVnode(s, n) EXCEPT !.cache = @ \union {n}], "OK", n)
        BY DEF get_vfs_node
      <3>2. n = m
        BY <2>2
      <3> HIDE DEF n, m, made, cached
      <3> QED BY <1>3, <3>1, <3>2
    <2>4. m \notin DOMAIN s.mounted
      <3>1. v \in Nat /\ index \in Nat
        BY Tables DEF FsOK, FsTypes, Table
      <3>2. m.vfs = v /\ m.type = type /\ m.index = index
        BY <3>1, VnodeFacts
      <3> HIDE DEF m
      <3> QED BY <2>1, <3>2
    <2>5. FsOK(t) /\ Grows(s, t) /\ t.all = s.all /\ t.tmp = s.tmp /\ m \in DOMAIN t.mounted
      <3> HIDE DEF t, m
      <3> QED BY <2>4, VnodeAdded DEF t, m
    <2> HIDE DEF t, m
    <2> QED BY <2>3, <2>5 DEF Returns, Keeps, Result, m
  <1> QED BY <1>2, <1>3
---------------------------------------------------------------------------
(* Nodes of a tmpfs.                                                       *)

(* dir_find returns a child, and none only if there is none of that name.  *)
LEMMA DirFind ==
  ASSUME NEW s, FsOK(s), NEW d \in DOMAIN s.tmp, NEW name
  PROVE  /\ dir_find(s, d, name) = NONE =>
              \A i \in 1..Len(s.tmp[d].children) : s.tmp[s.tmp[d].children[i]].name # name
         /\ dir_find(s, d, name) # NONE => dir_find(s, d, name) \in DOMAIN s.tmp
  <1> DEFINE c == s.tmp[d].children
             hits == {i \in DOMAIN c : s.tmp[c[i]].name = name}
             Least == CHOOSE i \in hits : \A j \in hits : i <= j
  <1>1. c \in Seq(Vnodes) /\ Len(c) \in Nat /\ DOMAIN c = 1..Len(c)
    <2>1. c \in Seq(Vnodes)
      BY TmpFacts DEF FsOK
    <2> HIDE DEF c
    <2> QED BY <2>1
  <1>2. \A i \in 1..Len(c) : c[i] \in DOMAIN s.tmp /\ c[i] \in Vnodes
    <2>1. \A i \in 1..Len(c) : c[i] \in DOMAIN s.tmp
      BY DEF FsOK, Trees, Tree
    <2> QED BY <2>1, TmpFacts DEF FsOK
  <1>3. dir_find(s, d, name) = IF hits = {} THEN NONE ELSE c[Least]
    BY DEF dir_find
  <1> HIDE DEF c
  <1>4. ASSUME hits # {} PROVE Least \in 1..Len(c)
    <2>1. hits \subseteq Nat
      BY <1>1
    <2>2. Least \in hits
      <3> HIDE DEF hits
      <3>1. \E q \in hits : \A l \in hits : q <= l
        BY <1>4, <2>1, LeastExists
      <3> QED BY <3>1
    <2> HIDE DEF Least
    <2> QED BY <1>1, <2>2
  <1>5. CASE hits = {}
    <2>1. dir_find(s, d, name) = NONE
      BY <1>3, <1>5
    <2>2. \A i \in 1..Len(c) : s.tmp[c[i]].name # name
      BY <1>1, <1>5
    <2> QED BY <2>1, <2>2 DEF c
  <1>6. CASE hits # {}
    <2>1. c[Least] \in DOMAIN s.tmp /\ c[Least] \in Vnodes
      BY <1>2, <1>4, <1>6
    <2>2. c[Least] # NONE
      BY <2>1, NoneAssumption
    <2> QED BY <1>3, <1>6, <2>1, <2>2
  <1> QED BY <1>5, <1>6

(* A new node becomes the first child of a directory without one of that   *)
(* name.                                                                   *)
LEMMA NodeMade ==
  ASSUME NEW s, FsOK(s), NEW p \in DOMAIN s.tmp, p.type = DIR, NEW type \in {DIR, FILE}, NEW name \in Text,
         \A i \in 1..Len(s.tmp[p].children) : s.tmp[s.tmp[p].children[i]].name # name
  PROVE  Returns(s, make_tmpfs_node(s, p, p.vfs, type, name))
  <1> DEFINE v == p.vfs
             id == s.id_counter[v] + 1
             n == Vnode(v, type, id, 1)
             r == make_tmpfs_node(s, p, p.vfs, type, name)
             t == r.s
             node == [name |-> name, parent |-> p, children |-> <<>>, base |-> <<>>]
             grown == [s.tmp EXCEPT ![p].children = <<n>> \o @]
  <1>0. FsTypes(s) /\ NodesKnown(s) /\ Trees(s) /\ Mounts(s) /\ Len(s.all) \in Nat
    BY DEF FsOK, FsTypes
  <1>p. /\ p \in DOMAIN s.mounted /\ p \in Vnodes /\ p # NONE /\ v \in 1..Len(s.all)
        /\ s.all[v].ops = TMPFS
    BY <1>0, NodeFacts, NoneAssumption DEF NodesKnown
  <1>i. /\ s.id_counter \in Seq(Nat) /\ v \in 1..Len(s.id_counter) /\ s.id_counter[v] \in Nat
        /\ id \in Nat /\ v \in Nat /\ v \in DOMAIN s.id_counter
    <2>1. s.id_counter \in Seq(Nat) /\ v \in 1..Len(s.id_counter)
      BY <1>0, <1>p DEF FsTypes
    <2>2. s.id_counter[v] \in Nat /\ v \in Nat /\ v \in DOMAIN s.id_counter
      BY <1>0, <1>p, <2>1
    <2> QED BY <2>1, <2>2
  <1>n. n \in Vnodes /\ n.vfs = v /\ n.type = type /\ n.index = id /\ n.copy = 1
    <2> HIDE DEF id, v
    <2> QED BY <1>i, VnodeFacts
  <1>1. r = Result([WithVnode(s, n) EXCEPT
                      !.id_counter[v] = id,
                      !.tmp = [m \in DOMAIN @ \union {n} |-> IF m = n THEN node ELSE grown[m]]], "OK", n)
    BY <1>p DEF make_tmpfs_node
  <1> HIDE DEF n, r
  <1>2. r = [s |-> t, res |-> r.res, node |-> r.node] /\ r.res = "OK" /\ r.node = n
    BY <1>1 DEF Result
  <1>3. /\ t = [all |-> t.all, mounted |-> t.mounted, cache |-> t.cache, tmp |-> t.tmp, id_counter |-> t.id_counter]
        /\ t.all = s.all /\ t.cache = s.cache
        /\ t.id_counter = [s.id_counter EXCEPT ![v] = id]
        /\ t.mounted = [m \in DOMAIN t.mounted |-> t.mounted[m]]
        /\ DOMAIN t.mounted = DOMAIN s.mounted \union {n} /\ t.mounted[n] = NONE
        /\ \A m \in DOMAIN s.mounted : m # n => t.mounted[m] = s.mounted[m]
        /\ t.tmp = [m \in DOMAIN s.tmp \union {n} |-> IF m = n THEN node ELSE grown[m]]
    <2> HIDE DEF node, grown, id, v
    <2>1. t = [WithVnode(s, n) EXCEPT
                 !.id_counter[v] = id,
                 !.tmp = [m \in DOMAIN @ \union {n} |-> IF m = n THEN node ELSE grown[m]]]
      BY <1>1 DEF Result
    <2> DEFINE w == WithVnode(s, n)
    <2>2. /\ w = [all |-> w.all, mounted |-> w.mounted, cache |-> w.cache, tmp |-> w.tmp, id_counter |-> w.id_counter]
          /\ w.all = s.all /\ w.cache = s.cache /\ w.tmp = s.tmp /\ w.id_counter = s.id_counter
          /\ w.mounted = [m \in DOMAIN w.mounted |-> w.mounted[m]]
          /\ DOMAIN w.mounted = DOMAIN s.mounted \union {n} /\ w.mounted[n] = NONE
          /\ \A m \in DOMAIN s.mounted : m # n => w.mounted[m] = s.mounted[m]
      <3> HIDE DEF t, w
      <3>1. w = WithVnode(s, n)
        BY DEF w
      <3> QED BY <1>0, <3>1, WithVnodeFields
    <2> HIDE DEF t, w
    <2>3. t = [w EXCEPT !.id_counter[v] = id,
                        !.tmp = [m \in DOMAIN @ \union {n} |-> IF m = n THEN node ELSE grown[m]]]
      BY <2>1 DEF w
    <2> DEFINE P == [m \in DOMAIN s.tmp \union {n} |-> IF m = n THEN node ELSE grown[m]]
    <2>4. t = [w EXCEPT !.id_counter = [s.id_counter EXCEPT ![v] = id], !.tmp = P]
      BY <2>2, <2>3
    <2> HIDE DEF P
    <2>5. /\ t = [all |-> t.all, mounted |-> t.mounted, cache |-> t.cache, tmp |-> t.tmp, id_counter |-> t.id_counter]
          /\ t.all = w.all /\ t.cache = w.cache /\ t.mounted = w.mounted /\ t.tmp = P
          /\ t.id_counter = [s.id_counter EXCEPT ![v] = id]
      BY <2>2, <2>4
    <2> QED BY <2>2, <2>5 DEF P
  <1> HIDE DEF t
  <1>4. n \notin DOMAIN s.mounted
    <2> SUFFICES ASSUME n \in DOMAIN s.mounted PROVE FALSE
      OBVIOUS
    <2>1. n \in DOMAIN s.tmp
      BY <1>0, <1>p, <1>n DEF NodesKnown
    <2>2. n.index \in 2..s.id_counter[v]
      BY <1>0, <1>n, <2>1 DEF NodesKnown
    <2> QED BY <1>i, <1>n, <2>2
  <1>5. /\ DOMAIN t.mounted = DOMAIN s.mounted \union {n} /\ t.mounted[n] = NONE
        /\ \A m \in DOMAIN s.mounted : t.mounted[m] = s.mounted[m]
    BY <1>3, <1>4
  <1>6. n \notin DOMAIN s.tmp /\ DOMAIN t.tmp = DOMAIN s.tmp \union {n} /\ t.tmp[n] = node
    BY <1>0, <1>3, <1>4 DEF NodesKnown
  <1>7. ASSUME NEW m \in DOMAIN s.tmp
        PROVE  /\ t.tmp[m].name = s.tmp[m].name /\ t.tmp[m].parent = s.tmp[m].parent
               /\ t.tmp[m].base = s.tmp[m].base /\ t.tmp[m] \in TmpNodes
               /\ t.tmp[m].children = IF m = p THEN <<n>> \o s.tmp[m].children ELSE s.tmp[m].children
    <2>1. t.tmp[m] = IF m = p THEN [s.tmp[m] EXCEPT !.children = <<n>> \o @] ELSE s.tmp[m]
      <3>1. t.tmp[m] = grown[m]
        BY <1>3, <1>6
      <3>2. s.tmp = [x \in DOMAIN s.tmp |-> s.tmp[x]]
        BY <1>0 DEF FsTypes
      <3> QED BY <3>1, <3>2
    <2>2. s.tmp[m] \in TmpNodes /\ s.tmp[m].children \in Seq(Vnodes)
      BY <1>0, TmpFacts
    <2>3. <<n>> \o s.tmp[m].children \in Seq(Vnodes)
      BY <1>n, <2>2, Prepended
    <2> QED BY <2>1, <2>2, <2>3 DEF TmpNodes
  <1>8. t.tmp[n] \in TmpNodes /\ t.tmp[n].name = name /\ t.tmp[n].parent = p
        /\ t.tmp[n].children = <<>> /\ t.tmp[n].base = <<>> /\ Len(t.tmp[n].children) = 0
    BY <1>6, <1>p DEF TmpNodes
  <1> DEFINE c == s.tmp[p].children
             d == t.tmp[p].children
  <1>9. /\ c \in Seq(Vnodes) /\ Len(c) \in Nat /\ d = <<n>> \o c /\ Len(d) = Len(c) + 1 /\ d[1] = n
        /\ \A i \in 1..Len(c) : d[i + 1] = c[i]
    <2>1. c \in Seq(Vnodes) /\ Len(c) \in Nat /\ d = <<n>> \o c
      BY <1>0, <1>7, TmpFacts
    <2> HIDE DEF c, d
    <2> QED BY <1>n, <2>1, Prepended
  <1> HIDE DEF c, d, node, grown
  <1>10. \A i \in 1..Len(d) : i = 1 \/ (i - 1 \in 1..Len(c) /\ d[i] = c[i - 1])
    <2> TAKE i \in 1..Len(d)
    <2>1. CASE i # 1
      <3>1. i - 1 \in 1..Len(c) /\ (i - 1) + 1 = i
        BY <1>9, <2>1
      <3> QED BY <1>9, <3>1
    <2> QED BY <2>1
  <1>11. FsTypes(t)
    <2>1. t.mounted \in [DOMAIN t.mounted -> Nat \union {NONE}] /\ DOMAIN t.mounted \subseteq Vnodes
      BY <1>0, <1>n, <1>3, <1>5 DEF FsTypes
    <2>2. t.tmp \in [DOMAIN t.tmp -> TmpNodes] /\ DOMAIN t.tmp \subseteq Vnodes
      BY <1>0, <1>n, <1>3, <1>6, <1>7, <1>8 DEF FsTypes
    <2>3. t.id_counter \in Seq(Nat) /\ Len(t.id_counter) = Len(t.all)
      BY <1>0, <1>3, <1>i DEF FsTypes
    <2> QED BY <1>0, <1>3, <2>1, <2>2, <2>3 DEF FsTypes
  <1>12. NodesKnown(t)
    <2>1. \A m \in DOMAIN t.mounted :
            /\ m.copy = 1 /\ m.vfs \in 1..Len(t.all)
            /\ IF t.all[m.vfs].ops = TMPFS THEN m \in DOMAIN t.tmp
               ELSE m \in t.cache /\ m.index \in 1..Len(Table(m.type))
      BY <1>0, <1>p, <1>n, <1>3, <1>5, <1>6 DEF NodesKnown
    <2>2. ASSUME NEW m \in DOMAIN t.tmp
          PROVE  m \in DOMAIN t.mounted /\ t.all[m.vfs].ops = TMPFS /\ m.index \in 2..t.id_counter[m.vfs]
      <3>1. CASE m = n
        <4>1. p.index \in 2..s.id_counter[v]
          BY <1>0 DEF NodesKnown
        <4>2. t.id_counter[v] = id /\ id \in 2..id
          BY <1>i, <1>3, <4>1
        <4> QED BY <1>p, <1>n, <1>3, <1>5, <3>1, <4>2
      <3>2. CASE m # n
        <4>1. /\ m \in DOMAIN s.tmp /\ m \in DOMAIN s.mounted /\ s.all[m.vfs].ops = TMPFS
              /\ m.index \in 2..s.id_counter[m.vfs] /\ m.vfs \in 1..Len(s.all)
          BY <1>0, <1>6, <3>2 DEF NodesKnown
        <4>2. t.id_counter[m.vfs] \in Nat /\ s.id_counter[m.vfs] <= t.id_counter[m.vfs] /\ s.id_counter[m.vfs] \in Nat
          BY <1>0, <1>i, <1>3, <4>1 DEF FsTypes
        <4>3. m.index \in 2..t.id_counter[m.vfs]
          BY <4>1, <4>2
        <4> QED BY <1>3, <1>5, <4>1, <4>3
      <3> QED BY <3>1, <3>2
    <2>3. \A w \in 1..Len(t.all) : t.all[w].ops = TMPFS => Root(w) \in DOMAIN t.tmp
      BY <1>0, <1>3, <1>6 DEF NodesKnown
    <2> QED BY <2>1, <2>2, <2>3 DEF NodesKnown
  <1>13. Trees(t)
    <2>1. ASSUME NEW m \in DOMAIN t.tmp
          PROVE  IF m.index = 2 THEN m.type = DIR /\ t.tmp[m].parent = NONE
                 ELSE LET q == t.tmp[m].parent
                      IN q \in DOMAIN t.tmp /\ q.type = DIR
                         /\ \E i \in 1..Len(t.tmp[q].children) : t.tmp[q].children[i] = m
      <3>1. CASE m = n
        <4>1. p.index \in 2..s.id_counter[v]
          BY <1>0 DEF NodesKnown
        <4>2. n.index # 2
          BY <1>i, <1>n, <4>1
        <4>3. 1 \in 1..Len(d) /\ d[1] = n
          BY <1>9
        <4> QED BY <1>6, <1>8, <3>1, <4>2, <4>3 DEF d
      <3>2. CASE m # n
        <4>1. m \in DOMAIN s.tmp /\ t.tmp[m].parent = s.tmp[m].parent
          BY <1>6, <1>7, <3>2
        <4>2. CASE m.index = 2
          BY <1>0, <4>1, <4>2 DEF Trees, Tree
        <4>3. CASE m.index # 2
          <5> DEFINE q == s.tmp[m].parent
          <5>1. q \in DOMAIN s.tmp /\ q.type = DIR /\ \E i \in 1..Len(s.tmp[q].children) : s.tmp[q].children[i] = m
            BY <1>0, <4>1, <4>3 DEF Trees, Tree
          <5> HIDE DEF q
          <5>2. PICK i \in 1..Len(s.tmp[q].children) : s.tmp[q].children[i] = m
            BY <5>1
          <5>3. \E j \in 1..Len(t.tmp[q].children) : t.tmp[q].children[j] = m
            <6>1. CASE q = p
              <7>1. i + 1 \in 1..Len(d) /\ d[i + 1] = m
                BY <1>9, <5>2, <6>1 DEF c
              <7> QED BY <6>1, <7>1 DEF d
            <6>2. CASE q # p
              BY <1>7, <5>1, <5>2, <6>2
            <6> QED BY <6>1, <6>2
          <5> QED BY <1>6, <4>1, <4>3, <5>1, <5>3 DEF q
        <4> QED BY <4>2, <4>3
      <3> QED BY <3>1, <3>2
    <2>2. ASSUME NEW e \in DOMAIN t.tmp, NEW i \in 1..Len(t.tmp[e].children)
          PROVE  t.tmp[e].children[i] \in DOMAIN t.tmp /\ t.tmp[t.tmp[e].children[i]].parent = e
      <3>1. CASE e = n
        BY <1>8, <3>1
      <3>2. CASE e = p
        <4>1. i \in 1..Len(d)
          BY <3>2 DEF d
        <4>2. CASE i = 1
          BY <1>6, <1>8, <1>9, <3>2, <4>2 DEF d
        <4>3. CASE i # 1
          <5>1. i - 1 \in 1..Len(c) /\ d[i] = c[i - 1]
            BY <1>10, <4>1, <4>3
          <5>2. c[i - 1] \in DOMAIN s.tmp /\ s.tmp[c[i - 1]].parent = p
            BY <1>0, <5>1 DEF Trees, Tree, c
          <5> QED BY <1>6, <1>7, <3>2, <5>1, <5>2 DEF d
        <4> QED BY <4>2, <4>3
      <3>3. CASE e # n /\ e # p
        <4>1. e \in DOMAIN s.tmp /\ t.tmp[e].children = s.tmp[e].children
          BY <1>6, <1>7, <3>3
        <4>2. s.tmp[e].children[i] \in DOMAIN s.tmp /\ s.tmp[s.tmp[e].children[i]].parent = e
          BY <1>0, <4>1 DEF Trees, Tree
        <4> QED BY <1>6, <1>7, <4>1, <4>2
      <3> QED BY <3>1, <3>2, <3>3
    <2>3. ASSUME NEW e \in DOMAIN t.tmp, NEW i \in 1..Len(t.tmp[e].children),
                 NEW j \in 1..Len(t.tmp[e].children),
                 t.tmp[t.tmp[e].children[i]].name = t.tmp[t.tmp[e].children[j]].name
          PROVE  i = j
      <3>1. CASE e = n
        BY <1>8, <3>1
      <3>2. CASE e = p
        <4>1. i \in 1..Len(d) /\ j \in 1..Len(d) /\ t.tmp[d[i]].name = t.tmp[d[j]].name
          BY <2>3, <3>2 DEF d
        <4>2. \A k \in 1..Len(c) : c[k] \in DOMAIN s.tmp /\ t.tmp[c[k]].name = s.tmp[c[k]].name /\ s.tmp[c[k]].name # name
          BY <1>0, <1>7 DEF Trees, Tree, c
        <4>3. \A k \in 1..Len(d) : IF k = 1 THEN t.tmp[d[k]].name = name
                                   ELSE k - 1 \in 1..Len(c) /\ t.tmp[d[k]].name = s.tmp[c[k - 1]].name
                                        /\ t.tmp[d[k]].name # name
          <5> TAKE k \in 1..Len(d)
          <5>1. CASE k = 1
            BY <1>8, <1>9, <5>1
          <5>2. CASE k # 1
            <6>1. k - 1 \in 1..Len(c) /\ d[k] = c[k - 1]
              BY <1>10, <5>2
            <6>2. t.tmp[c[k - 1]].name = s.tmp[c[k - 1]].name /\ s.tmp[c[k - 1]].name # name
              BY <4>2, <6>1
            <6> QED BY <5>2, <6>1, <6>2
          <5> QED BY <5>1, <5>2
        <4>4. CASE i = 1 \/ j = 1
          BY <4>1, <4>3, <4>4
        <4>5. CASE i # 1 /\ j # 1
          <5>1. /\ i - 1 \in 1..Len(c) /\ j - 1 \in 1..Len(c)
                /\ s.tmp[c[i - 1]].name = s.tmp[c[j - 1]].name
            BY <4>1, <4>3, <4>5
          <5>2. i - 1 = j - 1
            BY <1>0, <5>1 DEF Trees, Tree, c
          <5> QED BY <5>2
        <4> QED BY <4>4, <4>5
      <3>3. CASE e # n /\ e # p
        <4>1. e \in DOMAIN s.tmp /\ t.tmp[e].children = s.tmp[e].children
          BY <1>6, <1>7, <3>3
        <4>2. s.tmp[e].children[i] \in DOMAIN s.tmp /\ s.tmp[e].children[j] \in DOMAIN s.tmp
          BY <1>0, <4>1 DEF Trees, Tree
        <4>3. s.tmp[s.tmp[e].children[i]].name = s.tmp[s.tmp[e].children[j]].name
          BY <1>7, <2>3, <4>1, <4>2
        <4> QED BY <1>0, <4>1, <4>3 DEF Trees, Tree
      <3> QED BY <3>1, <3>2, <3>3
    <2> QED BY <2>1, <2>2, <2>3 DEF Trees, Tree
  <1>14. Mounts(t)
    <2>1. \A m \in DOMAIN t.mounted : t.mounted[m] # NONE => m \in DOMAIN s.mounted
      BY <1>5
    <2>2. t.all = s.all
      BY <1>3
    <2>3. \A m \in DOMAIN t.mounted : t.mounted[m] # NONE =>
            /\ t.mounted[m] \in 1..Len(t.all) /\ t.all[t.mounted[m]].mount_point = m
            /\ m.vfs < t.mounted[m] /\ m.type = DIR
      BY <1>0, <1>5, <2>1, <2>2 DEF Mounts
    <2>4. \A w \in 1..Len(t.all) : w > 1 =>
            t.all[w].mount_point \in DOMAIN t.mounted /\ t.mounted[t.all[w].mount_point] = w
      BY <1>0, <1>5, <2>2 DEF Mounts
    <2> QED BY <2>3, <2>4 DEF Mounts
  <1>15. Grows(s, t)
    <2>1. Shifted(c, d)
      <3>1. 1 \in Nat
        OBVIOUS
      <3> QED BY <1>9, <3>1 DEF Shifted
    <2>2. \A m \in DOMAIN s.tmp : Shifted(s.tmp[m].children, t.tmp[m].children)
      <3> TAKE m \in DOMAIN s.tmp
      <3>1. CASE m = p
        BY <2>1, <3>1 DEF c, d
      <3>2. CASE m # p
        BY <1>0, <1>7, <3>2, TmpFacts, ShiftedSame
      <3> QED BY <3>1, <3>2
    <2>3. Len(s.all) <= Len(t.all) /\ \A w \in 1..Len(s.all) : t.all[w].ops = s.all[w].ops
      BY <1>0, <1>3
    <2>4. \A m \in DOMAIN t.tmp \ DOMAIN s.tmp : t.tmp[m].base = <<>>
      BY <1>6, <1>8
    <2>5. \A m \in DOMAIN s.tmp : t.tmp[m].name = s.tmp[m].name /\ t.tmp[m].base = s.tmp[m].base
      BY <1>7
    <2> QED BY <1>5, <1>6, <2>2, <2>3, <2>4, <2>5 DEF Grows
  <1>16. FsOK(t)
    BY <1>11, <1>12, <1>13, <1>14 DEF FsOK
  <1>17. Returns(s, r)
    BY <1>2, <1>3, <1>5, <1>15, <1>16 DEF Returns, Keeps, t
  <1> QED BY <1>17 DEF r
---------------------------------------------------------------------------
(* The operations of a file system.                                        *)

(* lookup returns no vnode for the parent of a root.                       *)
Finds(s, r) ==
  Keeps(s, r) /\ r.s.tmp = s.tmp /\ (r.res = "OK" => r.node \in DOMAIN r.s.mounted \union {NONE})

LEMMA FindsSame ==
  ASSUME NEW s, FsOK(s), NEW res, NEW node, res = "OK" => node \in DOMAIN s.mounted \union {NONE}
  PROVE  Finds(s, Result(s, res, node))
  BY KeepsSame DEF Finds, Result

LEMMA TmpfsLookup ==
  ASSUME NEW s, FsOK(s), NEW n \in DOMAIN s.tmp, NEW name
  PROVE  Finds(s, tmpfs_lookup(s, n, name))
  <1>1. DOMAIN s.tmp \subseteq DOMAIN s.mounted
    BY DEF FsOK, NodesKnown
  <1>2. s.tmp[n].parent \in DOMAIN s.mounted \union {NONE}
    BY <1>1 DEF FsOK, Trees, Tree
  <1>3. dir_find(s, n, name) # NONE => dir_find(s, n, name) \in DOMAIN s.mounted
    BY <1>1, DirFind
  <1>4. CASE name = "."
    BY <1>1, <1>4, FindsSame DEF tmpfs_lookup
  <1>5. CASE name = ".."
    BY <1>2, <1>5, FindsSame DEF tmpfs_lookup
  <1>6. CASE name # "." /\ name # ".." /\ dir_find(s, n, name) = NONE
    <2>1. tmpfs_lookup(s, n, name) = Result(s, "NOT_FOUND", NONE)
      BY <1>6 DEF tmpfs_lookup
    <2> QED BY <2>1, FindsSame
  <1>7. CASE name # "." /\ name # ".." /\ dir_find(s, n, name) # NONE
    <2>1. tmpfs_lookup(s, n, name) = Result(s, "OK", dir_find(s, n, name))
      BY <1>7 DEF tmpfs_lookup
    <2> QED BY <1>3, <1>7, <2>1, FindsSame
  <1> QED BY <1>4, <1>5, <1>6, <1>7

LEMMA RdskLookup ==
  ASSUME NEW s, FsOK(s), NEW n \in DOMAIN s.mounted, ~IsTmpfs(s, n), n.type = DIR, NEW name
  PROVE  Finds(s, rdsk_lookup(s, n, name))
  <1> DEFINE dir == DirTable[n.index]
             file == find(FileTable, dir.file, name)
             sub == find(DirTable, dir.dir, name)
             v == n.vfs
  <1>1. v \in 1..Len(s.all) /\ s.all[v].ops # TMPFS /\ n.index \in 1..Len(DirTable)
    BY NodeFacts DEF IsTmpfs, Table
  <1>2. dir.file \in 0..Len(FileTable) /\ dir.dir \in 0..Len(DirTable) /\ dir.parent \in 0..Len(DirTable)
    BY <1>1, Tables
  <1>3. file \in 0..Len(FileTable) /\ sub \in 0..Len(DirTable)
    BY <1>2, Tables, FindFacts
  <1>4. /\ file # 0 => file \in 1..Len(FileTable)
        /\ sub # 0 => sub \in 1..Len(DirTable)
        /\ dir.parent # 0 => dir.parent \in 1..Len(DirTable)
    <2> HIDE DEF file, sub
    <2> QED BY <1>2, <1>3, Tables
  <1>5. rdsk_lookup(s, n, name) =
          CASE name = "." -> Result(s, "OK", n)
            [] name = ".." -> IF dir.parent = 0 THEN Result(s, "OK", NONE)
                              ELSE get_vfs_node(s, n.vfs, DIR, dir.parent)
            [] name \notin {".", ".."} /\ file # 0 -> get_vfs_node(s, n.vfs, FILE, file)
            [] name \notin {".", ".."} /\ file = 0 /\ sub # 0 -> get_vfs_node(s, n.vfs, DIR, sub)
            [] OTHER -> Result(s, "NOT_FOUND", NONE)
    BY DEF rdsk_lookup
  <1> HIDE DEF dir, file, sub
  <1>6. \A type \in {DIR, FILE} : \A index \in 1..Len(Table(type)) : Finds(s, get_vfs_node(s, v, type, index))
    BY <1>1, GetNode DEF Finds, Returns
  <1>7. CASE name = "."
    BY <1>5, <1>7, FindsSame
  <1>8. CASE name = ".."
    BY <1>4, <1>5, <1>6, <1>8, FindsSame DEF Table
  <1>9. CASE name \notin {".", ".."} /\ file # 0
    <2>1. rdsk_lookup(s, n, name) = get_vfs_node(s, v, FILE, file)
      BY <1>5, <1>9
    <2>2. FILE \in {DIR, FILE} /\ Table(FILE) = FileTable
      BY DEF Table, DIR, FILE
    <2> QED BY <1>4, <1>6, <1>9, <2>1, <2>2
  <1>10. CASE name \notin {".", ".."} /\ file = 0 /\ sub # 0
    <2>1. rdsk_lookup(s, n, name) = get_vfs_node(s, v, DIR, sub)
      BY <1>5, <1>10
    <2> QED BY <1>4, <1>6, <1>10, <2>1 DEF Table
  <1>11. CASE name \notin {".", ".."} /\ file = 0 /\ sub = 0
    <2>1. rdsk_lookup(s, n, name) = Result(s, "NOT_FOUND", NONE)
      BY <1>5, <1>11
    <2> QED BY <2>1, FindsSame
  <1> QED BY <1>7, <1>8, <1>9, <1>10, <1>11

LEMMA LookupFinds ==
  ASSUME NEW s, FsOK(s), NEW n \in DOMAIN s.mounted, NEW name
  PROVE  Finds(s, lookup(s, n, name))
  <1>1. CASE n.type # DIR
    BY <1>1, FindsSame DEF lookup
  <1>2. CASE n.type = DIR /\ IsTmpfs(s, n)
    BY <1>2, NodeFacts, TmpfsLookup DEF lookup
  <1>3. CASE n.type = DIR /\ ~IsTmpfs(s, n)
    <2>1. lookup(s, n, name) = rdsk_lookup(s, n, name)
      BY <1>3 DEF lookup
    <2> QED BY <1>3, <2>1, RdskLookup
  <1> QED BY <1>1, <1>2, <1>3

LEMMA MakeReturns ==
  ASSUME NEW s, FsOK(s), NEW n \in DOMAIN s.mounted, NEW type \in {DIR, FILE}, NEW name \in Text
  PROVE  Returns(s, make(s, n, type, name))
  <1>1. CASE ~IsTmpfs(s, n)
    BY <1>1, KeepsSame DEF make
  <1>2. CASE IsTmpfs(s, n)
    <2>1. make(s, n, type, name) = tmpfs_make(s, n, type, name) /\ n \in DOMAIN s.tmp
      BY <1>2, NodeFacts DEF make
    <2>2. CASE n.type # DIR
      BY <2>1, <2>2, KeepsSame DEF tmpfs_make
    <2>3. CASE n.type = DIR /\ dir_find(s, n, name) # NONE
      BY <2>1, <2>3, KeepsSame DEF tmpfs_make
    <2>4. CASE n.type = DIR /\ dir_find(s, n, name) = NONE
      BY <2>1, <2>4, DirFind, NodeMade DEF tmpfs_make
    <2> QED BY <2>2, <2>3, <2>4
  <1> QED BY <1>1, <1>2

LEMMA RootReturns ==
  ASSUME NEW s, FsOK(s), NEW v \in 1..Len(s.all)
  PROVE  /\ Returns(s, root_node(s, v)) /\ root_node(s, v).res = "OK" /\ root_node(s, v).s.tmp = s.tmp
         /\ s.all[v].ops = TMPFS => root_node(s, v).node = Root(v)
  <1>1. CASE s.all[v].ops = TMPFS
    <2>1. root_node(s, v) = Result(s, "OK", Root(v))
      BY <1>1 DEF root_node, tmpfs_root, Root
    <2>2. Root(v) \in DOMAIN s.mounted
      BY <1>1 DEF FsOK, NodesKnown
    <2>3. Returns(s, Result(s, "OK", Root(v)))
      BY <2>2, KeepsSame
    <2> QED BY <2>1, <2>3 DEF Result
  <1>2. CASE s.all[v].ops # TMPFS
    <2>1. root_node(s, v) = get_vfs_node(s, v, DIR, ROOT_INDEX)
      BY <1>2 DEF root_node, rdsk_root
    <2>2. ROOT_INDEX \in 1..Len(Table(DIR))
      BY Tables DEF Table
    <2> QED BY <1>2, <2>1, <2>2, GetNode
  <1> QED BY <1>1, <1>2

---------------------------------------------------------------------------
(* A lookup.                                                               *)

LEMMA EnterReturns ==
  ASSUME NEW s, FsOK(s), NEW r, Returns(s, r), r.res = "OK"
  PROVE  Returns(s, Enter(r)) /\ Enter(r).res = "OK" /\ Enter(r).s.tmp = r.s.tmp
  <1> DEFINE m == r.s.mounted[r.node]
  <1>1. FsOK(r.s) /\ r.node \in DOMAIN r.s.mounted
    BY DEF Returns, Keeps
  <1>2. CASE m = NONE
    BY <1>2 DEF Enter
  <1>3. CASE m # NONE
    <2>1. m \in 1..Len(r.s.all)
      BY <1>1, <1>3 DEF FsOK, Mounts
    <2>2. Enter(r) = root_node(r.s, m)
      BY <1>3 DEF Enter
    <2> HIDE DEF m
    <2>3. /\ Returns(r.s, root_node(r.s, m)) /\ root_node(r.s, m).res = "OK"
          /\ root_node(r.s, m).s.tmp = r.s.tmp
      BY <1>1, <2>1, RootReturns
    <2>4. Returns(s, root_node(r.s, m))
      BY <2>3, KeepsMore DEF Returns
    <2> QED BY <2>2, <2>3, <2>4
  <1> QED BY <1>2, <1>3

LEMMA CrossReturns ==
  ASSUME NEW s, FsOK(s), NEW r, Returns(s, r), r.res = "OK", NEW times \in {0, 1, 2}
  PROVE  Returns(s, cross(r, times)) /\ cross(r, times).res = "OK" /\ cross(r, times).s.tmp = r.s.tmp
  <1>1. Returns(s, Enter(r)) /\ Enter(r).res = "OK" /\ Enter(r).s.tmp = r.s.tmp
    BY EnterReturns
  <1>2. Returns(s, Enter(Enter(r))) /\ Enter(Enter(r)).res = "OK" /\ Enter(Enter(r)).s.tmp = r.s.tmp
    BY <1>1, EnterReturns
  <1> QED BY <1>1, <1>2 DEF cross

(* Only a lookup that creates adds nodes.                                  *)
Looks(s, r, create) == Returns(s, r) /\ (create = NONE => r.s.tmp = s.tmp)

LEMMA ComponentReturns ==
  ASSUME NEW s, FsOK(s), NEW n \in DOMAIN s.mounted, NEW comp \in Text, NEW last,
         NEW create \in {NONE, DIR, FILE}, NEW exclusive \in BOOLEAN
  PROVE  Looks(s, component(s, n, comp, last, create, exclusive), create)
  <1> DEFINE l == lookup(s, n, comp)
             f == IF l.res = "OK" /\ l.node = NONE THEN [l EXCEPT !.node = n] ELSE l
             r == component(s, n, comp, last, create, exclusive)
  <1>1. r = CASE l.res = "NOT_FOUND" /\ last /\ create # NONE -> make(l.s, n, create, comp)
              [] l.res = "NOT_FOUND" /\ last /\ create = NONE -> l
              [] OTHER -> IF exclusive THEN [f EXCEPT !.res = "EXISTS"] ELSE f
    BY DEF component
  <1>2. Keeps(s, l) /\ l.s.tmp = s.tmp /\ (l.res = "OK" => l.node \in DOMAIN l.s.mounted \union {NONE})
    BY LookupFinds DEF Finds
  <1> HIDE DEF l, r
  <1>3. FsOK(l.s) /\ n \in DOMAIN l.s.mounted /\ l = [s |-> l.s, res |-> l.res, node |-> l.node]
    BY <1>2 DEF Keeps, Grows
  <1>4. /\ f = [s |-> f.s, res |-> f.res, node |-> f.node] /\ f.s = l.s /\ f.res = l.res
        /\ f.res = "OK" => f.node \in DOMAIN f.s.mounted
    BY <1>2, <1>3
  <1>5. Returns(s, f)
    <2> HIDE DEF f
    <2> QED BY <1>2, <1>4 DEF Returns, Keeps
  <1> HIDE DEF f
  <1>6. CASE l.res = "NOT_FOUND" /\ last /\ create # NONE
    <2>1. r = make(l.s, n, create, comp)
      BY <1>1, <1>6
    <2>2. Returns(l.s, make(l.s, n, create, comp))
      BY <1>3, <1>6, MakeReturns
    <2>3. Returns(s, r)
      BY <1>2, <2>1, <2>2, KeepsMore
    <2> QED BY <1>6, <2>3 DEF r, Looks
  <1>7. CASE l.res = "NOT_FOUND" /\ last /\ create = NONE
    <2>1. r = l
      BY <1>1, <1>7
    <2> QED BY <1>2, <1>7, <2>1 DEF Returns, Looks, r
  <1>8. CASE ~(l.res = "NOT_FOUND" /\ last)
    <2>1. r = IF exclusive THEN [f EXCEPT !.res = "EXISTS"] ELSE f
      BY <1>1, <1>8
    <2>2. CASE ~exclusive
      BY <1>2, <1>4, <1>5, <2>1, <2>2 DEF Looks, r
    <2>3. CASE exclusive
      <3>1. r = [s |-> f.s, res |-> "EXISTS", node |-> f.node]
        BY <1>4, <2>1, <2>3
      <3>2. r = [s |-> r.s, res |-> r.res, node |-> r.node] /\ r.s = f.s /\ r.res # "OK"
        BY <3>1
      <3> QED BY <1>2, <1>4, <1>5, <3>2 DEF Returns, Keeps, Looks, r
    <2> QED BY <2>2, <2>3
  <1> QED BY <1>6, <1>7, <1>8

LEMMA TurnReturns ==
  ASSUME NEW s, FsOK(s), NEW r, Returns(s, r), NEW comp \in Text, NEW last,
         NEW create \in {NONE, DIR, FILE}, NEW exclusive \in BOOLEAN
  PROVE  /\ Returns(s, Turn(r, comp, last, create, exclusive))
         /\ create = NONE => Turn(r, comp, last, create, exclusive).s.tmp = r.s.tmp
  <1> DEFINE b == cross(r, Characters(comp))
             f == IF comp = "" THEN b ELSE component(b.s, b.node, comp, last, create, exclusive)
             g == IF f.res # "OK" THEN [f EXCEPT !.node = NONE] ELSE cross(f, 1)
  <1>1. Turn(r, comp, last, create, exclusive) = IF r.res # "OK" THEN r ELSE g
    BY DEF Turn
  <1>2. CASE r.res # "OK"
    BY <1>1, <1>2
  <1>3. CASE r.res = "OK"
    <2>1. Characters(comp) \in {0, 1, 2}
      BY DEF Characters
    <2>2. Returns(s, b) /\ b.res = "OK" /\ b.s.tmp = r.s.tmp
      BY <1>3, <2>1, CrossReturns
    <2> HIDE DEF b
    <2>3. Returns(s, f) /\ (create = NONE => f.s.tmp = r.s.tmp)
      <3>1. CASE comp = ""
        BY <2>2, <3>1
      <3>2. CASE comp # ""
        <4>1. FsOK(b.s) /\ b.node \in DOMAIN b.s.mounted /\ Keeps(s, b)
          BY <2>2 DEF Returns, Keeps
        <4>2. /\ Returns(b.s, component(b.s, b.node, comp, last, create, exclusive))
              /\ create = NONE => component(b.s, b.node, comp, last, create, exclusive).s.tmp = b.s.tmp
          <5>1. Looks(b.s, component(b.s, b.node, comp, last, create, exclusive), create)
            BY <4>1, ComponentReturns
          <5> QED BY <5>1 DEF Looks
        <4>3. Returns(s, component(b.s, b.node, comp, last, create, exclusive))
          BY <4>1, <4>2, KeepsMore
        <4> QED BY <2>2, <3>2, <4>2, <4>3
      <3> QED BY <3>1, <3>2
    <2> HIDE DEF f
    <2>4. Returns(s, g) /\ (create = NONE => g.s.tmp = r.s.tmp)
      <3>1. CASE f.res = "OK"
        BY <2>3, <3>1, CrossReturns
      <3>2. CASE f.res # "OK"
        <4>1. f = [s |-> f.s, res |-> f.res, node |-> f.node]
          BY <2>3 DEF Returns, Keeps
        <4>2. g = [s |-> g.s, res |-> g.res, node |-> g.node] /\ g.s = f.s /\ g.res = f.res
          BY <3>2, <4>1
        <4> HIDE DEF g
        <4> QED BY <2>3, <3>2, <4>2 DEF Returns, Keeps
      <3> QED BY <3>1, <3>2
    <2> QED BY <1>1, <1>3, <2>4
  <1> QED BY <1>2, <1>3

PathOK(s, path) == /\ path.lead \in BOOLEAN /\ path.comps \in Seq(Text) /\ path.comps # <<>>
                   /\ path.root \in DOMAIN s.mounted \union {NONE}

LEMMA ComponentsType ==
  ASSUME NEW s, NEW path, PathOK(s, path)
  PROVE  Components(path) \in Seq(Text)
  <1>1. path.comps \in Seq(Text) /\ path.comps # <<>>
    BY DEF PathOK
  <1> DEFINE rest == Tail(path.comps)
             first == WithoutFirst(Head(path.comps))
  <1>2. rest \in Seq(Text)
    BY <1>1
  <1>4. first \in Text
    BY DEF WithoutFirst, Text
  <1>3. <<first>> \o rest \in Seq(Text)
    <2> HIDE DEF first, rest
    <2> QED BY <1>2, <1>4, Prepended
  <1> QED BY <1>1, <1>3 DEF Components

LEMMA StartReturns ==
  ASSUME NEW s, FsOK(s), NEW path, PathOK(s, path)
  PROVE  Returns(s, Start(s, path)) /\ Start(s, path).s.tmp = s.tmp
  <1>1. CASE path.lead \/ path.root = NONE
    <2>1. CASE s.all = <<>>
      BY <1>1, <2>1, KeepsSame DEF Start, vfs_root, Result
    <2>2. CASE s.all # <<>>
      <3>1. 1 \in 1..Len(s.all)
        BY <2>2 DEF FsOK, FsTypes
      <3> QED BY <1>1, <2>2, <3>1, RootReturns DEF Start, vfs_root
    <2> QED BY <2>1, <2>2
  <1>2. CASE ~(path.lead \/ path.root = NONE)
    BY <1>2, KeepsSame DEF Start, PathOK, Result
  <1> QED BY <1>1, <1>2

(* The first k turns of the loop for a path.                               *)
Turns(s, path, create, exclusive, k, f) ==
  f = [i \in 0..k |-> IF i = 0 THEN Start(s, path)
                      ELSE Turn(f[i - 1], Components(path)[i], i = Len(Components(path)), create, exclusive)]

LEMMA TurnsExist ==
  ASSUME NEW s, NEW path, NEW create, NEW exclusive, NEW m \in Nat
  PROVE  \E f : Turns(s, path, create, exclusive, m, f)
  <1> DEFINE Bad == {k \in Nat : ~\E f : Turns(s, path, create, exclusive, k, f)}
             Step(x, i) == Turn(x, Components(path)[i], i = Len(Components(path)), create, exclusive)
             start == Start(s, path)
  <1>0. \A k, f : Turns(s, path, create, exclusive, k, f)
                    <=> f = [i \in 0..k |-> IF i = 0 THEN start ELSE Step(f[i - 1], i)]
    BY DEF Turns
  <1> HIDE DEF Step, start
  <1> SUFFICES ASSUME Bad # {} PROVE FALSE
    OBVIOUS
  <1>1. PICK k \in Bad : \A j \in Bad : k <= j
    <2>1. Bad \subseteq Nat
      OBVIOUS
    <2> HIDE DEF Bad
    <2> QED BY <2>1, LeastExists
  <1>2. k \in Nat /\ ~\E f : Turns(s, path, create, exclusive, k, f)
    OBVIOUS
  <1>3. CASE k = 0
    <2> DEFINE f == [i \in 0..0 |-> start]
    <2>1. f = [i \in 0..0 |-> IF i = 0 THEN start ELSE Step(f[i - 1], i)]
      OBVIOUS
    <2> HIDE DEF f
    <2> QED BY <1>0, <1>2, <1>3, <2>1
  <1>4. CASE k # 0
    <2>1. k - 1 \in Nat /\ ~(k <= k - 1)
      BY <1>2, <1>4
    <2>2. PICK g : g = [i \in 0..(k - 1) |-> IF i = 0 THEN start ELSE Step(g[i - 1], i)]
      <3>1. k - 1 \notin Bad
        <4> HIDE DEF Bad
        <4> QED BY <1>1, <2>1
      <3> QED BY <1>0, <2>1, <3>1
    <2> DEFINE f == [i \in 0..k |-> IF i = k THEN Step(g[k - 1], k) ELSE g[i]]
    <2>3. ASSUME NEW i \in 0..k PROVE f[i] = IF i = 0 THEN start ELSE Step(f[i - 1], i)
      <3>1. CASE i = k
        <4>1. f[i] = Step(g[k - 1], k) /\ f[k - 1] = g[k - 1]
          BY <1>2, <1>4, <3>1
        <4> HIDE DEF f
        <4> QED BY <1>4, <3>1, <4>1
      <3>2. CASE i # k
        <4>1. i \in 0..(k - 1) /\ f[i] = g[i]
          BY <1>2, <3>2
        <4>2. i # 0 => f[i - 1] = g[i - 1]
          BY <1>2, <4>1
        <4> HIDE DEF f
        <4>3. g[i] = IF i = 0 THEN start ELSE Step(g[i - 1], i)
          BY <2>2, <4>1
        <4> QED BY <4>1, <4>2, <4>3
      <3> QED BY <3>1, <3>2
    <2>4. f = [i \in 0..k |-> f[i]]
      OBVIOUS
    <2> HIDE DEF f
    <2>5. f = [i \in 0..k |-> IF i = 0 THEN start ELSE Step(f[i - 1], i)]
      BY <2>3, <2>4
    <2> QED BY <1>0, <1>2, <2>5
  <1> QED BY <1>3, <1>4

LEMMA LookupReturns ==
  ASSUME NEW s, FsOK(s), NEW path, PathOK(s, path),
         NEW create \in {NONE, DIR, FILE}, NEW exclusive \in BOOLEAN
  PROVE  /\ Returns(s, vfs_lookup_ext(s, path, create, exclusive))
         /\ create = NONE => vfs_lookup_ext(s, path, create, exclusive).s.tmp = s.tmp
  <1> DEFINE comps == Components(path)
             N == Len(comps)
             F == CHOOSE f : f = [i \in 0..N |-> IF i = 0 THEN Start(s, path)
                                                ELSE Turn(f[i - 1], comps[i], i = N, create, exclusive)]
             Good(i) == Returns(s, F[i]) /\ (create = NONE => F[i].s.tmp = s.tmp)
             Bad == {i \in 0..N : ~Good(i)}
  <1>1. vfs_lookup_ext(s, path, create, exclusive) = F[N]
    BY DEF vfs_lookup_ext
  <1>2. comps \in Seq(Text)
    BY ComponentsType
  <1>3. N \in Nat /\ \A i \in 1..N : comps[i] \in Text
    <2> HIDE DEF comps
    <2> QED BY <1>2
  <1>4. F = [i \in 0..N |-> IF i = 0 THEN Start(s, path)
                            ELSE Turn(F[i - 1], comps[i], i = N, create, exclusive)]
    <2>1. \E f : Turns(s, path, create, exclusive, N, f)
      <3> HIDE DEF N
      <3> QED BY <1>3, TurnsExist
    <2>2. \E f : f = [i \in 0..N |-> IF i = 0 THEN Start(s, path)
                                     ELSE Turn(f[i - 1], comps[i], i = N, create, exclusive)]
      BY <2>1 DEF Turns
    <2> QED BY <2>2
  <1> HIDE DEF F, N, comps
  <1>5. \A i \in 0..N : F[i] = IF i = 0 THEN Start(s, path)
                               ELSE Turn(F[i - 1], comps[i], i = N, create, exclusive)
    BY <1>4
  <1>6. Bad = {}
    <2> SUFFICES ASSUME Bad # {} PROVE FALSE
      OBVIOUS
    <2>1. PICK k \in Bad : \A j \in Bad : k <= j
      <3>1. Bad \subseteq Nat
        BY <1>3
      <3> HIDE DEF Bad
      <3> QED BY <3>1, LeastExists
    <2>2. k \in 0..N /\ ~Good(k)
      OBVIOUS
    <2>3. CASE k = 0
      BY <1>5, <2>2, <2>3, StartReturns
    <2>4. CASE k # 0
      <3>1. k - 1 \in 0..N /\ k \in 1..N /\ ~(k <= k - 1)
        BY <1>3, <2>2, <2>4
      <3>2. k - 1 \notin Bad
        <4> HIDE DEF Bad
        <4> QED BY <2>1, <3>1
      <3>3. Good(k - 1)
        BY <3>1, <3>2
      <3>4. F[k] = Turn(F[k - 1], comps[k], k = N, create, exclusive)
        BY <1>5, <2>2, <2>4
      <3>5. comps[k] \in Text
        BY <1>3, <3>1
      <3>6. /\ Returns(s, Turn(F[k - 1], comps[k], k = N, create, exclusive))
            /\ create = NONE => Turn(F[k - 1], comps[k], k = N, create, exclusive).s.tmp = F[k - 1].s.tmp
        BY <3>3, <3>5, TurnReturns
      <3> QED BY <2>2, <3>3, <3>4, <3>6
    <2> QED BY <2>3, <2>4
  <1>7. N \in 0..N
    BY <1>3
  <1> QED BY <1>1, <1>6, <1>7

LEMMA MakesReturns ==
  ASSUME NEW s, FsOK(s), NEW path, PathOK(s, path), NEW type \in {DIR, FILE}, NEW name \in Text
  PROVE  Returns(s, vfs_make(s, path, type, name))
  <1> DEFINE r == vfs_lookup(s, path)
  <1>1. Returns(s, r)
    BY LookupReturns DEF vfs_lookup
  <1>2. vfs_make(s, path, type, name) = IF r.res # "OK" THEN r ELSE make(r.s, r.node, type, name)
    BY DEF vfs_make
  <1> HIDE DEF r
  <1>3. CASE r.res # "OK"
    BY <1>1, <1>2, <1>3 DEF r
  <1>4. CASE r.res = "OK"
    <2>1. FsOK(r.s) /\ r.node \in DOMAIN r.s.mounted /\ Keeps(s, r)
      BY <1>1, <1>4 DEF Returns, Keeps
    <2>2. Returns(r.s, make(r.s, r.node, type, name))
      BY <2>1, MakeReturns
    <2>3. Returns(s, make(r.s, r.node, type, name))
      BY <2>1, <2>2, KeepsMore
    <2> QED BY <1>1, <1>2, <1>4, <2>3 DEF r
  <1> QED BY <1>3, <1>4
---------------------------------------------------------------------------
(* A mount.                                                                *)

(* A new file system covers an open directory, or is the first one.        *)
Open(s, point) ==
  \/ point = NONE /\ Len(s.all) = 0
  \/ point \in DOMAIN s.mounted /\ s.mounted[point] = NONE /\ point.type = DIR

RootNode == [name |-> "root", parent |-> NONE, children |-> <<>>, base |-> <<>>]

(* What a mount adds: the file system, the mount point's link to it and,   *)
(* for a tmpfs, its root.                                                  *)
Mounted(s, ops, point, t) ==
  LET v == Len(s.all) + 1
      new == IF ops = TMPFS THEN {Root(v)} ELSE {}
  IN /\ t = [all |-> t.all, mounted |-> t.mounted, cache |-> t.cache, tmp |-> t.tmp, id_counter |-> t.id_counter]
     /\ t.all = Append(s.all, [ops |-> ops, mount_point |-> point]) /\ t.cache = s.cache
     /\ t.mounted = [m \in DOMAIN s.mounted \union new |->
                       IF m \in new THEN NONE ELSE IF m = point THEN v ELSE s.mounted[m]]
     /\ t.tmp = [m \in DOMAIN s.tmp \union new |-> IF m \in new THEN RootNode ELSE s.tmp[m]]
     /\ t.id_counter = Append(s.id_counter, IF ops = TMPFS THEN 2 ELSE 0)

LEMMA Appended ==
  ASSUME NEW X, NEW c \in Seq(X), NEW x \in X
  PROVE  /\ Append(c, x) \in Seq(X) /\ Len(Append(c, x)) = Len(c) + 1 /\ Len(c) \in Nat
         /\ Append(c, x)[Len(c) + 1] = x /\ \A i \in 1..Len(c) : Append(c, x)[i] = c[i]
  OBVIOUS

LEMMA MountedOK ==
  ASSUME NEW s, FsOK(s), NEW ops \in {RDSK, TMPFS}, NEW point, Open(s, point), NEW t, Mounted(s, ops, point, t)
  PROVE  FsOK(t) /\ Grows(s, t)
  <1> DEFINE v == Len(s.all) + 1
             new == IF ops = TMPFS THEN {Root(v)} ELSE {}
             V == [ops : {RDSK, TMPFS}, mount_point : Vnodes \union {NONE}]
             e == [ops |-> ops, mount_point |-> point]
             k == IF ops = TMPFS THEN 2 ELSE 0
  <1>0. FsTypes(s) /\ NodesKnown(s) /\ Trees(s) /\ Mounts(s) /\ Len(s.all) \in Nat /\ s.all \in Seq(V)
        /\ v \in Nat /\ s.id_counter \in Seq(Nat) /\ Len(s.id_counter) = Len(s.all)
    BY DEF FsOK, FsTypes
  <1>1. /\ t = [all |-> t.all, mounted |-> t.mounted, cache |-> t.cache, tmp |-> t.tmp, id_counter |-> t.id_counter]
        /\ t.all = Append(s.all, e) /\ t.cache = s.cache
        /\ t.mounted = [m \in DOMAIN s.mounted \union new |->
                          IF m \in new THEN NONE ELSE IF m = point THEN v ELSE s.mounted[m]]
        /\ t.tmp = [m \in DOMAIN s.tmp \union new |-> IF m \in new THEN RootNode ELSE s.tmp[m]]
        /\ t.id_counter = Append(s.id_counter, k)
    BY DEF Mounted
  <1>2. /\ Root(v) \in Vnodes /\ Root(v).vfs = v /\ Root(v).type = DIR /\ Root(v).index = 2 /\ Root(v).copy = 1
    BY <1>0, VnodeFacts DEF Root
  <1>3. \A m \in new : m = Root(v) /\ ops = TMPFS
    OBVIOUS
  <1>4. ops = TMPFS => Root(v) \in new
    OBVIOUS
  <1> HIDE DEF new
  <1>5. \A m \in new : m \notin DOMAIN s.mounted /\ m \notin DOMAIN s.tmp
    <2> SUFFICES ASSUME NEW m \in new, m \in DOMAIN s.mounted \/ m \in DOMAIN s.tmp PROVE FALSE
      OBVIOUS
    <2>1. m \in DOMAIN s.mounted
      BY <1>0 DEF NodesKnown
    <2>2. m.vfs \in 1..Len(s.all) /\ m.vfs = v
      BY <1>2, <1>3, <2>1, NodeFacts
    <2> QED BY <1>0, <2>2
  <1>6. /\ point \in Vnodes \union {NONE}
        /\ v > 1 => point \in DOMAIN s.mounted
        /\ point \in DOMAIN s.mounted => s.mounted[point] = NONE /\ point.type = DIR
    BY <1>0, NodeFacts, NoneAssumption DEF Open, FsTypes
  <1>7. e \in V /\ k \in Nat
    BY <1>6
  <1>8. /\ t.all \in Seq(V) /\ Len(t.all) = v /\ t.all[v] = e
        /\ \A w \in 1..Len(s.all) : t.all[w] = s.all[w]
    <2> HIDE DEF V, e
    <2> QED BY <1>0, <1>1, <1>7, Appended
  <1>9. /\ t.id_counter \in Seq(Nat) /\ Len(t.id_counter) = v /\ t.id_counter[v] = k
        /\ \A w \in 1..Len(s.all) : t.id_counter[w] = s.id_counter[w]
    <2> HIDE DEF k
    <2> QED BY <1>0, <1>1, <1>7, Appended
  <1>10. e.ops = ops /\ e.mount_point = point
    OBVIOUS
  <1>11. /\ DOMAIN t.mounted = DOMAIN s.mounted \union new /\ DOMAIN t.tmp = DOMAIN s.tmp \union new
         /\ \A m \in new : t.mounted[m] = NONE /\ t.tmp[m] = RootNode
         /\ \A m \in DOMAIN s.mounted : t.mounted[m] = IF m = point THEN v ELSE s.mounted[m]
         /\ \A m \in DOMAIN s.tmp : t.tmp[m] = s.tmp[m]
    BY <1>1, <1>5
  <1>12. RootNode \in TmpNodes /\ RootNode.parent = NONE /\ RootNode.base = <<>> /\ Len(RootNode.children) = 0
    BY DEF RootNode, TmpNodes, Text
  <1> HIDE DEF e, V, v
  <1>13. FsTypes(t)
    <2>1. t.mounted \in [DOMAIN t.mounted -> Nat \union {NONE}]
      <3>1. \A m \in DOMAIN t.mounted : t.mounted[m] \in Nat \union {NONE}
        BY <1>0, <1>11 DEF FsTypes
      <3>2. t.mounted = [m \in DOMAIN t.mounted |-> t.mounted[m]]
        BY <1>1
      <3> QED BY <3>1, <3>2
    <2>2. DOMAIN t.mounted \subseteq Vnodes /\ DOMAIN t.tmp \subseteq Vnodes
      BY <1>0, <1>2, <1>3, <1>11 DEF FsTypes
    <2>3. t.tmp \in [DOMAIN t.tmp -> TmpNodes]
      <3>1. \A m \in DOMAIN t.tmp : t.tmp[m] \in TmpNodes
        BY <1>0, <1>11, <1>12, TmpFacts
      <3>2. t.tmp = [m \in DOMAIN t.tmp |-> t.tmp[m]]
        BY <1>1
      <3> QED BY <3>1, <3>2
    <2> QED BY <1>1, <1>8, <1>9, <2>1, <2>2, <2>3 DEF FsTypes, V
  <1>14. NodesKnown(t)
    <2>1. ASSUME NEW m \in DOMAIN t.mounted
          PROVE  /\ m.copy = 1 /\ m.vfs \in 1..Len(t.all)
                 /\ IF t.all[m.vfs].ops = TMPFS THEN m \in DOMAIN t.tmp
                    ELSE m \in t.cache /\ m.index \in 1..Len(Table(m.type))
      <3>1. CASE m \in new
        <4>1. m = Root(v) /\ ops = TMPFS /\ v \in 1..Len(t.all)
          BY <1>0, <1>3, <1>8, <3>1 DEF v
        <4>2. m \in DOMAIN t.tmp /\ t.all[m.vfs].ops = TMPFS
          BY <1>2, <1>8, <1>10, <1>11, <3>1, <4>1
        <4> QED BY <1>2, <4>1, <4>2
      <3>2. CASE m \notin new
        <4>1. m \in DOMAIN s.mounted
          BY <1>11, <3>2
        <4>2. m.vfs \in 1..Len(s.all) /\ m.vfs \in 1..Len(t.all)
          BY <1>0, <1>8, <4>1 DEF NodesKnown, v
        <4> QED BY <1>0, <1>1, <1>8, <1>11, <4>1, <4>2 DEF NodesKnown
      <3> QED BY <3>1, <3>2
    <2>2. ASSUME NEW m \in DOMAIN t.tmp
          PROVE  m \in DOMAIN t.mounted /\ t.all[m.vfs].ops = TMPFS /\ m.index \in 2..t.id_counter[m.vfs]
      <3>1. CASE m \in new
        <4>1. m.vfs = v /\ ops = TMPFS /\ m.index = 2 /\ t.id_counter[v] = 2
          BY <1>2, <1>3, <1>9, <3>1
        <4> QED BY <1>8, <1>10, <1>11, <3>1, <4>1
      <3>2. CASE m \notin new
        <4>1. m \in DOMAIN s.tmp /\ m \in DOMAIN s.mounted
          BY <1>0, <1>11, <3>2 DEF NodesKnown
        <4>2. m.vfs \in 1..Len(s.all) /\ s.all[m.vfs].ops = TMPFS /\ m.index \in 2..s.id_counter[m.vfs]
          BY <1>0, <4>1 DEF NodesKnown
        <4> QED BY <1>8, <1>9, <1>11, <4>1, <4>2
      <3> QED BY <3>1, <3>2
    <2>3. ASSUME NEW w \in 1..Len(t.all), t.all[w].ops = TMPFS PROVE Root(w) \in DOMAIN t.tmp
      <3>1. CASE w = v
        BY <1>4, <1>8, <1>10, <1>11, <2>3, <3>1
      <3>2. CASE w # v
        <4>1. w \in 1..Len(s.all)
          BY <1>0, <1>8, <3>2 DEF v
        <4> QED BY <1>0, <1>8, <1>11, <2>3, <4>1 DEF NodesKnown
      <3> QED BY <3>1, <3>2
    <2> QED BY <2>1, <2>2, <2>3 DEF NodesKnown
  <1>15. Trees(t)
    <2>0. \A m \in DOMAIN s.tmp : m \in DOMAIN t.tmp /\ t.tmp[m] = s.tmp[m]
      BY <1>11
    <2>1. ASSUME NEW m \in DOMAIN t.tmp
          PROVE  IF m.index = 2 THEN m.type = DIR /\ t.tmp[m].parent = NONE
                 ELSE LET q == t.tmp[m].parent
                      IN q \in DOMAIN t.tmp /\ q.type = DIR
                         /\ \E i \in 1..Len(t.tmp[q].children) : t.tmp[q].children[i] = m
      <3>1. CASE m \in new
        BY <1>2, <1>3, <1>11, <1>12, <3>1
      <3>2. CASE m \notin new
        <4>1. m \in DOMAIN s.tmp
          BY <1>11, <3>2
        <4> DEFINE q == s.tmp[m].parent
        <4>2. t.tmp[m].parent = q
          BY <2>0, <4>1
        <4>3. CASE m.index = 2
          BY <1>0, <4>1, <4>2, <4>3 DEF Trees, Tree
        <4>4. CASE m.index # 2
          <5>1. /\ q \in DOMAIN s.tmp /\ q.type = DIR
                /\ \E i \in 1..Len(s.tmp[q].children) : s.tmp[q].children[i] = m
            BY <1>0, <4>1, <4>4 DEF Trees, Tree
          <5>2. q \in DOMAIN t.tmp /\ t.tmp[q] = s.tmp[q]
            BY <2>0, <5>1
          <5> HIDE DEF q
          <5> QED BY <4>2, <4>4, <5>1, <5>2
        <4> QED BY <4>3, <4>4
      <3> QED BY <3>1, <3>2
    <2>2. \A d \in DOMAIN t.tmp : \A i \in 1..Len(t.tmp[d].children) :
            d \in DOMAIN s.tmp /\ s.tmp[d] = t.tmp[d]
      BY <1>11, <1>12
    <2>3. ASSUME NEW d \in DOMAIN t.tmp, NEW i \in 1..Len(t.tmp[d].children)
          PROVE  t.tmp[d].children[i] \in DOMAIN t.tmp /\ t.tmp[t.tmp[d].children[i]].parent = d
      <3>1. d \in DOMAIN s.tmp /\ s.tmp[d] = t.tmp[d]
        BY <2>2
      <3>2. t.tmp[d].children[i] \in DOMAIN s.tmp /\ s.tmp[t.tmp[d].children[i]].parent = d
        BY <1>0, <3>1 DEF Trees, Tree
      <3> QED BY <2>0, <3>2
    <2>4. ASSUME NEW d \in DOMAIN t.tmp, NEW i \in 1..Len(t.tmp[d].children), NEW j \in 1..Len(t.tmp[d].children),
                 t.tmp[t.tmp[d].children[i]].name = t.tmp[t.tmp[d].children[j]].name
          PROVE  i = j
      <3>1. d \in DOMAIN s.tmp /\ s.tmp[d] = t.tmp[d]
        BY <2>2
      <3>2. t.tmp[d].children[i] \in DOMAIN s.tmp /\ t.tmp[d].children[j] \in DOMAIN s.tmp
        BY <1>0, <3>1 DEF Trees, Tree
      <3>3. s.tmp[s.tmp[d].children[i]].name = s.tmp[s.tmp[d].children[j]].name
        BY <2>0, <2>4, <3>1, <3>2
      <3> QED BY <1>0, <3>1, <3>3 DEF Trees, Tree
    <2> QED BY <2>1, <2>3, <2>4 DEF Trees, Tree
  <1>16. Mounts(t)
    <2>1. ASSUME NEW m \in DOMAIN t.mounted, t.mounted[m] # NONE
          PROVE  /\ t.mounted[m] \in 1..Len(t.all) /\ t.all[t.mounted[m]].mount_point = m
                 /\ m.vfs < t.mounted[m] /\ m.type = DIR
      <3>1. m \in DOMAIN s.mounted
        BY <1>11, <2>1
      <3>2. CASE m = point
        <4>1. t.mounted[m] = v /\ m.type = DIR /\ m.vfs \in 1..Len(s.all)
          BY <1>0, <1>6, <1>11, <3>1, <3>2 DEF NodesKnown
        <4>2. v \in 1..Len(t.all) /\ m.vfs < v
          BY <1>0, <1>8, <4>1 DEF v
        <4> QED BY <1>8, <1>10, <3>2, <4>1, <4>2
      <3>3. CASE m # point
        <4>1. t.mounted[m] = s.mounted[m]
          BY <1>11, <3>1, <3>3
        <4>2. /\ s.mounted[m] \in 1..Len(s.all) /\ s.all[s.mounted[m]].mount_point = m
              /\ m.vfs < s.mounted[m] /\ m.type = DIR
          BY <1>0, <2>1, <3>1, <4>1 DEF Mounts
        <4>3. s.mounted[m] \in 1..Len(t.all)
          BY <1>0, <1>8, <4>2 DEF v
        <4> QED BY <1>8, <4>1, <4>2, <4>3
      <3> QED BY <3>2, <3>3
    <2>2. ASSUME NEW w \in 1..Len(t.all), w > 1
          PROVE  t.all[w].mount_point \in DOMAIN t.mounted /\ t.mounted[t.all[w].mount_point] = w
      <3>1. CASE w = v
        BY <1>6, <1>8, <1>10, <1>11, <2>2, <3>1
      <3>2. CASE w # v
        <4>1. w \in 1..Len(s.all)
          BY <1>0, <1>8, <3>2 DEF v
        <4>2. /\ t.all[w].mount_point = s.all[w].mount_point /\ s.all[w].mount_point \in DOMAIN s.mounted
              /\ s.mounted[s.all[w].mount_point] = w
          BY <1>0, <1>8, <2>2, <4>1 DEF Mounts
        <4>3. w # NONE
          BY <4>1, NoneAssumption
        <4> QED BY <1>6, <1>11, <4>2, <4>3
      <3> QED BY <3>1, <3>2
    <2> QED BY <2>1, <2>2 DEF Mounts
  <1>17. Grows(s, t)
    <2>1. Len(s.all) <= Len(t.all) /\ \A w \in 1..Len(s.all) : t.all[w].ops = s.all[w].ops
      BY <1>0, <1>8 DEF v
    <2>2. \A m \in DOMAIN s.tmp : Shifted(s.tmp[m].children, t.tmp[m].children)
      BY <1>0, <1>11, TmpFacts, ShiftedSame
    <2> QED BY <1>11, <1>12, <2>1, <2>2 DEF Grows
  <1> QED BY <1>13, <1>14, <1>15, <1>16, <1>17 DEF FsOK

LEMMA SameSequence ==
  ASSUME NEW X, NEW c \in Seq(X), NEW d \in Seq(X), Len(c) = Len(d), \A i \in 1..Len(c) : c[i] = d[i]
  PROVE  c = d
  OBVIOUS

LEMMA AddMounts ==
  ASSUME NEW s, FsOK(s), NEW ops \in {RDSK, TMPFS}, NEW point, Open(s, point), NEW w,
         w = [s EXCEPT !.mounted = [m \in DOMAIN s.mounted |-> IF m = point THEN Len(s.all) + 1 ELSE s.mounted[m]]]
  PROVE  FsOK(Add(w, ops, point)) /\ Grows(s, Add(w, ops, point))
  <1> DEFINE v == Len(s.all) + 1
             e == [ops |-> ops, mount_point |-> point]
             M == [m \in DOMAIN s.mounted |-> IF m = point THEN v ELSE s.mounted[m]]
             u == [w EXCEPT !.all = Append(@, e)]
             t == Add(w, ops, point)
  <1>0. /\ FsTypes(s) /\ NodesKnown(s) /\ Len(s.all) \in Nat /\ v \in Nat /\ v = Len(s.all) + 1
        /\ s.id_counter \in Seq(Nat) /\ Len(s.id_counter) = Len(s.all)
        /\ s = [all |-> s.all, mounted |-> s.mounted, cache |-> s.cache, tmp |-> s.tmp, id_counter |-> s.id_counter]
    BY DEF FsOK, FsTypes
  <1>1. /\ u = [all |-> u.all, mounted |-> u.mounted, cache |-> u.cache, tmp |-> u.tmp, id_counter |-> u.id_counter]
        /\ u.all = Append(s.all, e) /\ u.mounted = M /\ u.cache = s.cache /\ u.tmp = s.tmp
        /\ u.id_counter = s.id_counter
    <2> HIDE DEF e, M, u
    <2>1. w = [s EXCEPT !.mounted = M]
      BY DEF M
    <2>2. /\ w = [all |-> w.all, mounted |-> w.mounted, cache |-> w.cache, tmp |-> w.tmp, id_counter |-> w.id_counter]
          /\ w.all = s.all /\ w.mounted = M /\ w.cache = s.cache /\ w.tmp = s.tmp /\ w.id_counter = s.id_counter
      BY <1>0, <2>1
    <2>3. u = [w EXCEPT !.all = Append(@, e)]
      BY DEF u
    <2> QED BY <2>2, <2>3
  <1>2. t = IF ops = TMPFS THEN tmpfs_mount(u, v) ELSE rdsk_mount(u, v)
    <2>1. w.all = s.all
      BY <1>0
    <2> QED BY <2>1 DEF Add
  <1> HIDE DEF u, t
  <1>3. CASE ops # TMPFS
    <2>1. t = [u EXCEPT !.id_counter = Append(@, 0)]
      BY <1>2, <1>3 DEF rdsk_mount
    <2>2. /\ t = [all |-> t.all, mounted |-> t.mounted, cache |-> t.cache, tmp |-> t.tmp, id_counter |-> t.id_counter]
          /\ t.all = Append(s.all, e) /\ t.mounted = M /\ t.cache = s.cache /\ t.tmp = s.tmp
          /\ t.id_counter = Append(s.id_counter, 0)
      <3> HIDE DEF e, M
      <3> QED BY <1>1, <2>1
    <2>3. s.tmp = [m \in DOMAIN s.tmp |-> s.tmp[m]]
      BY <1>0 DEF FsTypes
    <2>4. Mounted(s, ops, point, t)
      <3>1. M = [m \in DOMAIN s.mounted \union {} |->
                   IF m \in {} THEN NONE ELSE IF m = point THEN v ELSE s.mounted[m]]
        OBVIOUS
      <3>2. s.tmp = [m \in DOMAIN s.tmp \union {} |-> IF m \in {} THEN RootNode ELSE s.tmp[m]]
        BY <2>3
      <3> HIDE DEF M
      <3> QED BY <1>3, <2>2, <3>1, <3>2 DEF Mounted
    <2> QED BY <2>4, MountedOK DEF t
  <1>4. CASE ops = TMPFS
    <2> DEFINE x == [u EXCEPT !.id_counter = Append(@, 1)]
               c == Append(s.id_counter, 1)
               n == Root(v)
    <2>1. t = make_tmpfs_node(x, NONE, v, DIR, "root").s
      BY <1>2, <1>4 DEF tmpfs_mount
    <2>2. /\ x = [all |-> x.all, mounted |-> x.mounted, cache |-> x.cache, tmp |-> x.tmp, id_counter |-> x.id_counter]
          /\ x.all = Append(s.all, e) /\ x.mounted = M /\ x.cache = s.cache /\ x.tmp = s.tmp
          /\ x.id_counter = c
      <3> HIDE DEF e, M, x, c
      <3>1. x = [u EXCEPT !.id_counter = Append(@, 1)]
        BY DEF x
      <3> QED BY <1>1, <3>1 DEF c
    <2>3. /\ c \in Seq(Nat) /\ Len(c) = v /\ c[v] = 1 /\ v \in DOMAIN c
          /\ \A i \in 1..Len(s.all) : c[i] = s.id_counter[i]
      <3>1. 1 \in Nat
        OBVIOUS
      <3>2. c \in Seq(Nat) /\ Len(c) = v /\ c[v] = 1 /\ \A i \in 1..Len(s.all) : c[i] = s.id_counter[i]
        BY <1>0, <3>1, Appended
      <3> HIDE DEF c, v
      <3> QED BY <1>0, <3>2
    <2> HIDE DEF x
    <2>4. c[v] + 1 = 2 /\ Vnode(v, DIR, c[v] + 1, 1) = n
      <3> HIDE DEF c
      <3> QED BY <2>3 DEF Root
    <2>5. t = [WithVnode(x, n) EXCEPT
                 !.id_counter[v] = 2,
                 !.tmp = [m \in DOMAIN @ \union {n} |-> IF m = n THEN RootNode ELSE s.tmp[m]]]
      <3> HIDE DEF v, c, n, M
      <3> QED BY <2>1, <2>2, <2>4 DEF make_tmpfs_node, Result, RootNode
    <2>6. WithVnode(x, n) = [x EXCEPT !.mounted = [m \in DOMAIN M \union {n} |-> IF m = n THEN NONE ELSE M[m]]]
      <3> HIDE DEF v, c, n, M, e
      <3> QED BY <2>2 DEF WithVnode
    <2> DEFINE W == [m \in DOMAIN M \union {n} |-> IF m = n THEN NONE ELSE M[m]]
               P == [m \in DOMAIN s.tmp \union {n} |-> IF m = n THEN RootNode ELSE s.tmp[m]]
               C == [c EXCEPT ![v] = 2]
    <2>7. /\ t = [all |-> t.all, mounted |-> t.mounted, cache |-> t.cache, tmp |-> t.tmp, id_counter |-> t.id_counter]
          /\ t.all = Append(s.all, e) /\ t.mounted = W /\ t.cache = s.cache /\ t.tmp = P
          /\ t.id_counter = C
      <3> DEFINE y == WithVnode(x, n)
      <3>1. /\ y = [all |-> y.all, mounted |-> y.mounted, cache |-> y.cache, tmp |-> y.tmp, id_counter |-> y.id_counter]
            /\ y.all = Append(s.all, e) /\ y.mounted = W /\ y.cache = s.cache /\ y.tmp = s.tmp
            /\ y.id_counter = c
        <4>1. y = [x EXCEPT !.mounted = W]
          BY <2>6
        <4> HIDE DEF y, W, e, c, n, M
        <4> QED BY <2>2, <4>1
      <3>2. t = [y EXCEPT !.id_counter[v] = 2,
                          !.tmp = [m \in DOMAIN @ \union {n} |-> IF m = n THEN RootNode ELSE s.tmp[m]]]
        BY <2>5
      <3> HIDE DEF y
      <3>3. t = [y EXCEPT !.id_counter = C, !.tmp = P]
        <4> HIDE DEF W, e, c, n, v, M
        <4> QED BY <3>1, <3>2
      <3> HIDE DEF W, P, C, e, c, n, v
      <3> QED BY <3>1, <3>3
    <2>8. C = Append(s.id_counter, 2)
      <3>0. \A i \in 1..v : i # v => i \in 1..Len(s.all)
        BY <1>0
      <3>1. C \in Seq(Nat) /\ Len(C) = v /\ \A i \in 1..v : C[i] = IF i = v THEN 2 ELSE s.id_counter[i]
        <4>1. C \in Seq(Nat) /\ Len(C) = v /\ \A i \in 1..v : C[i] = IF i = v THEN 2 ELSE c[i]
          <5> HIDE DEF c, v
          <5> QED BY <1>0, <2>3
        <4> HIDE DEF C, c, v
        <4> QED BY <2>3, <3>0, <4>1
      <3> DEFINE D == Append(s.id_counter, 2)
      <3>2. D \in Seq(Nat) /\ Len(D) = v /\ \A i \in 1..v : D[i] = IF i = v THEN 2 ELSE s.id_counter[i]
        <4>1. 2 \in Nat
          OBVIOUS
        <4>2. D \in Seq(Nat) /\ Len(D) = v /\ D[v] = 2 /\ \A i \in 1..Len(s.all) : D[i] = s.id_counter[i]
          BY <1>0, <4>1, Appended
        <4> HIDE DEF D, v
        <4> QED BY <3>0, <4>2
      <3> HIDE DEF C, D
      <3>3. C = D
        <4> HIDE DEF v
        <4> QED BY <3>1, <3>2, SameSequence
      <3> QED BY <3>3 DEF D
    <2>9. W = [m \in DOMAIN s.mounted \union {n} |->
                 IF m \in {n} THEN NONE ELSE IF m = point THEN v ELSE s.mounted[m]]
      <3> HIDE DEF n, v
      <3> QED OBVIOUS
    <2>10. P = [m \in DOMAIN s.tmp \union {n} |-> IF m \in {n} THEN RootNode ELSE s.tmp[m]]
      <3> HIDE DEF n
      <3> QED OBVIOUS
    <2>11. Mounted(s, ops, point, t)
      <3> HIDE DEF W, P, C
      <3> QED BY <1>4, <2>7, <2>8, <2>9, <2>10 DEF Mounted
    <2> QED BY <1>4, <2>11, MountedOK DEF t
  <1> QED BY <1>3, <1>4

(* vfs_mount leaves the file systems in order, whether it mounts or not.   *)
LEMMA MountGrows ==
  ASSUME NEW s, FsOK(s), NEW ops \in {RDSK, TMPFS}, NEW path, s.all # <<>> => PathOK(s, path)
  PROVE  FsOK(vfs_mount(s, ops, path)) /\ Grows(s, vfs_mount(s, ops, path))
  <1>0. FsTypes(s) /\ Grows(s, s) /\ s.all \in Seq([ops : {RDSK, TMPFS}, mount_point : Vnodes \union {NONE}])
    BY GrowsSame DEF FsOK, FsTypes
  <1>1. CASE s.all # <<>>
    <2> DEFINE r == vfs_lookup(s, path)
               w == [r.s EXCEPT !.mounted[r.node] = Len(s.all) + 1]
    <2>1. Returns(s, r)
      BY <1>1, LookupReturns DEF vfs_lookup
    <2>2. vfs_mount(s, ops, path) =
            IF r.res # "OK" \/ r.node.type # DIR \/ r.s.mounted[r.node] # NONE THEN r.s
            ELSE Add(w, ops, r.node)
      BY <1>1 DEF vfs_mount
    <2> HIDE DEF r
    <2>3. /\ FsOK(r.s) /\ Grows(s, r.s) /\ r.s.all = s.all /\ FsTypes(r.s)
          /\ r.res = "OK" => r.node \in DOMAIN r.s.mounted
      BY <2>1 DEF Returns, Keeps, FsOK
    <2>4. CASE r.res # "OK" \/ r.node.type # DIR \/ r.s.mounted[r.node] # NONE
      BY <2>2, <2>3, <2>4
    <2>5. CASE ~(r.res # "OK" \/ r.node.type # DIR \/ r.s.mounted[r.node] # NONE)
      <3>1. Open(r.s, r.node)
        BY <2>3, <2>5 DEF Open
      <3>2. w = [r.s EXCEPT !.mounted = [m \in DOMAIN r.s.mounted |->
                                           IF m = r.node THEN Len(r.s.all) + 1 ELSE r.s.mounted[m]]]
        BY <2>3, <2>5 DEF FsTypes
      <3> HIDE DEF w
      <3>3. FsOK(Add(w, ops, r.node)) /\ Grows(r.s, Add(w, ops, r.node))
        BY <2>3, <3>1, <3>2, AddMounts
      <3>4. Grows(s, Add(w, ops, r.node))
        BY <1>0, <2>3, <3>3, GrowsMore DEF FsOK
      <3> QED BY <2>2, <2>5, <3>3, <3>4
    <2> QED BY <2>4, <2>5
  <1>2. CASE s.all = <<>> /\ path # NONE
    BY <1>0, <1>2 DEF vfs_mount
  <1>3. CASE s.all = <<>> /\ path = NONE
    <2>1. vfs_mount(s, ops, path) = Add(s, ops, NONE)
      BY <1>3 DEF vfs_mount
    <2>2. Open(s, NONE)
      BY <1>3 DEF Open
    <2>3. s = [s EXCEPT !.mounted = [m \in DOMAIN s.mounted |-> IF m = NONE THEN Len(s.all) + 1 ELSE s.mounted[m]]]
      <3>1. NONE \notin DOMAIN s.mounted /\ s.mounted = [m \in DOMAIN s.mounted |-> s.mounted[m]]
        BY <1>0, NoneAssumption DEF FsTypes
      <3>2. s.mounted = [m \in DOMAIN s.mounted |-> IF m = NONE THEN Len(s.all) + 1 ELSE s.mounted[m]]
        BY <3>1
      <3> DEFINE M == [m \in DOMAIN s.mounted |-> IF m = NONE THEN Len(s.all) + 1 ELSE s.mounted[m]]
      <3>3. s.mounted = M
        BY <3>2
      <3> HIDE DEF M
      <3>4. s = [s EXCEPT !.mounted = M]
        BY <1>0, <3>3 DEF FsTypes
      <3> QED BY <3>4 DEF M
    <2>4. FsOK(Add(s, ops, NONE)) /\ Grows(s, Add(s, ops, NONE))
      BY <2>2, <2>3, AddMounts
    <2> QED BY <2>1, <2>4
  <1> QED BY <1>1, <1>2, <1>3
---------------------------------------------------------------------------
(* A listing.                                                              *)

LEMMA NamesStep ==
  ASSUME NEW table, NEW c, Len(c) \in Nat, NEW k \in Int
  PROVE  /\ k >= Len(c) => NamesFrom(table, c, k) = {}
         /\ k \in 0..(Len(c) - 1) =>
              /\ NamesFrom(table, c, k) \subseteq {table[c[k + 1]].name} \union NamesFrom(table, c, k + 1)
              /\ table[c[k + 1]].name \in NamesFrom(table, c, 0)
         /\ k <= 0 => NamesFrom(table, c, k) = NamesFrom(table, c, 0)
  <1>1. ASSUME k >= Len(c) PROVE NamesFrom(table, c, k) = {}
    BY <1>1 DEF NamesFrom
  <1>2. ASSUME k \in 0..(Len(c) - 1)
        PROVE  NamesFrom(table, c, k) \subseteq {table[c[k + 1]].name} \union NamesFrom(table, c, k + 1)
    <2> SUFFICES ASSUME NEW i \in 1..Len(c), i > k
                 PROVE  table[c[i]].name \in {table[c[k + 1]].name} \union NamesFrom(table, c, k + 1)
      BY DEF NamesFrom
    <2>1. CASE i = k + 1
      BY <2>1
    <2>2. CASE i # k + 1
      <3>1. i > k + 1
        BY <1>2, <2>2
      <3> QED BY <3>1 DEF NamesFrom
    <2> QED BY <2>1, <2>2
  <1>3. ASSUME k \in 0..(Len(c) - 1) PROVE table[c[k + 1]].name \in NamesFrom(table, c, 0)
    <2>1. k + 1 \in 1..Len(c) /\ k + 1 > 0
      BY <1>3
    <2> QED BY <2>1 DEF NamesFrom
  <1>4. ASSUME k <= 0 PROVE NamesFrom(table, c, k) = NamesFrom(table, c, 0)
    <2>1. {i \in 1..Len(c) : i > k} = {i \in 1..Len(c) : i > 0}
      BY <1>4
    <2> QED BY <2>1 DEF NamesFrom
  <1> QED BY <1>1, <1>2, <1>3, <1>4

(* The two chains of a directory of the disk.                              *)
LEMMA DirChains ==
  ASSUME NEW s, FsOK(s), NEW n \in DOMAIN s.mounted, ~IsTmpfs(s, n), n.type = DIR
  PROVE  LET files == Chain(FileTable, DirTable[n.index].file)
             dirs == Chain(DirTable, DirTable[n.index].dir)
         IN /\ files \in Seq(1..Len(FileTable)) /\ Len(files) \in Nat /\ Len(files) <= Len(FileTable)
            /\ dirs \in Seq(1..Len(DirTable)) /\ Len(dirs) \in Nat /\ Len(FileTable) \in Nat
            /\ DOMAIN files = 1..Len(files) /\ DOMAIN dirs = 1..Len(dirs)
            /\ \A i \in 1..Len(files) : FileTable[files[i]].name \in Text
            /\ \A i \in 1..Len(dirs) : DirTable[dirs[i]].name \in Text
  <1> DEFINE f == DirTable[n.index].file
             d == DirTable[n.index].dir
             files == Chain(FileTable, f)
             dirs == Chain(DirTable, d)
  <1>1. n.index \in 1..Len(DirTable)
    BY NodeFacts DEF Table
  <1>2. f \in 0..Len(FileTable) /\ d \in 0..Len(DirTable)
    BY <1>1, Tables
  <1> HIDE DEF f, d
  <1>3. IsChain(FileTable, f, files) /\ IsChain(DirTable, d, dirs)
    BY <1>2, Tables, ChainReads
  <1>4. Len(files) <= Len(FileTable)
    BY <1>3, Tables, ChainShort
  <1> HIDE DEF files, dirs
  <1>5. files \in Seq(1..Len(FileTable)) /\ dirs \in Seq(1..Len(DirTable))
    BY <1>3 DEF IsChain
  <1>6. /\ Len(files) \in Nat /\ Len(dirs) \in Nat
        /\ DOMAIN files = 1..Len(files) /\ DOMAIN dirs = 1..Len(dirs)
        /\ \A i \in 1..Len(files) : files[i] \in 1..Len(FileTable)
        /\ \A i \in 1..Len(dirs) : dirs[i] \in 1..Len(DirTable)
    <2>1. /\ Len(files) \in Nat /\ DOMAIN files = 1..Len(files)
          /\ \A i \in 1..Len(files) : files[i] \in 1..Len(FileTable)
      BY <1>5
    <2>2. /\ Len(dirs) \in Nat /\ DOMAIN dirs = 1..Len(dirs)
          /\ \A i \in 1..Len(dirs) : dirs[i] \in 1..Len(DirTable)
      BY <1>5
    <2> QED BY <2>1, <2>2
  <1>7. /\ \A i \in 1..Len(files) : FileTable[files[i]].name \in Text
        /\ \A i \in 1..Len(dirs) : DirTable[dirs[i]].name \in Text
    BY <1>6, Tables
  <1> QED BY <1>4, <1>5, <1>6, <1>7, Tables DEF files, dirs, f, d

LEMMA ChildNames ==
  ASSUME NEW s, FsOK(s), NEW n \in DOMAIN s.tmp
  PROVE  LET c == s.tmp[n].children
         IN c \in Seq(Vnodes) /\ Len(c) \in Nat /\ DOMAIN c = 1..Len(c) /\ \A i \in 1..Len(c) : s.tmp[c[i]].name \in Text
  <1> DEFINE c == s.tmp[n].children
  <1>1. c \in Seq(Vnodes) /\ FsTypes(s)
    BY TmpFacts DEF FsOK
  <1>2. \A i \in 1..Len(c) : c[i] \in DOMAIN s.tmp
    BY DEF FsOK, Trees, Tree
  <1>3. \A i \in 1..Len(c) : s.tmp[c[i]].name \in Text
    BY <1>1, <1>2, TmpFacts
  <1> HIDE DEF c
  <1>4. Len(c) \in Nat /\ DOMAIN c = 1..Len(c)
    BY <1>1
  <1> QED BY <1>1, <1>3, <1>4 DEF c

(* Before the first call every entry is ahead.                             *)
LEMMA AllAhead ==
  ASSUME NEW s, FsOK(s), NEW n \in DOMAIN s.mounted, n.type = DIR
  PROVE  Entries(s, n) = Ahead(s, n, 0)
  <1>1. CASE IsTmpfs(s, n)
    <2> DEFINE c == s.tmp[n].children
    <2>1. Len(c) \in Nat /\ DOMAIN c = 1..Len(c)
      BY <1>1, NodeFacts, ChildNames
    <2>2. Entries(s, n) = {s.tmp[c[i]].name : i \in DOMAIN c} /\ Ahead(s, n, 0) = NamesFrom(s.tmp, c, 0)
      BY <1>1 DEF Entries, Ahead
    <2> HIDE DEF c
    <2>3. DOMAIN c = {i \in 1..Len(c) : i > 0}
      BY <2>1
    <2> QED BY <2>2, <2>3 DEF NamesFrom
  <1>2. CASE ~IsTmpfs(s, n)
    <2> DEFINE files == Chain(FileTable, DirTable[n.index].file)
               dirs == Chain(DirTable, DirTable[n.index].dir)
    <2>1. /\ Len(files) \in Nat /\ Len(dirs) \in Nat /\ Len(FileTable) \in Nat
          /\ DOMAIN files = 1..Len(files) /\ DOMAIN dirs = 1..Len(dirs)
      BY <1>2, DirChains
    <2>2. /\ Entries(s, n) = {e.name : e \in {FileTable[i] : i \in ToSet(files)}}
                               \union {e.name : e \in {DirTable[i] : i \in ToSet(dirs)}}
          /\ Ahead(s, n, 0) = NamesFrom(FileTable, files, 0) \union NamesFrom(DirTable, dirs, 0 - Len(FileTable))
      BY <1>2 DEF Entries, Ahead
    <2> HIDE DEF files, dirs
    <2>3. ASSUME NEW table, NEW c, DOMAIN c = 1..Len(c), Len(c) \in Nat
          PROVE  {e.name : e \in {table[i] : i \in ToSet(c)}} = NamesFrom(table, c, 0)
      <3>1. {i \in 1..Len(c) : i > 0} = DOMAIN c
        BY <2>3
      <3>2. NamesFrom(table, c, 0) = {table[c[i]].name : i \in DOMAIN c}
        BY <3>1 DEF NamesFrom
      <3>3. ToSet(c) = {c[i] : i \in DOMAIN c}
        BY DEF ToSet
      <3> QED BY <3>2, <3>3
    <2>4. 0 - Len(FileTable) \in Int /\ 0 - Len(FileTable) <= 0
      BY <2>1
    <2>5. NamesFrom(DirTable, dirs, 0 - Len(FileTable)) = NamesFrom(DirTable, dirs, 0)
      BY <2>1, <2>4, NamesStep
    <2> QED BY <2>1, <2>2, <2>3, <2>5
  <1> QED BY <1>1, <1>2

(* One call of readdir: an entry that was ahead is returned or stays       *)
(* ahead, and the end is reached when nothing is.                          *)
LEMMA ReaddirSteps ==
  ASSUME NEW s, FsOK(s), NEW n \in DOMAIN s.mounted, n.type = DIR, NEW offset \in Nat
  PROVE  LET e == readdir(s, n, offset)
         IN /\ e.offset \in Nat
            /\ e.name = NONE => Ahead(s, n, offset) = {}
            /\ e.name # NONE => /\ Ahead(s, n, offset) \subseteq {e.name} \union Ahead(s, n, e.offset)
                                /\ e.name \in Entries(s, n)
  <1> DEFINE e == readdir(s, n, offset)
  <1>0. Entries(s, n) = Ahead(s, n, 0)
    BY AllAhead
  <1>1. CASE IsTmpfs(s, n)
    <2> DEFINE c == s.tmp[n].children
    <2>1. Len(c) \in Nat /\ \A i \in 1..Len(c) : s.tmp[c[i]].name \in Text
      BY <1>1, NodeFacts, ChildNames
    <2>2. \A k : Ahead(s, n, k) = NamesFrom(s.tmp, c, k)
      BY <1>1 DEF Ahead
    <2>3. e = [name |-> IF offset < Len(c) THEN s.tmp[c[offset + 1]].name ELSE NONE, offset |-> offset + 1]
      BY <1>1 DEF readdir, tmpfs_readdir
    <2> HIDE DEF c, e
    <2>4. e.offset = offset + 1 /\ e.offset \in Nat
      BY <2>3
    <2>5. CASE offset < Len(c)
      <3>1. offset + 1 \in 1..Len(c) /\ offset \in 0..(Len(c) - 1) /\ offset \in Int
        BY <2>1, <2>5
      <3>2. e.name = s.tmp[c[offset + 1]].name /\ e.name # NONE
        BY <2>1, <2>3, <2>5, <3>1, NoneAssumption
      <3> QED BY <1>0, <2>1, <2>2, <2>4, <3>1, <3>2, NamesStep DEF e
    <2>6. CASE ~(offset < Len(c))
      <3>1. offset >= Len(c) /\ offset \in Int
        BY <2>1, <2>6
      <3>2. e.name = NONE
        BY <2>3, <2>6
      <3>3. NamesFrom(s.tmp, c, offset) = {}
        BY <2>1, <3>1, NamesStep
      <3> QED BY <2>2, <2>4, <3>2, <3>3 DEF e
    <2> QED BY <2>5, <2>6
  <1>2. CASE ~IsTmpfs(s, n)
    <2> DEFINE files == Chain(FileTable, DirTable[n.index].file)
               dirs == Chain(DirTable, DirTable[n.index].dir)
               N == Len(FileTable)
               local == IF offset < N THEN N ELSE offset
               d == local - N
    <2>1. /\ Len(files) \in Nat /\ Len(dirs) \in Nat /\ N \in Nat /\ Len(files) <= N
          /\ \A i \in 1..Len(files) : FileTable[files[i]].name \in Text
          /\ \A i \in 1..Len(dirs) : DirTable[dirs[i]].name \in Text
      BY <1>2, DirChains
    <2>2. \A k : Ahead(s, n, k) = NamesFrom(FileTable, files, k) \union NamesFrom(DirTable, dirs, k - N)
      BY <1>2 DEF Ahead
    <2>3. e = CASE offset < Len(files) -> [name |-> FileTable[files[offset + 1]].name, offset |-> offset + 1]
                [] offset >= Len(files) /\ d < Len(dirs) -> [name |-> DirTable[dirs[d + 1]].name, offset |-> local + 1]
                [] OTHER -> [name |-> NONE, offset |-> offset]
      BY <1>2 DEF readdir, rdsk_readdir
    <2> HIDE DEF files, dirs, e, N
    <2>4. /\ local \in Nat /\ d \in Nat /\ offset - N \in Int /\ d \in Int /\ (local + 1) - N = d + 1
          /\ offset \in Int /\ offset - N <= d /\ (offset - N # d => offset - N <= 0 /\ d = 0)
          /\ offset + 1 \in Int /\ (offset + 1) - N \in Int
      BY <2>1
    <2> HIDE DEF local, d
    <2>5. NamesFrom(DirTable, dirs, offset - N) = NamesFrom(DirTable, dirs, d)
      BY <2>1, <2>4, NamesStep
    <2>6. NamesFrom(DirTable, dirs, 0 - N) = NamesFrom(DirTable, dirs, 0)
      <3>1. 0 - N \in Int /\ 0 - N <= 0
        BY <2>1
      <3> QED BY <2>1, <3>1, NamesStep
    <2>7. CASE offset < Len(files)
      <3>1. e.name = FileTable[files[offset + 1]].name /\ e.offset = offset + 1 /\ e.offset \in Nat
        BY <2>3, <2>7
      <3>2. offset + 1 \in 1..Len(files) /\ offset \in 0..(Len(files) - 1)
        BY <2>1, <2>7
      <3>3. e.name # NONE
        BY <2>1, <3>1, <3>2, NoneAssumption
      <3>4. /\ NamesFrom(FileTable, files, offset) \subseteq {e.name} \union NamesFrom(FileTable, files, offset + 1)
            /\ e.name \in NamesFrom(FileTable, files, 0)
        BY <2>1, <2>4, <3>1, <3>2, NamesStep
      <3>5. offset - N <= 0 /\ (offset + 1) - N <= 0
        BY <2>1, <2>7
      <3>6. NamesFrom(DirTable, dirs, offset - N) = NamesFrom(DirTable, dirs, (offset + 1) - N)
        <4>1. NamesFrom(DirTable, dirs, offset - N) = NamesFrom(DirTable, dirs, 0)
          BY <2>1, <2>4, <3>5, NamesStep
        <4>2. NamesFrom(DirTable, dirs, (offset + 1) - N) = NamesFrom(DirTable, dirs, 0)
          BY <2>1, <2>4, <3>5, NamesStep
        <4> QED BY <4>1, <4>2
      <3> QED BY <1>0, <2>2, <3>1, <3>3, <3>4, <3>6 DEF e
    <2>8. CASE offset >= Len(files) /\ d < Len(dirs)
      <3>0. ~(offset < Len(files))
        BY <2>1, <2>8
      <3>1. e.name = DirTable[dirs[d + 1]].name /\ e.offset = local + 1 /\ e.offset \in Nat
        BY <2>3, <2>4, <2>8, <3>0
      <3>2. d + 1 \in 1..Len(dirs) /\ d \in 0..(Len(dirs) - 1)
        BY <2>1, <2>4, <2>8
      <3>3. e.name # NONE
        BY <2>1, <3>1, <3>2, NoneAssumption
      <3>4. /\ NamesFrom(DirTable, dirs, d) \subseteq {e.name} \union NamesFrom(DirTable, dirs, d + 1)
            /\ e.name \in NamesFrom(DirTable, dirs, 0)
        BY <2>1, <2>4, <3>1, <3>2, NamesStep
      <3>5. NamesFrom(FileTable, files, offset) = {}
        BY <2>1, <2>4, <2>8, NamesStep
      <3> QED BY <1>0, <2>2, <2>4, <2>5, <2>6, <3>1, <3>3, <3>4, <3>5 DEF e
    <2>9. CASE offset >= Len(files) /\ ~(d < Len(dirs))
      <3>0. ~(offset < Len(files)) /\ d >= Len(dirs)
        <4>1. Len(files) \in Nat /\ Len(dirs) \in Nat /\ d \in Nat
          BY <2>1, <2>4
        <4> QED BY <2>9, <4>1
      <3>1. e.name = NONE /\ e.offset = offset
        BY <2>3, <2>9, <3>0
      <3>2. NamesFrom(FileTable, files, offset) = {} /\ NamesFrom(DirTable, dirs, d) = {}
        BY <2>1, <2>4, <2>9, <3>0, NamesStep
      <3> QED BY <2>2, <2>5, <3>1, <3>2 DEF e
    <2>10. offset < Len(files) \/ offset >= Len(files)
      BY <2>1
    <2> QED BY <2>7, <2>8, <2>9, <2>10
  <1> QED BY <1>1, <1>2

(* What a listing sees of the file systems.                                *)
Wider(s, t) ==
  /\ Len(s.all) <= Len(t.all) /\ \A v \in 1..Len(s.all) : t.all[v].ops = s.all[v].ops
  /\ DOMAIN s.mounted \subseteq DOMAIN t.mounted /\ DOMAIN s.tmp \subseteq DOMAIN t.tmp
  /\ \A n \in DOMAIN s.tmp : t.tmp[n].name = s.tmp[n].name /\ Shifted(s.tmp[n].children, t.tmp[n].children)

(* A node that is made goes in front of the reader: its offset then falls  *)
(* on an entry it has seen, never past one it has not.                     *)
LEMMA ReadingKept ==
  ASSUME NEW s, NEW t, FsOK(s), FsOK(t), Wider(s, t), NEW r, Reading(s, r)
  PROVE  Reading(t, r)
  <1> DEFINE n == r.dir
  <1>1. n \in DOMAIN s.mounted /\ n.type = DIR /\ r.offset \in Nat /\ n \in DOMAIN t.mounted
    BY DEF Reading, Wider
  <1>2. IsTmpfs(t, n) <=> IsTmpfs(s, n)
    BY <1>1, NodeFacts DEF Wider, IsTmpfs
  <1>3. ASSUME NEW k \in Nat PROVE Ahead(s, n, k) \subseteq Ahead(t, n, k)
    <2>1. CASE ~IsTmpfs(s, n)
      BY <1>2, <2>1 DEF Ahead
    <2>2. CASE IsTmpfs(s, n)
      <3> DEFINE c == s.tmp[n].children
                 d == t.tmp[n].children
      <3>1. n \in DOMAIN s.tmp /\ n \in DOMAIN t.tmp
        BY <1>1, <1>2, <2>2, NodeFacts
      <3>2. Len(c) \in Nat /\ \A i \in 1..Len(c) : c[i] \in DOMAIN s.tmp
        BY <3>1, ChildNames DEF FsOK, Trees, Tree
      <3>3. Shifted(c, d)
        BY <3>1 DEF Wider
      <3>4. Ahead(s, n, k) = NamesFrom(s.tmp, c, k) /\ Ahead(t, n, k) = NamesFrom(t.tmp, d, k)
        BY <1>2, <2>2 DEF Ahead
      <3> HIDE DEF c, d
      <3>5. PICK j \in Nat : Len(d) = Len(c) + j /\ \A i \in 1..Len(c) : d[i + j] = c[i]
        BY <3>3 DEF Shifted
      <3>6. ASSUME NEW i \in 1..Len(c), i > k PROVE s.tmp[c[i]].name \in NamesFrom(t.tmp, d, k)
        <4>1. i + j \in 1..Len(d) /\ i + j > k /\ d[i + j] = c[i]
          BY <1>3, <3>2, <3>5, <3>6
        <4>2. t.tmp[c[i]].name = s.tmp[c[i]].name
          BY <3>2 DEF Wider
        <4> QED BY <4>1, <4>2 DEF NamesFrom
      <3>7. NamesFrom(s.tmp, c, k) \subseteq NamesFrom(t.tmp, d, k)
        BY <3>6 DEF NamesFrom
      <3> QED BY <3>4, <3>7
    <2> QED BY <2>1, <2>2
  <1>4. Entries(s, n) \subseteq Entries(t, n)
    <2>1. 0 \in Nat
      OBVIOUS
    <2> QED BY <1>1, <1>3, <2>1, AllAhead
  <1> QED BY <1>1, <1>3, <1>4 DEF Reading
---------------------------------------------------------------------------
(* The buffer of a file.                                                   *)

LEMMA BaseChanged ==
  ASSUME NEW s, FsOK(s), NEW n \in DOMAIN s.tmp, NEW b \in Seq(Byte), NEW t, t = [s EXCEPT !.tmp[n].base = b]
  PROVE  /\ FsOK(t) /\ Wider(s, t) /\ DOMAIN t.tmp = DOMAIN s.tmp /\ t.tmp[n].base = b
         /\ \A m \in DOMAIN s.tmp : m # n => t.tmp[m].base = s.tmp[m].base
  <1>0. FsTypes(s) /\ NodesKnown(s) /\ Trees(s) /\ Mounts(s) /\ Len(s.all) \in Nat
    BY DEF FsOK, FsTypes
  <1>1. /\ t = [all |-> t.all, mounted |-> t.mounted, cache |-> t.cache, tmp |-> t.tmp, id_counter |-> t.id_counter]
        /\ t.all = s.all /\ t.mounted = s.mounted /\ t.cache = s.cache /\ t.id_counter = s.id_counter
        /\ t.tmp = [s.tmp EXCEPT ![n].base = b]
    BY <1>0 DEF FsTypes
  <1>2. DOMAIN t.tmp = DOMAIN s.tmp /\ t.tmp[n] = [s.tmp[n] EXCEPT !.base = b]
        /\ \A m \in DOMAIN s.tmp : m # n => t.tmp[m] = s.tmp[m]
    BY <1>0, <1>1 DEF FsTypes
  <1>3. s.tmp[n] \in TmpNodes
    BY <1>0, TmpFacts
  <1>4. /\ t.tmp[n] \in TmpNodes /\ t.tmp[n].base = b /\ t.tmp[n].name = s.tmp[n].name
        /\ t.tmp[n].parent = s.tmp[n].parent /\ t.tmp[n].children = s.tmp[n].children
    <2> DEFINE o == s.tmp[n]
               q == t.tmp[n]
    <2>1. /\ o = [name |-> o.name, parent |-> o.parent, children |-> o.children, base |-> o.base]
          /\ o.name \in Text /\ o.parent \in Vnodes \union {NONE} /\ o.children \in Seq(Vnodes)
      BY <1>3 DEF TmpNodes
    <2>2. q = [o EXCEPT !.base = b]
      BY <1>2
    <2> HIDE DEF o, q
    <2>3. q = [name |-> o.name, parent |-> o.parent, children |-> o.children, base |-> b]
      BY <2>1, <2>2
    <2>4. q \in TmpNodes
      BY <2>1, <2>3 DEF TmpNodes
    <2> QED BY <2>3, <2>4 DEF o, q
  <1>5. \A m \in DOMAIN s.tmp :
          /\ t.tmp[m] \in TmpNodes /\ t.tmp[m].name = s.tmp[m].name
          /\ t.tmp[m].parent = s.tmp[m].parent /\ t.tmp[m].children = s.tmp[m].children
    BY <1>0, <1>2, <1>4, TmpFacts
  <1>6. FsTypes(t)
    <2>1. t.tmp \in [DOMAIN t.tmp -> TmpNodes]
      <3>1. t.tmp = [m \in DOMAIN t.tmp |-> t.tmp[m]]
        BY <1>0, <1>1 DEF FsTypes
      <3> QED BY <1>2, <1>5, <3>1
    <2> QED BY <1>0, <1>1, <1>2, <2>1 DEF FsTypes
  <1>7. NodesKnown(t)
    BY <1>0, <1>1, <1>2 DEF NodesKnown
  <1>8. Trees(t)
    <2>1. \A m \in DOMAIN t.tmp :
            IF m.index = 2 THEN m.type = DIR /\ t.tmp[m].parent = NONE
            ELSE LET p == t.tmp[m].parent
                 IN p \in DOMAIN t.tmp /\ p.type = DIR /\ \E i \in 1..Len(t.tmp[p].children) : t.tmp[p].children[i] = m
      <3> SUFFICES ASSUME NEW m \in DOMAIN t.tmp
                   PROVE  IF m.index = 2 THEN m.type = DIR /\ t.tmp[m].parent = NONE
                          ELSE LET p == t.tmp[m].parent
                               IN /\ p \in DOMAIN t.tmp /\ p.type = DIR
                                  /\ \E i \in 1..Len(t.tmp[p].children) : t.tmp[p].children[i] = m
        OBVIOUS
      <3>1. m \in DOMAIN s.tmp /\ t.tmp[m].parent = s.tmp[m].parent
        BY <1>2, <1>5
      <3>2. CASE m.index = 2
        BY <1>0, <3>1, <3>2 DEF Trees, Tree
      <3>3. CASE m.index # 2
        <4> DEFINE p == s.tmp[m].parent
        <4>1. p \in DOMAIN s.tmp /\ p.type = DIR /\ \E i \in 1..Len(s.tmp[p].children) : s.tmp[p].children[i] = m
          BY <1>0, <3>1, <3>3 DEF Trees, Tree
        <4> HIDE DEF p
        <4>2. \E i \in 1..Len(t.tmp[p].children) : t.tmp[p].children[i] = m
          BY <1>5, <4>1
        <4> QED BY <1>2, <3>1, <3>3, <4>1, <4>2 DEF p
      <3> QED BY <3>2, <3>3
    <2>2. ASSUME NEW d \in DOMAIN t.tmp, NEW i \in 1..Len(t.tmp[d].children)
          PROVE  t.tmp[d].children[i] \in DOMAIN t.tmp /\ t.tmp[t.tmp[d].children[i]].parent = d
      <3>1. d \in DOMAIN s.tmp /\ t.tmp[d].children = s.tmp[d].children
        BY <1>2, <1>5
      <3>2. s.tmp[d].children[i] \in DOMAIN s.tmp /\ s.tmp[s.tmp[d].children[i]].parent = d
        BY <1>0, <3>1 DEF Trees, Tree
      <3> QED BY <1>2, <1>5, <3>1, <3>2
    <2>3. \A d \in DOMAIN t.tmp : \A i, j \in 1..Len(t.tmp[d].children) :
            t.tmp[t.tmp[d].children[i]].name = t.tmp[t.tmp[d].children[j]].name => i = j
      <3> SUFFICES ASSUME NEW d \in DOMAIN t.tmp, NEW i \in 1..Len(t.tmp[d].children),
                          NEW j \in 1..Len(t.tmp[d].children),
                          t.tmp[t.tmp[d].children[i]].name = t.tmp[t.tmp[d].children[j]].name
                   PROVE  i = j
        OBVIOUS
      <3>1. d \in DOMAIN s.tmp /\ t.tmp[d].children = s.tmp[d].children
        BY <1>2, <1>5
      <3>2. s.tmp[d].children[i] \in DOMAIN s.tmp /\ s.tmp[d].children[j] \in DOMAIN s.tmp
        BY <1>0, <3>1 DEF Trees, Tree
      <3>3. s.tmp[s.tmp[d].children[i]].name = s.tmp[s.tmp[d].children[j]].name
        <4>1. /\ t.tmp[s.tmp[d].children[i]].name = s.tmp[s.tmp[d].children[i]].name
              /\ t.tmp[s.tmp[d].children[j]].name = s.tmp[s.tmp[d].children[j]].name
          BY <1>5, <3>2
        <4> QED BY <3>1, <4>1
      <3> QED BY <1>0, <3>1, <3>3 DEF Trees, Tree
    <2> QED BY <2>1, <2>2, <2>3 DEF Trees, Tree
  <1>9. Mounts(t)
    BY <1>0, <1>1 DEF Mounts
  <1>10. Wider(s, t)
    <2>1. \A m \in DOMAIN s.tmp : Shifted(s.tmp[m].children, t.tmp[m].children)
      BY <1>0, <1>5, TmpFacts, ShiftedSame
    <2> QED BY <1>0, <1>1, <1>2, <1>5, <2>1 DEF Wider
  <1> QED BY <1>2, <1>4, <1>6, <1>7, <1>8, <1>9, <1>10 DEF FsOK

(* The bytes that two buffers agree on, where the first is not a gap.      *)
Agrees(old, base) ==
  /\ old \in Seq(Byte) /\ base \in Seq(Byte) /\ Len(old) = Len(base)
  /\ \A i \in 1..Len(old) : old[i] \in {base[i], JUNK}

(* A lookup may make vnodes on its way to the file that is written.        *)
LEMMA LooksInv ==
  ASSUME VfsInv, NEW t, FsOK(t), Grows(fs, t), t.tmp = fs.tmp
  PROVE  /\ reader # NONE => Reading(t, reader)
         /\ want = [n \in {m \in DOMAIN t.tmp : m.type = FILE} |-> want[n]]
         /\ \A n \in DOMAIN want : n \in DOMAIN t.tmp /\ Agrees(want[n], t.tmp[n].base)
  <1>1. FsOK(fs) /\ Bytes
    BY DEF VfsInv
  <1>2. reader # NONE => Reading(t, reader)
    <2>1. Wider(fs, t)
      BY DEF Grows, Wider
    <2> QED BY <1>1, <2>1, ReadingKept DEF VfsInv
  <1>3. want = [n \in {m \in DOMAIN t.tmp : m.type = FILE} |-> want[n]]
    BY <1>1 DEF Bytes
  <1>4. ASSUME NEW n \in DOMAIN want PROVE n \in DOMAIN t.tmp /\ Agrees(want[n], t.tmp[n].base)
    <2>1. n \in DOMAIN fs.tmp
      BY <1>3
    <2>2. fs.tmp[n].base \in Seq(Byte)
      BY <1>1, <2>1, TmpFacts DEF FsOK
    <2> QED BY <1>1, <2>1, <2>2 DEF Bytes, Agrees
  <1> QED BY <1>2, <1>3, <1>4

(* A change of one buffer and of what it should hold.                      *)
LEMMA BufferKeeps ==
  ASSUME VfsInv, NEW s, FsOK(s), Grows(fs, s), s.tmp = fs.tmp, NEW n \in DOMAIN want, NEW b, NEW x, Agrees(x, b),
         fs' = [s EXCEPT !.tmp[n].base = b], want' = [want EXCEPT ![n] = x], UNCHANGED reader
  PROVE  VfsInv'
  <1>1. /\ reader # NONE => Reading(s, reader)
        /\ want = [m \in {m \in DOMAIN s.tmp : m.type = FILE} |-> want[m]]
        /\ \A m \in DOMAIN want : m \in DOMAIN s.tmp /\ Agrees(want[m], s.tmp[m].base)
    BY LooksInv
  <1>2. b \in Seq(Byte) /\ x \in Seq(Byte) /\ n \in DOMAIN s.tmp
    BY <1>1 DEF Agrees
  <1>3. /\ FsOK(fs') /\ Wider(s, fs') /\ DOMAIN fs'.tmp = DOMAIN s.tmp /\ fs'.tmp[n].base = b
        /\ \A m \in DOMAIN s.tmp : m # n => fs'.tmp[m].base = s.tmp[m].base
    BY <1>2, BaseChanged
  <1>4. /\ want' = [m \in {m \in DOMAIN fs'.tmp : m.type = FILE} |-> want'[m]]
        /\ DOMAIN want' = DOMAIN want /\ want'[n] = x /\ \A m \in DOMAIN want : m # n => want'[m] = want[m]
    BY <1>1, <1>3
  <1>5. \A m \in DOMAIN want' : Agrees(want'[m], fs'.tmp[m].base)
    <2> SUFFICES ASSUME NEW m \in DOMAIN want' PROVE Agrees(want'[m], fs'.tmp[m].base)
      OBVIOUS
    <2>1. CASE m = n
      BY <1>3, <1>4, <2>1
    <2>2. CASE m # n
      <3>1. m \in DOMAIN want /\ m \in DOMAIN s.tmp
        BY <1>1, <1>4
      <3>2. want'[m] = want[m] /\ fs'.tmp[m].base = s.tmp[m].base
        BY <1>3, <1>4, <2>2, <3>1
      <3> QED BY <1>1, <3>1, <3>2
    <2> QED BY <2>1, <2>2
  <1>6. Bytes'
    BY <1>4, <1>5 DEF Bytes, Agrees
  <1>7. reader' # NONE => Reading(fs', reader')
    BY <1>1, <1>3, ReadingKept
  <1> QED BY <1>3, <1>6, <1>7 DEF VfsInv

LEMMA FunctionSeq ==
  ASSUME NEW X, NEW k \in Nat, NEW f \in [1..k -> X]
  PROVE  f \in Seq(X) /\ Len(f) = k
  OBVIOUS

(* The heap's copy and the write agree with what the bytes should be.      *)
LEMMA WriteAgrees ==
  ASSUME NEW old, NEW base, Agrees(old, base), NEW offset \in Nat, NEW buffer \in Seq(Byte),
         NEW big, big = IF offset + Len(buffer) > Len(base) THEN heap_realloc(base, Len(base), offset + Len(buffer))
                        ELSE base,
         NEW b, b = [i \in DOMAIN big |->
                       IF i > offset /\ i <= offset + Len(buffer) THEN buffer[i - offset] ELSE big[i]]
  PROVE  Agrees(Overwrite(old, offset, buffer), b)
  <1> DEFINE end == offset + Len(buffer)
             size == IF end > Len(old) THEN end ELSE Len(old)
             x == Overwrite(old, offset, buffer)
  <1>1. /\ old \in Seq(Byte) /\ base \in Seq(Byte) /\ Len(old) = Len(base) /\ Len(old) \in Nat
        /\ Len(buffer) \in Nat /\ end \in Nat /\ size \in Nat /\ DOMAIN base = 1..Len(base) /\ JUNK \in Byte
        /\ \A i \in 1..Len(old) : old[i] \in Byte /\ base[i] \in Byte /\ old[i] \in {base[i], JUNK}
        /\ \A i \in 1..Len(buffer) : buffer[i] \in Byte
    BY DEF Agrees, Byte
  <1>2. DOMAIN big = 1..size /\ \A i \in 1..size : big[i] = IF i <= Len(old) THEN base[i] ELSE JUNK
    <2>1. CASE end > Len(base)
      <3>1. big = [i \in 1..end |-> IF i <= Len(base) THEN base[i] ELSE JUNK]
        <4>1. big = heap_realloc(base, Len(base), end) /\ Len(base) # end
          BY <1>1, <2>1
        <4> QED BY <4>1 DEF heap_realloc
      <3> QED BY <1>1, <2>1, <3>1
    <2>2. CASE ~(end > Len(base))
      BY <1>1, <2>2
    <2> QED BY <2>1, <2>2
  <1>3. x = [i \in 1..size |-> IF i > offset /\ i <= end THEN buffer[i - offset]
                               ELSE IF i <= Len(old) THEN old[i] ELSE JUNK]
    BY DEF Overwrite
  <1>4. b = [i \in 1..size |-> IF i > offset /\ i <= end THEN buffer[i - offset] ELSE big[i]]
    BY <1>2
  <1> HIDE DEF x, size, end
  <1>5. ASSUME NEW i \in 1..size PROVE x[i] \in Byte /\ b[i] \in Byte /\ x[i] \in {b[i], JUNK}
    <2>1. CASE i > offset /\ i <= end
      <3>1. i - offset \in 1..Len(buffer)
        BY <1>1, <2>1 DEF end
      <3>2. x[i] = buffer[i - offset] /\ b[i] = buffer[i - offset]
        BY <1>3, <1>4, <2>1
      <3>3. buffer[i - offset] \in Byte
        BY <1>1, <3>1
      <3> QED BY <3>2, <3>3
    <2>2. CASE ~(i > offset /\ i <= end)
      <3>1. x[i] = (IF i <= Len(old) THEN old[i] ELSE JUNK) /\ b[i] = big[i]
        BY <1>3, <1>4, <2>2
      <3>2. big[i] = IF i <= Len(old) THEN base[i] ELSE JUNK
        BY <1>2
      <3>3. i <= Len(old) => i \in 1..Len(old)
        BY <1>1
      <3> QED BY <1>1, <3>1, <3>2, <3>3
    <2> QED BY <2>1, <2>2
  <1>6. x \in [1..size -> Byte] /\ b \in [1..size -> Byte]
    BY <1>3, <1>4, <1>5
  <1>7. x \in Seq(Byte) /\ b \in Seq(Byte) /\ Len(x) = size /\ Len(b) = size
    <2>1. size \in Nat
      BY <1>1 DEF size, end
    <2> QED BY <1>6, <2>1, FunctionSeq
  <1> QED BY <1>5, <1>7 DEF Agrees, x

LEMMA TruncateAgrees ==
  ASSUME NEW old, NEW base, Agrees(old, base), NEW length \in Nat
  PROVE  Agrees([i \in 1..length |-> IF i <= Len(old) THEN old[i] ELSE ZERO],
                [i \in 1..length |-> IF i <= Len(base) THEN base[i] ELSE ZERO])
  <1> DEFINE x == [i \in 1..length |-> IF i <= Len(old) THEN old[i] ELSE ZERO]
             b == [i \in 1..length |-> IF i <= Len(base) THEN base[i] ELSE ZERO]
  <1>1. /\ old \in Seq(Byte) /\ base \in Seq(Byte) /\ Len(old) = Len(base) /\ Len(old) \in Nat /\ ZERO \in Byte
        /\ \A i \in 1..Len(old) : old[i] \in Byte /\ base[i] \in Byte /\ old[i] \in {base[i], JUNK}
    BY DEF Agrees, Byte
  <1>2. \A i \in 1..length : x[i] \in Byte /\ b[i] \in Byte /\ x[i] \in {b[i], JUNK}
    BY <1>1
  <1>3. x \in [1..length -> Byte] /\ b \in [1..length -> Byte]
    BY <1>2
  <1> HIDE DEF x, b
  <1>4. x \in Seq(Byte) /\ b \in Seq(Byte) /\ Len(x) = length /\ Len(b) = length
    BY <1>3
  <1>5. Agrees(x, b)
    BY <1>2, <1>4 DEF Agrees
  <1> QED BY <1>5 DEF x, b
---------------------------------------------------------------------------
(* The actions.                                                            *)

LEMMA SettleKeeps ==
  ASSUME VfsInv, NEW t, FsOK(t), Grows(fs, t), Settle(t)
  PROVE  VfsInv'
  <1>1. FsOK(fs) /\ Bytes /\ fs' = t /\ reader' = reader
    BY DEF VfsInv, Settle
  <1>2. want' = [n \in {m \in DOMAIN t.tmp : m.type = FILE} |-> IF n \in DOMAIN want THEN want[n] ELSE <<>>]
    BY DEF Settle
  <1>3. /\ want = [m \in {m \in DOMAIN fs.tmp : m.type = FILE} |-> want[m]]
        /\ \A m \in DOMAIN want :
             /\ want[m] \in Seq(Byte) /\ Len(want[m]) = Len(fs.tmp[m].base)
             /\ \A i \in 1..Len(want[m]) : want[m][i] \in {fs.tmp[m].base[i], JUNK}
    BY <1>1 DEF Bytes
  <1>4. ASSUME NEW n \in DOMAIN want'
        PROVE  /\ want'[n] \in Seq(Byte) /\ Len(want'[n]) = Len(t.tmp[n].base)
               /\ \A i \in 1..Len(want'[n]) : want'[n][i] \in {t.tmp[n].base[i], JUNK}
    <2>1. CASE n \in DOMAIN want
      <3>1. want'[n] = want[n] /\ n \in DOMAIN fs.tmp
        BY <1>2, <1>3, <2>1
      <3>2. t.tmp[n].base = fs.tmp[n].base
        BY <3>1 DEF Grows
      <3> QED BY <1>3, <2>1, <3>1, <3>2
    <2>2. CASE n \notin DOMAIN want
      <3>1. want'[n] = <<>> /\ n \in DOMAIN t.tmp /\ n \notin DOMAIN fs.tmp
        BY <1>2, <1>3, <2>2
      <3>2. t.tmp[n].base = <<>>
        BY <3>1 DEF Grows
      <3>3. Len(want'[n]) = 0 /\ want'[n] \in Seq(Byte) /\ Len(t.tmp[n].base) = 0
        BY <3>1, <3>2
      <3> QED BY <3>3
    <2> QED BY <2>1, <2>2
  <1>5. want' = [n \in {m \in DOMAIN t.tmp : m.type = FILE} |-> want'[n]]
    BY <1>2
  <1>6. Bytes'
    BY <1>1, <1>4, <1>5 DEF Bytes
  <1>7. reader # NONE => Reading(t, reader)
    <2>1. Wider(fs, t)
      BY DEF Grows, Wider
    <2> QED BY <1>1, <2>1, ReadingKept DEF VfsInv
  <1> QED BY <1>1, <1>6, <1>7 DEF VfsInv

LEMMA AbsoluteOK ==
  ASSUME NEW s, NEW t \in Paths PROVE PathOK(s, PathFrom(NONE, t))
  BY VfsAssumption DEF PathOK, PathFrom

LEMMA RelativeOK ==
  ASSUME NEW s, NEW t \in Paths, NEW n \in DOMAIN s.mounted PROVE PathOK(s, PathFrom(n, t))
  BY VfsAssumption DEF PathOK, PathFrom

LEMMA MountKeeps ==
  ASSUME VfsInv, Mount PROVE VfsInv'
  <1>1. FsOK(fs)
    BY DEF VfsInv
  <1>2. PICK ops \in {RDSK, TMPFS} :
          \/ fs.all = <<>> /\ Settle(vfs_mount(fs, ops, NONE))
          \/ fs.all # <<>> /\ \E t \in Paths : Settle(vfs_mount(fs, ops, PathFrom(NONE, t)))
    BY DEF Mount
  <1>3. CASE fs.all = <<>> /\ Settle(vfs_mount(fs, ops, NONE))
    <2>1. FsOK(vfs_mount(fs, ops, NONE)) /\ Grows(fs, vfs_mount(fs, ops, NONE))
      BY <1>1, <1>3, MountGrows
    <2> QED BY <1>3, <2>1, SettleKeeps
  <1>4. ASSUME NEW t \in Paths, Settle(vfs_mount(fs, ops, PathFrom(NONE, t))) PROVE VfsInv'
    <2> DEFINE path == PathFrom(NONE, t)
    <2>1. PathOK(fs, path)
      BY AbsoluteOK
    <2> HIDE DEF path
    <2>2. FsOK(vfs_mount(fs, ops, path)) /\ Grows(fs, vfs_mount(fs, ops, path))
      BY <1>1, <2>1, MountGrows
    <2> QED BY <1>4, <2>2, SettleKeeps DEF path
  <1> QED BY <1>2, <1>3, <1>4

LEMMA LookupKeeps ==
  ASSUME VfsInv, Lookup PROVE VfsInv'
  <1>1. FsOK(fs)
    BY DEF VfsInv
  <1>2. PICK path \in Absolute \union Relative, create \in {NONE, DIR, FILE}, exclusive \in BOOLEAN :
          Settle(vfs_lookup_ext(fs, path, create, exclusive).s)
    BY DEF Lookup
  <1>3. PathOK(fs, path)
    <2>1. CASE path \in Absolute
      BY <2>1, AbsoluteOK DEF Absolute
    <2>2. CASE path \in Relative
      <3>1. PICK n \in DOMAIN fs.mounted, t \in Paths : path = PathFrom(n, t)
        BY <2>2 DEF Relative
      <3> QED BY <3>1, RelativeOK
    <2> QED BY <2>1, <2>2
  <1>4. Returns(fs, vfs_lookup_ext(fs, path, create, exclusive))
    BY <1>1, <1>3, LookupReturns
  <1> QED BY <1>2, <1>4, SettleKeeps DEF Returns, Keeps

LEMMA MakeKeeps ==
  ASSUME VfsInv, Make PROVE VfsInv'
  <1>1. FsOK(fs)
    BY DEF VfsInv
  <1>2. PICK path \in Absolute, type \in {DIR, FILE}, name \in Name : Settle(vfs_make(fs, path, type, name).s)
    BY DEF Make
  <1>3. PathOK(fs, path) /\ name \in Text
    BY AbsoluteOK, VfsAssumption DEF Absolute
  <1>4. Returns(fs, vfs_make(fs, path, type, name))
    BY <1>1, <1>3, MakesReturns
  <1> QED BY <1>2, <1>4, SettleKeeps DEF Returns, Keeps

LEMMA ShortSequences ==
  ASSUME NEW X, NEW x \in X, NEW y \in X
  PROVE  <<>> \in Seq(X) /\ <<x>> \in Seq(X) /\ <<y, x>> \in Seq(X)
  OBVIOUS

LEMMA WriteKeeps ==
  ASSUME VfsInv, Write PROVE VfsInv'
  <1>1. FsOK(fs)
    BY DEF VfsInv
  <1>2. PICK path \in Absolute, offset \in 0..MAX_SIZE, buffer \in {<<>>, <<"x">>, <<"y", "x">>} :
          LET r == vfs_lookup(fs, path)
          IN /\ r.res = "OK" /\ r.node.type = FILE /\ IsTmpfs(fs, r.node)
             /\ fs' = tmpfs_write(r.s, r.node, offset, buffer)
             /\ want' = [want EXCEPT ![r.node] = Overwrite(@, offset, buffer)]
             /\ UNCHANGED reader
    BY DEF Write
  <1> DEFINE r == vfs_lookup(fs, path)
             s == r.s
             n == r.node
             old == s.tmp[n].base
             end == offset + Len(buffer)
             big == IF end > Len(old) THEN heap_realloc(old, Len(old), end) ELSE old
             b == [i \in DOMAIN big |-> IF i > offset /\ i <= end THEN buffer[i - offset] ELSE big[i]]
             x == Overwrite(want[n], offset, buffer)
  <1>3. /\ r.res = "OK" /\ n.type = FILE /\ IsTmpfs(fs, n) /\ fs' = tmpfs_write(s, n, offset, buffer)
        /\ want' = [want EXCEPT ![n] = Overwrite(@, offset, buffer)] /\ reader' = reader
    BY <1>2
  <1>4. PathOK(fs, path) /\ offset \in Nat
    BY AbsoluteOK, VfsAssumption DEF Absolute
  <1>5. Returns(fs, r) /\ s.tmp = fs.tmp
    BY <1>1, <1>4, LookupReturns DEF vfs_lookup
  <1>6. fs' = [s EXCEPT !.tmp[n].base = b]
    BY <1>3 DEF tmpfs_write
  <1> HIDE DEF r
  <1>7. FsOK(s) /\ Grows(fs, s) /\ s.all = fs.all /\ n \in DOMAIN s.mounted
    BY <1>3, <1>5 DEF Returns, Keeps
  <1>8. n \in DOMAIN s.tmp
    BY <1>3, <1>7, NodeFacts DEF IsTmpfs
  <1>9. /\ want = [m \in {m \in DOMAIN s.tmp : m.type = FILE} |-> want[m]]
        /\ \A m \in DOMAIN want : m \in DOMAIN s.tmp /\ Agrees(want[m], s.tmp[m].base)
    BY <1>5, <1>7, LooksInv
  <1>10. n \in DOMAIN want
    BY <1>3, <1>8, <1>9
  <1>11. want' = [want EXCEPT ![n] = x]
    BY <1>3, <1>10
  <1> HIDE DEF s, n
  <1>12. Agrees(want[n], old)
    BY <1>9, <1>10
  <1>13. buffer \in Seq(Byte)
    <2>1. "x" \in Byte /\ "y" \in Byte
      BY DEF Byte
    <2>2. /\ buffer = <<>> => buffer \in Seq(Byte)
          /\ buffer = <<"x">> => buffer \in Seq(Byte)
          /\ buffer = <<"y", "x">> => buffer \in Seq(Byte)
      BY <2>1, ShortSequences
    <2>3. buffer = <<>> \/ buffer = <<"x">> \/ buffer = <<"y", "x">>
      OBVIOUS
    <2> QED BY <2>2, <2>3
  <1>14. Agrees(x, b)
    <2> HIDE DEF old
    <2> QED BY <1>4, <1>12, <1>13, WriteAgrees
  <1> HIDE DEF b, x, old
  <1> QED BY <1>3, <1>5, <1>6, <1>7, <1>10, <1>11, <1>14, BufferKeeps DEF s

LEMMA TruncateKeeps ==
  ASSUME VfsInv, Truncate PROVE VfsInv'
  <1>1. PICK n \in DOMAIN want, length \in 0..MAX_SIZE :
          /\ fs' = tmpfs_truncate(fs, n, length)
          /\ want' = [want EXCEPT ![n] = [i \in 1..length |-> IF i <= Len(@) THEN @[i] ELSE ZERO]]
          /\ UNCHANGED reader
    BY DEF Truncate
  <1> DEFINE old == fs.tmp[n].base
             b == [i \in 1..length |-> IF i <= Len(old) THEN old[i] ELSE ZERO]
             x == [i \in 1..length |-> IF i <= Len(want[n]) THEN want[n][i] ELSE ZERO]
  <1>2. length \in Nat /\ FsOK(fs)
    BY VfsAssumption DEF VfsInv
  <1>3. Agrees(want[n], old)
    <2>1. FsTypes(fs) /\ Grows(fs, fs)
      BY <1>2, GrowsSame DEF FsOK
    <2> QED BY <1>2, <2>1, LooksInv
  <1>4. Agrees(x, b)
    BY <1>2, <1>3, TruncateAgrees
  <1>5. want' = [want EXCEPT ![n] = x]
    BY <1>1
  <1>6. fs' = [fs EXCEPT !.tmp[n].base = b]
    BY <1>1 DEF tmpfs_truncate
  <1> HIDE DEF x, b
  <1>7. Grows(fs, fs)
    BY <1>2, GrowsSame DEF FsOK
  <1> QED BY <1>1, <1>2, <1>4, <1>5, <1>6, <1>7, BufferKeeps

LEMMA ReaderFields ==
  ASSUME NEW r, NEW q, NEW dir, NEW offset, NEW seen, NEW there, NEW done,
         r = [dir |-> dir, offset |-> offset, seen |-> seen, there |-> there, done |-> done],
         NEW o, NEW d, NEW x, q = [r EXCEPT !.offset = o, !.done = d, !.seen = x]
  PROVE  q = [dir |-> dir, offset |-> o, seen |-> x, there |-> there, done |-> d]
  OBVIOUS

LEMMA ListingKeeps ==
  ASSUME VfsInv, StartListing \/ Readdir \/ StopListing PROVE VfsInv'
  <1>1. FsOK(fs) /\ Bytes /\ fs' = fs /\ want' = want
    BY DEF VfsInv, StartListing, Readdir, StopListing
  <1>2. FsOK(fs') /\ Bytes'
    BY <1>1 DEF Bytes
  <1>3. CASE StopListing
    BY <1>2, <1>3 DEF StopListing, VfsInv
  <1>4. CASE StartListing
    <2>1. PICK n \in DOMAIN fs.mounted :
            /\ n.type = DIR
            /\ reader' = [dir |-> n, offset |-> 0, seen |-> {}, there |-> Entries(fs, n), done |-> FALSE]
      BY <1>4 DEF StartListing
    <2>2. Entries(fs, n) = Ahead(fs, n, 0)
      BY <1>1, <2>1, AllAhead
    <2>3. /\ reader'.dir = n /\ reader'.offset = 0 /\ reader'.seen = {} /\ reader'.there = Entries(fs, n)
          /\ reader'.done = FALSE
          /\ reader' = [dir |-> reader'.dir, offset |-> reader'.offset, seen |-> reader'.seen,
                        there |-> reader'.there, done |-> reader'.done]
      BY <2>1
    <2>4. Reading(fs, reader')
      BY <2>1, <2>2, <2>3 DEF Reading
    <2> QED BY <1>1, <1>2, <2>4 DEF VfsInv
  <1>5. CASE Readdir
    <2> DEFINE e == readdir(fs, reader.dir, reader.offset)
               n == reader.dir
    <2>1. /\ reader # NONE /\ ~reader.done
          /\ reader' = [reader EXCEPT !.offset = e.offset, !.done = e.name = NONE,
                                      !.seen = IF e.name = NONE THEN @ ELSE @ \union {e.name}]
      BY <1>5 DEF Readdir
    <2>2. /\ reader = [dir |-> n, offset |-> reader.offset, seen |-> reader.seen, there |-> reader.there,
                       done |-> reader.done]
          /\ n \in DOMAIN fs.mounted /\ n.type = DIR /\ reader.offset \in Nat
          /\ reader.seen \subseteq Entries(fs, n)
          /\ reader.there \subseteq reader.seen \union Ahead(fs, n, reader.offset)
      BY <2>1 DEF VfsInv, Reading
    <2>3. /\ e.offset \in Nat
          /\ e.name = NONE => Ahead(fs, n, reader.offset) = {}
          /\ e.name # NONE => /\ Ahead(fs, n, reader.offset) \subseteq {e.name} \union Ahead(fs, n, e.offset)
                              /\ e.name \in Entries(fs, n)
      BY <1>1, <2>2, ReaddirSteps
    <2> HIDE DEF e, n
    <2>4. /\ reader'.dir = n /\ reader'.offset = e.offset /\ reader'.done = (e.name = NONE)
          /\ reader'.seen = (IF e.name = NONE THEN reader.seen ELSE reader.seen \union {e.name})
          /\ reader'.there = reader.there
          /\ reader' = [dir |-> reader'.dir, offset |-> reader'.offset, seen |-> reader'.seen,
                        there |-> reader'.there, done |-> reader'.done]
      <3>0. PICK end : end = (e.name = NONE)
        OBVIOUS
      <3> DEFINE new == IF e.name = NONE THEN reader.seen ELSE reader.seen \union {e.name}
      <3>1. reader' = [reader EXCEPT !.offset = e.offset, !.done = end, !.seen = new]
        BY <2>1, <3>0
      <3> HIDE DEF new
      <3>2. reader' = [dir |-> n, offset |-> e.offset, seen |-> new, there |-> reader.there, done |-> end]
        <4>1. PICK o, x, there, done :
                reader = [dir |-> n, offset |-> o, seen |-> x, there |-> there, done |-> done]
          BY <2>2
        <4>2. reader.there = there
          BY <4>1
        <4>3. reader' = [dir |-> n, offset |-> e.offset, seen |-> new, there |-> there, done |-> end]
          BY <3>1, <4>1, ReaderFields
        <4> QED BY <4>2, <4>3
      <3> QED BY <3>0, <3>2 DEF new
    <2>5. Reading(fs, reader')
      <3>1. CASE e.name = NONE
        BY <2>2, <2>3, <2>4, <3>1 DEF Reading
      <3>2. CASE e.name # NONE
        BY <2>2, <2>3, <2>4, <3>2 DEF Reading
      <3> QED BY <3>1, <3>2
    <2> QED BY <1>1, <1>2, <2>5 DEF VfsInv
  <1> QED BY <1>3, <1>4, <1>5

LEMMA InitOK ==
  ASSUME Init PROVE VfsInv
  <1> DEFINE s == EmptyFs
  <1>1. fs = s /\ want = [n \in {} |-> <<>>] /\ reader = NONE
    BY DEF Init
  <1>2. /\ s = [all |-> s.all, mounted |-> s.mounted, cache |-> s.cache, tmp |-> s.tmp, id_counter |-> s.id_counter]
        /\ s.all = <<>> /\ s.mounted = [n \in {} |-> NONE] /\ s.tmp = [n \in {} |-> NONE] /\ s.id_counter = <<>>
    BY DEF EmptyFs
  <1> HIDE DEF s
  <1>3. Len(s.all) = 0 /\ Len(s.id_counter) = 0 /\ DOMAIN s.mounted = {} /\ DOMAIN s.tmp = {}
    BY <1>2
  <1>4. FsTypes(s)
    BY <1>2, <1>3 DEF FsTypes
  <1>5. NodesKnown(s) /\ Trees(s) /\ Mounts(s)
    BY <1>3 DEF NodesKnown, Trees, Tree, Mounts
  <1>6. Bytes
    <2>1. DOMAIN want = {} /\ DOMAIN fs.tmp = {}
      BY <1>1, <1>3
    <2>2. {m \in DOMAIN fs.tmp : m.type = FILE} = {}
      BY <2>1
    <2>3. want = [n \in {m \in DOMAIN fs.tmp : m.type = FILE} |-> want[n]]
      BY <1>1, <2>2
    <2> QED BY <2>1, <2>3 DEF Bytes
  <1> QED BY <1>1, <1>4, <1>5, <1>6 DEF VfsInv, FsOK

LEMMA NextKeepsVfs ==
  ASSUME VfsInv, [Next]_vars PROVE VfsInv'
  <1>1. CASE UNCHANGED vars
    BY <1>1 DEF vars, VfsInv, Bytes
  <1> QED BY <1>1, MountKeeps, LookupKeeps, MakeKeeps, WriteKeeps, TruncateKeeps, ListingKeeps DEF Next

---------------------------------------------------------------------------
(* The properties.                                                         *)

LEMMA TmpfsTrees ==
  ASSUME VfsInv PROVE TreesWellFormed
  <1>0. FsOK(fs) /\ FsTypes(fs) /\ NodesKnown(fs) /\ Trees(fs)
    BY DEF VfsInv, FsOK
  <1>1. ASSUME NEW n \in DOMAIN fs.tmp, n \notin FsRoots PROVE n.index # 2
    <2> SUFFICES ASSUME n.index = 2 PROVE FALSE
      OBVIOUS
    <2>1. n \in DOMAIN fs.mounted /\ fs.all[n.vfs].ops = TMPFS
      BY <1>0 DEF NodesKnown
    <2>2. n = Vnode(n.vfs, n.type, n.index, 1) /\ n.type = DIR
      BY <1>0, <2>1, VnodeIs DEF Trees, Tree
    <2>3. n = Root(n.vfs)
      BY <2>2 DEF Root
    <2>4. n.vfs \in 1..Len(fs.all) /\ n.vfs \in DOMAIN fs.all
      BY <1>0, <2>1, NodeFacts DEF FsTypes
    <2>5. root_node(fs, n.vfs).node = Root(n.vfs)
      BY <1>0, <2>1, <2>4, RootReturns
    <2> QED BY <1>1, <2>3, <2>4, <2>5 DEF FsRoots
  <1>2. ASSUME NEW n \in DOMAIN fs.tmp \ FsRoots
        PROVE  /\ fs.tmp[n].parent \in Dirs
               /\ \A d \in Dirs : Cardinality({i \in DOMAIN fs.tmp[d].children : fs.tmp[d].children[i] = n})
                                    = IF d = fs.tmp[n].parent THEN 1 ELSE 0
    <2> DEFINE p == fs.tmp[n].parent
    <2>1. p \in DOMAIN fs.tmp /\ p.type = DIR /\ \E i \in 1..Len(fs.tmp[p].children) : fs.tmp[p].children[i] = n
      BY <1>0, <1>1 DEF Trees, Tree
    <2>2. ASSUME NEW d \in Dirs
          PROVE  Cardinality({i \in DOMAIN fs.tmp[d].children : fs.tmp[d].children[i] = n})
                   = IF d = p THEN 1 ELSE 0
      <3> DEFINE c == fs.tmp[d].children
                 S == {i \in DOMAIN c : c[i] = n}
      <3>1. d \in DOMAIN fs.tmp /\ DOMAIN c = 1..Len(c) /\ Len(c) \in Nat
        BY <1>0, ChildNames DEF Dirs
      <3>2. CASE d = p
        <4>1. PICK i \in 1..Len(c) : c[i] = n
          BY <2>1, <3>2
        <4>2. \A j \in 1..Len(c) : c[j] = n => j = i
          BY <1>0, <3>1, <4>1 DEF Trees, Tree
        <4>3. S = {i}
          BY <3>1, <4>1, <4>2
        <4> HIDE DEF S
        <4>4. Cardinality(S) = 1
          BY <4>3, FS_Singleton
        <4> QED BY <3>2, <4>4 DEF S
      <3>3. CASE d # p
        <4>1. S = {}
          BY <1>0, <3>1, <3>3 DEF Trees, Tree
        <4> HIDE DEF S
        <4>2. Cardinality(S) = 0
          BY <4>1, FS_EmptySet
        <4> QED BY <3>3, <4>2 DEF S
      <3> QED BY <3>2, <3>3
    <2> QED BY <2>1, <2>2 DEF Dirs
  <1>3. ASSUME NEW d \in Dirs PROVE Cardinality(Entries(fs, d)) = Len(fs.tmp[d].children)
    <2> DEFINE c == fs.tmp[d].children
               f == [i \in 1..Len(c) |-> fs.tmp[c[i]].name]
               T == {f[i] : i \in 1..Len(c)}
    <2>1. d \in DOMAIN fs.tmp /\ DOMAIN c = 1..Len(c) /\ Len(c) \in Nat
      BY <1>0, ChildNames DEF Dirs
    <2>2. IsTmpfs(fs, d)
      BY <1>0, <2>1 DEF NodesKnown, IsTmpfs
    <2>3. Entries(fs, d) = T
      BY <2>1, <2>2 DEF Entries
    <2>4. \A i, j \in 1..Len(c) : f[i] = f[j] => i = j
      BY <1>0, <2>1 DEF Trees, Tree
    <2>5. f \in [1..Len(c) -> T] /\ \A y \in T : \E i \in 1..Len(c) : f[i] = y
      OBVIOUS
    <2> HIDE DEF c, f, T
    <2>6. ExistsBijection(1..Len(c), T)
      BY <2>4, <2>5 DEF ExistsBijection, Bijection, Injection, Surjection, IsInjective
    <2>7. IsFiniteSet(1..Len(c)) /\ Cardinality(1..Len(c)) = Len(c)
      <3>1. 1 \in Int /\ Len(c) \in Int
        BY <2>1
      <3>2. /\ IsFiniteSet(1..Len(c))
            /\ Cardinality(1..Len(c)) = IF 1 > Len(c) THEN 0 ELSE Len(c) - 1 + 1
        BY <3>1, FS_Interval
      <3> QED BY <2>1, <3>2
    <2>8. Cardinality(T) = Len(c)
      BY <2>6, <2>7, FS_Bijection
    <2> QED BY <2>3, <2>8 DEF c
  <1> QED BY <1>2, <1>3 DEF TreesWellFormed

LEMMA MountsJoin ==
  ASSUME VfsInv PROVE MountsAgree
  <1>0. FsOK(fs) /\ FsTypes(fs) /\ Mounts(fs)
    BY DEF VfsInv, FsOK
  <1>1. DOMAIN fs.all = 1..Len(fs.all) /\ NONE \notin DOMAIN fs.mounted
    BY <1>0, NoneAssumption DEF FsTypes
  <1> QED BY <1>0, <1>1 DEF Mounts, MountsAgree

(* The stretch of a buffer that a read copies.                             *)
Part(base, offset, size) ==
  IF offset >= Len(base) THEN <<>>
  ELSE SubSeq(base, offset + 1, IF Len(base) - offset > size THEN offset + size ELSE Len(base))

IsPart(got, base, offset, size) ==
  LET left == Len(base) - offset
  IN /\ Len(got) = IF left < 0 THEN 0 ELSE IF left < size THEN left ELSE size
     /\ \A i \in DOMAIN got : offset + i \in 1..Len(base) /\ got[i] = base[offset + i]

LEMMA ReadPart ==
  ASSUME NEW X, NEW base \in Seq(X), NEW offset \in Nat, NEW size \in Nat
  PROVE  IsPart(Part(base, offset, size), base, offset, size)
  <1> DEFINE got == Part(base, offset, size)
  <1>0. Len(base) \in Nat
    OBVIOUS
  <1>1. CASE offset >= Len(base)
    <2>1. got = <<>>
      BY <1>1 DEF Part
    <2> HIDE DEF got
    <2>2. Len(got) = 0 /\ DOMAIN got = {}
      BY <2>1
    <2>3. IsPart(got, base, offset, size)
      BY <1>0, <1>1, <2>2 DEF IsPart
    <2> QED BY <2>3 DEF got
  <1>2. CASE ~(offset >= Len(base))
    <2> DEFINE top == IF Len(base) - offset > size THEN offset + size ELSE Len(base)
    <2>1. got = SubSeq(base, offset + 1, top)
      BY <1>2 DEF Part
    <2>2. /\ top \in Nat /\ top <= Len(base) /\ top >= offset /\ offset + 1 \in 1..Len(base)
          /\ top - offset = (IF Len(base) - offset < size THEN Len(base) - offset ELSE size)
      BY <1>0, <1>2
    <2> HIDE DEF top, got
    <2>3. Len(got) = top - offset /\ DOMAIN got = 1..(top - offset)
      BY <2>1, <2>2
    <2>4. ASSUME NEW i \in 1..(top - offset) PROVE offset + i \in 1..Len(base) /\ got[i] = base[offset + i]
      <3>1. offset + i \in 1..Len(base) /\ (offset + 1) + i - 1 = offset + i
        BY <1>0, <2>2
      <3>2. got[i] = base[(offset + 1) + i - 1]
        BY <2>1, <2>2
      <3> QED BY <3>1, <3>2
    <2>5. IsPart(got, base, offset, size)
      BY <1>0, <1>2, <2>2, <2>3, <2>4 DEF IsPart
    <2> QED BY <2>5 DEF got
  <1> QED BY <1>1, <1>2

LEMMA BytesRead ==
  ASSUME VfsInv PROVE ReadsBack
  <1>0. FsOK(fs) /\ FsTypes(fs) /\ Bytes
    BY DEF VfsInv, FsOK
  <1> SUFFICES ASSUME NEW n \in DOMAIN fs.mounted, n.type = FILE, NEW offset \in 0..MAX_SIZE, NEW size \in 0..MAX_SIZE
               PROVE  LET bytes == IF IsTmpfs(fs, n) THEN want[n] ELSE FileTable[n.index].data
                          got == read(fs, n, offset, size)
                          left == Len(bytes) - offset
                      IN /\ Len(got) = IF left < 0 THEN 0 ELSE IF left < size THEN left ELSE size
                         /\ \A i \in DOMAIN got : bytes[offset + i] \in {got[i], JUNK}
    BY DEF ReadsBack
  <1> DEFINE got == read(fs, n, offset, size)
  <1>1. offset \in Nat /\ size \in Nat
    BY VfsAssumption
  <1>2. CASE IsTmpfs(fs, n)
    <2> DEFINE base == fs.tmp[n].base
    <2>1. n \in DOMAIN fs.tmp /\ base \in Seq(Byte)
      BY <1>0, <1>2, NodeFacts, TmpFacts
    <2>2. n \in DOMAIN want
      BY <1>0, <2>1 DEF Bytes
    <2>3. Len(want[n]) = Len(base) /\ \A i \in 1..Len(base) : want[n][i] \in {base[i], JUNK}
      BY <1>0, <2>2 DEF Bytes
    <2>4. got = Part(base, offset, size)
      BY <1>2 DEF read, tmpfs_read, Part
    <2> HIDE DEF got, base
    <2>5. IsPart(got, base, offset, size)
      BY <1>1, <2>1, <2>4, ReadPart
    <2>6. \A i \in DOMAIN got : want[n][offset + i] \in {got[i], JUNK}
      BY <2>3, <2>5 DEF IsPart
    <2> QED BY <1>2, <2>3, <2>5, <2>6 DEF got, IsPart
  <1>3. CASE ~IsTmpfs(fs, n)
    <2> DEFINE base == FileTable[n.index].data
    <2>1. base \in Seq(Text)
      <3>1. n.index \in 1..Len(FileTable)
        BY <1>0, <1>3, NodeFacts DEF Table, DIR, FILE
      <3> QED BY <3>1, Tables
    <2>2. got = Part(base, offset, size)
      BY <1>3 DEF read, rdsk_read, Part
    <2> HIDE DEF got, base
    <2>3. IsPart(got, base, offset, size)
      BY <1>1, <2>1, <2>2, ReadPart
    <2> QED BY <1>3, <2>3 DEF got, base, IsPart
  <1> QED BY <1>2, <1>3

LEMMA ListingEnds ==
  ASSUME VfsInv PROVE ListingMissesNothing
  BY DEF VfsInv, Reading, ListingMissesNothing

(* The file systems are in order in every state.                           *)
THEOREM VfsInvariant == Spec => []VfsInv
  <1>1. Init => VfsInv
    BY InitOK
  <1>2. VfsInv /\ [Next]_vars => VfsInv'
    BY NextKeepsVfs
  <1> QED BY <1>1, <1>2, PTL DEF Spec

(* Whatever is mounted, made and written, each tmpfs stays a tree without  *)
(* two entries of one name and every mount is known to both sides.         *)
THEOREM TreesAlwaysAgree == Spec => []TreesAgree
  <1>1. VfsInv => TreesAgree
    BY TmpfsTrees, MountsJoin DEF TreesAgree
  <1> QED BY <1>1, VfsInvariant, PTL

(* tmpfs_rw and tmpfs_truncate: a read returns what was written.           *)
THEOREM AlwaysReadsBack == Spec => []ReadsBack
  <1>1. VfsInv => ReadsBack
    BY BytesRead
  <1> QED BY <1>1, VfsInvariant, PTL

(* tmpfs_readdir and rdsk_readdir: a listing that comes to its end has     *)
(* missed nothing, though nodes were made meanwhile.                       *)
THEOREM ListingsMissNothing == Spec => []ListingMissesNothing
  <1>1. VfsInv => ListingMissesNothing
    BY ListingEnds
  <1> QED BY <1>1, VfsInvariant, PTL
============================================================================
