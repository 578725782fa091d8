---------------------------- MODULE SlabProofs ----------------------------
(***************************************************************************)
(* The slab cache never hands an object out twice and never loses one, for *)
(* any number of CPUs, callers, slabs and magazines and any MAGAZINE_SIZE. *)
(*                                                                         *)
(* The safety properties of Slab only hold together: that the depot lists  *)
(* tell the truth needs OneHome, that a new slab's objects are nowhere     *)
(* else needs OnlyMade, and that a fill never overflows a magazine needs   *)
(* FillPhase.  IInv is their conjunction and is inductive.                 *)
(***************************************************************************)
EXTENDS Slab, FiniteSetTheorems, SequenceTheorems, TLAPS

(* Objects of slabs that do not exist yet are nowhere.                     *)
OnlyMade ==
  /\ \A o \in allocated : SlabOf[o] \in made
  /\ \A m \in Magazine : \A i \in 1..Len(rounds[m]) : SlabOf[rounds[m][i]] \in made
  /\ \A a \in Actor : obj[a] # NoObject => SlabOf[obj[a]] \in made
  /\ \A s \in SlabId : s \notin made => freelist[s] = {}

(* slab_cache_create returns only when the primaries are full: until then  *)
(* nobody calls, and a primary still being filled has room.                *)
FillPhase ==
  /\ \A c \in filling : Len(rounds[primary[c]]) < MAGAZINE_SIZE
  /\ filling # {} => \A a \in Actor : pc[a] = "idle"

IInv ==
  /\ TypeOK /\ SlabLists /\ OnlyMade /\ FillPhase
  /\ Carrying /\ OneHome /\ DepotSorted /\ OnePlace /\ NoLeak
---------------------------------------------------------------------------
(* Facts about the two operations on a magazine.                           *)

LEMMA AppendFacts ==
  ASSUME NEW S, NEW s \in Seq(S), NEW e \in S
  PROVE  /\ Append(s, e) \in Seq(S)
         /\ Len(Append(s, e)) = Len(s) + 1
         /\ Append(s, e)[Len(s) + 1] = e
         /\ \A i \in 1..Len(s) : Append(s, e)[i] = s[i]
  OBVIOUS

LEMMA FrontFacts ==
  ASSUME NEW S, NEW s \in Seq(S), Len(s) > 0
  PROVE  /\ Front(s) \in Seq(S)
         /\ Len(Front(s)) = Len(s) - 1
         /\ \A i \in 1..(Len(s) - 1) : Front(s)[i] = s[i]
         /\ s[Len(s)] \in S
<1>1. \A i \in 1..(Len(s) - 1) : s[i] \in S
  OBVIOUS
<1>2. Len(s) \in Nat /\ 1 \in Int /\ Len(s) - 1 \in Int /\ s[Len(s)] \in S
  OBVIOUS
<1> DEFINE t == Front(s)
<1>3. /\ t \in Seq(S)
      /\ Len(t) = IF 1 <= Len(s) - 1 THEN Len(s) - 1 - 1 + 1 ELSE 0
      /\ \A i \in 1..(Len(s) - 1 - 1 + 1) : t[i] = s[1 + i - 1]
  BY <1>1, <1>2, SubSeqProperties DEF Front
<1> HIDE DEF t
<1>4. Len(t) = Len(s) - 1
  <2> DEFINE n == Len(s)
  <2>1. n \in Nat /\ n > 0 /\ Len(t) = IF 1 <= n - 1 THEN n - 1 - 1 + 1 ELSE 0
    BY <1>2, <1>3
  <2> HIDE DEF n
  <2>2. Len(t) = n - 1
    BY <2>1
  <2> QED
    BY <2>2 DEF n
<1>5. \A i \in 1..(Len(s) - 1) : t[i] = s[i]
  BY <1>2, <1>3
<1> QED
  BY <1>2, <1>3, <1>4, <1>5 DEF t

LEMMA ObjectsOfFacts ==
  ASSUME NEW s \in SlabId
  PROVE  /\ ObjectsOf(s) \subseteq Object
         /\ IsFiniteSet(ObjectsOf(s))
         /\ Cardinality(ObjectsOf(s)) \in Nat
         /\ Cardinality(ObjectsOf(s)) > 0
<1>1. ObjectsOf(s) \subseteq Object
  BY DEF ObjectsOf
<1>2. IsFiniteSet(ObjectsOf(s))
  BY <1>1, ObjectAssumption, FS_Subset
<1>3. Cardinality(ObjectsOf(s)) \in Nat
  BY <1>2, FS_CardinalityType
<1>4. ObjectsOf(s) # {}
  BY CapacityAssumption DEF ObjectsOf
<1>5. Cardinality(ObjectsOf(s)) # 0
  BY <1>2, <1>4, FS_EmptySet
<1> QED
  BY <1>1, <1>2, <1>3, <1>5
---------------------------------------------------------------------------
(* slab_direct_alloc: what it takes, and what it leaves.                   *)
DirectAllocPost(o) ==
  /\ SlabOf[o] \in made'
  /\ made \subseteq made'
  /\ made' \subseteq SlabId
  /\ freelist' \in [SlabId -> SUBSET Object]
  /\ free_count' \in [SlabId -> Nat]
  /\ slabs_partial' \subseteq SlabId /\ slabs_full' \subseteq SlabId
  /\ SlabLists'
  /\ o \notin freelist'[SlabOf[o]]
  /\ \A p \in Object : p \in freelist'[SlabOf[p]] =>
       p \in freelist[SlabOf[p]] \/ SlabOf[p] \notin made
  /\ \A p \in Object : SlabOf[p] \in made' /\ p # o =>
       \/ p \in freelist'[SlabOf[p]]
       \/ SlabOf[p] \in made /\ p \notin freelist[SlabOf[p]]
  /\ \A s \in SlabId : s \notin made' => freelist'[s] = {}

LEMMA DirectAllocStep ==
  ASSUME IInv, NEW o \in Object, slab_direct_alloc(o)
  PROVE  /\ o \in freelist[SlabOf[o]] \/ SlabOf[o] \notin made
         /\ DirectAllocPost(o)
<1> DEFINE s == SlabOf[o]
<1>0. /\ TypeOK /\ SlabLists /\ OnlyMade
      /\ s \in SlabId
      /\ IsFiniteSet(freelist[s])
      /\ IsFiniteSet(ObjectsOf(s))
      /\ o \in ObjectsOf(s)
      /\ Cardinality(ObjectsOf(s)) \in Nat
      /\ Cardinality(ObjectsOf(s)) > 0
  <2>1. TypeOK /\ SlabLists /\ OnlyMade
    BY DEF IInv
  <2>2. s \in SlabId
    BY SlabAssumption
  <2>3. IsFiniteSet(freelist[s])
    BY <2>1, <2>2, ObjectAssumption, FS_Subset DEF TypeOK
  <2>4. o \in ObjectsOf(s)
    BY DEF ObjectsOf
  <2> QED
    BY <2>1, <2>2, <2>3, <2>4, ObjectsOfFacts
<1> HIDE DEF s
<1>1. CASE /\ s \in slabs_partial
           /\ o \in freelist[s]
           /\ TakeFrom(s, o, slabs_partial, freelist, free_count)
           /\ made' = made
  <2>1. Cardinality(freelist[s] \ {o}) = Cardinality(freelist[s]) - 1
    BY <1>0, <1>1, FS_RemoveElement
  <2>2. /\ free_count[s] \in Nat /\ free_count[s] > 0 /\ s \in made
        /\ free_count[s] = Cardinality(freelist[s])
    BY <1>0, <1>1 DEF SlabLists, TypeOK
  <2>3. /\ freelist' = [freelist EXCEPT ![s] = freelist[s] \ {o}]
        /\ free_count' = [free_count EXCEPT ![s] = free_count[s] - 1]
        /\ free_count[s] - 1 = 0 =>
             slabs_partial' = slabs_partial \ {s} /\ slabs_full' = slabs_full \cup {s}
        /\ free_count[s] - 1 # 0 => slabs_partial' = slabs_partial /\ slabs_full' = slabs_full
    BY <1>1 DEF TakeFrom
  <2>4. /\ freelist' \in [SlabId -> SUBSET Object]
        /\ free_count' \in [SlabId -> Nat]
        /\ slabs_partial' \subseteq SlabId /\ slabs_full' \subseteq SlabId
    BY <1>0, <2>2, <2>3 DEF TypeOK
  <2>5. SlabLists'
    <3>1. \A t \in SlabId : free_count'[t] = Cardinality(freelist'[t])
      BY <1>0, <2>1, <2>2, <2>3 DEF TypeOK, SlabLists
    <3>2. \A t \in SlabId : freelist'[t] \subseteq ObjectsOf(t)
      BY <1>0, <2>3 DEF TypeOK, SlabLists
    <3>3. slabs_partial' = { t \in made : free_count'[t] > 0 }
      BY <1>0, <2>2, <2>3 DEF TypeOK, SlabLists
    <3>4. slabs_full' = { t \in made : free_count'[t] = 0 }
      BY <1>0, <2>2, <2>3 DEF TypeOK, SlabLists
    <3> QED
      BY <3>1, <3>2, <3>3, <3>4, <1>1 DEF SlabLists, ObjectsOf
  <2>6. /\ o \notin freelist'[s]
        /\ \A p \in Object : p \in freelist'[SlabOf[p]] => p \in freelist[SlabOf[p]]
        /\ \A p \in Object : p # o /\ p \in freelist[SlabOf[p]] => p \in freelist'[SlabOf[p]]
        /\ \A t \in SlabId : t \notin made => freelist'[t] = {}
    BY <1>0, <2>2, <2>3, SlabAssumption DEF TypeOK, OnlyMade
  <2> QED
    BY <1>0, <1>1, <2>2, <2>4, <2>5, <2>6, SlabAssumption DEF DirectAllocPost, TypeOK, s
<1>2. CASE /\ slabs_partial = {}
           /\ s \notin made
           /\ made' = made \cup {s}
           /\ TakeFrom(s, o, {s}, [freelist EXCEPT ![s] = ObjectsOf(s)],
                       [free_count EXCEPT ![s] = Cardinality(ObjectsOf(s))])
  <2> DEFINE n == Cardinality(ObjectsOf(s))
  <2>1. Cardinality(ObjectsOf(s) \ {o}) = n - 1
    BY <1>0, FS_RemoveElement
  <2>3. /\ freelist' = [freelist EXCEPT ![s] = ObjectsOf(s) \ {o}]
        /\ free_count' = [free_count EXCEPT ![s] = n - 1]
        /\ n - 1 = 0 => slabs_partial' = {} /\ slabs_full' = slabs_full \cup {s}
        /\ n - 1 # 0 => slabs_partial' = {s} /\ slabs_full' = slabs_full
    BY <1>0, <1>2 DEF TakeFrom, TypeOK
  <2> HIDE DEF n
  <2>a. n \in Nat /\ n > 0
    BY <1>0 DEF n
  <2>4. /\ freelist' \in [SlabId -> SUBSET Object]
        /\ free_count' \in [SlabId -> Nat]
        /\ slabs_partial' \subseteq SlabId /\ slabs_full' \subseteq SlabId
        /\ made' \subseteq SlabId
    BY <1>0, <1>2, <2>a, <2>3, ObjectsOfFacts DEF TypeOK
  <2>5. SlabLists'
    <3>1. \A t \in SlabId : free_count'[t] = Cardinality(freelist'[t])
      BY <1>0, <2>1, <2>3 DEF TypeOK, SlabLists, n
    <3>2. \A t \in SlabId : freelist'[t] \subseteq ObjectsOf(t)
      BY <1>0, <2>3 DEF TypeOK, SlabLists
    <3>3. slabs_partial' = { t \in made' : free_count'[t] > 0 }
      BY <1>0, <1>2, <2>a, <2>3 DEF TypeOK, SlabLists
    <3>4. slabs_full' = { t \in made' : free_count'[t] = 0 }
      BY <1>0, <1>2, <2>a, <2>3 DEF TypeOK, SlabLists
    <3> QED
      BY <3>1, <3>2, <3>3, <3>4 DEF SlabLists, ObjectsOf
  <2>6. /\ o \notin freelist'[s]
        /\ \A p \in Object : p \in freelist'[SlabOf[p]] =>
             p \in freelist[SlabOf[p]] \/ SlabOf[p] \notin made
        /\ \A p \in Object : SlabOf[p] \in made' /\ p # o =>
             \/ p \in freelist'[SlabOf[p]]
             \/ SlabOf[p] \in made /\ p \notin freelist[SlabOf[p]]
        /\ \A t \in SlabId : t \notin made' => freelist'[t] = {}
    BY <1>0, <1>2, <2>3, SlabAssumption DEF TypeOK, OnlyMade, ObjectsOf
  <2> QED
    BY <1>0, <1>2, <2>4, <2>5, <2>6 DEF DirectAllocPost, s
<1> QED
  BY <1>1, <1>2 DEF slab_direct_alloc, s
---------------------------------------------------------------------------
(* Steps that move no object and no magazine: only pc and lock change.     *)
LEMMA IdleSteps ==
  ASSUME IInv, NEW a \in Actor,
         AllocEnter(a) \/ \E c \in Cpu : AllocMiss(a, c) \/ FreeMiss(a, c)
  PROVE  IInv'
<1>1. /\ UNCHANGED <<cpu_cache_enabled, slabVars, rounds, cpuVars, depotVars, obj, filling, allocated>>
      /\ filling = {} \/ pc[a] # "idle"
      /\ lock' \in [Cpu -> Cpu \cup Actor]
      /\ \E l \in {"alloc", "alloc_direct", "free_direct"} :
           /\ pc' = [pc EXCEPT ![a] = l]
           /\ l \in {"free", "free_direct"} <=> pc[a] \in {"free", "free_direct"}
  <2>0. TypeOK
    BY DEF IInv
  <2>1. CASE AllocEnter(a)
    <3>1. lock' \in [Cpu -> Cpu \cup Actor]
      BY <2>0, <2>1 DEF AllocEnter, Acquire, TypeOK
    <3> QED
      BY <2>1, <3>1 DEF AllocEnter, Goto
  <2>2. ASSUME NEW c \in Cpu, AllocMiss(a, c) PROVE <1>1!:
    BY <2>0, <2>2 DEF AllocMiss, Release, Goto, TypeOK
  <2>3. ASSUME NEW c \in Cpu, FreeMiss(a, c) PROVE <1>1!:
    BY <2>0, <2>3 DEF FreeMiss, Release, Goto, TypeOK
  <2> QED
    BY <2>1, <2>2, <2>3
<1>2. TypeOK' /\ Carrying' /\ FillPhase'
  BY <1>1 DEF IInv, TypeOK, Carrying, FillPhase, slabVars, cpuVars, depotVars
<1>3. SlabLists' /\ OnlyMade' /\ OneHome' /\ DepotSorted'
  BY <1>1 DEF IInv, SlabLists, ObjectsOf, OnlyMade, OneHome, DepotSorted, slabVars, cpuVars, depotVars
<1>4. OnePlace' /\ NoLeak'
  BY <1>1 DEF IInv, OnePlace, NoLeak, InMagazine, InFlight, Reachable, slabVars, cpuVars, depotVars
<1> QED
  BY <1>2, <1>3, <1>4 DEF IInv

(* Steps that move magazines: the rounds stay in them, so only OneHome,    *)
(* DepotSorted and what NoLeak can reach are at stake.                     *)
LEMMA MagazineSteps ==
  ASSUME IInv, NEW a \in Actor, NEW c \in Cpu,
         \/ AllocSwap(a, c) \/ FreeSwap(a, c)
         \/ AllocDepot(a, c) \/ FreeDepot(a, c)
  PROVE  IInv'
<1>1. /\ UNCHANGED <<cpu_cache_enabled, slabVars, rounds, lock, pc, obj, filling, allocated>>
      /\ filling = {}
  BY DEF AllocSwap, FreeSwap, AllocDepot, FreeDepot, IInv, FillPhase
<1>t. TypeOK /\ OneHome /\ DepotSorted /\ MAGAZINE_SIZE \in Nat \ {0}
  BY SizeAssumption DEF IInv
<1>2. /\ primary' \in [Cpu -> Magazine] /\ secondary' \in [Cpu -> Magazine]
      /\ magazines_full' \subseteq Magazine /\ magazines_empty' \subseteq Magazine
      /\ OneHome' /\ DepotSorted'
      /\ \A m \in Magazine : Reachable(m) => Reachable(m)' \/ Len(rounds[m]) = 0
  <2>1. CASE AllocSwap(a, c) \/ FreeSwap(a, c)
    <3>1. /\ primary' = [primary EXCEPT ![c] = secondary[c]]
          /\ secondary' = [secondary EXCEPT ![c] = primary[c]]
          /\ UNCHANGED <<rounds, magazines_full, magazines_empty>>
          /\ Len(rounds[primary[c]]) \in {0, MAGAZINE_SIZE}
      BY <2>1, <1>t, <1>1 DEF AllocSwap, FreeSwap, Swap, depotVars, TypeOK, DepotSorted
    <3>2. /\ primary' \in [Cpu -> Magazine] /\ secondary' \in [Cpu -> Magazine]
          /\ \A m \in Magazine : Reachable(m) => Reachable(m)'
      BY <3>1, <1>t DEF TypeOK, Reachable
    <3>3. OneHome'
      BY <3>1, <1>t DEF TypeOK, OneHome
    <3>4. DepotSorted'
      BY <3>1, <1>t DEF TypeOK, DepotSorted
    <3> QED
      BY <3>1, <3>2, <3>3, <3>4, <1>t DEF TypeOK
  <2>2. CASE AllocDepot(a, c)
    <3>1. PICK m \in magazines_full :
            /\ magazines_full' = magazines_full \ {m}
            /\ magazines_empty' = magazines_empty \cup {secondary[c]}
            /\ primary' = [primary EXCEPT ![c] = m]
            /\ secondary' = [secondary EXCEPT ![c] = primary[c]]
      BY <2>2 DEF AllocDepot, Rotate
    <3>2. Len(rounds[primary[c]]) = 0 /\ Len(rounds[secondary[c]]) = 0 /\ rounds' = rounds
      BY <2>2, <1>t DEF AllocDepot, DepotSorted
    <3>3. /\ primary' \in [Cpu -> Magazine] /\ secondary' \in [Cpu -> Magazine]
          /\ magazines_full' \subseteq Magazine /\ magazines_empty' \subseteq Magazine
          /\ \A n \in Magazine : Reachable(n) => Reachable(n)' \/ Len(rounds[n]) = 0
      BY <3>1, <3>2, <1>t DEF TypeOK, Reachable
    <3>4. OneHome'
      BY <3>1, <1>t DEF TypeOK, OneHome
    <3>5. DepotSorted'
      BY <3>1, <3>2, <1>t DEF TypeOK, DepotSorted
    <3> QED
      BY <3>3, <3>4, <3>5
  <2>3. CASE FreeDepot(a, c)
    <3>1. PICK m \in magazines_empty :
            /\ magazines_empty' = magazines_empty \ {m}
            /\ magazines_full' = magazines_full \cup {secondary[c]}
            /\ primary' = [primary EXCEPT ![c] = m]
            /\ secondary' = [secondary EXCEPT ![c] = primary[c]]
      BY <2>3 DEF FreeDepot, Rotate
    <3>2. /\ Len(rounds[primary[c]]) = MAGAZINE_SIZE
          /\ Len(rounds[secondary[c]]) = MAGAZINE_SIZE
          /\ rounds' = rounds
      BY <2>3, <1>t DEF FreeDepot, DepotSorted, TypeOK
    <3>3. /\ primary' \in [Cpu -> Magazine] /\ secondary' \in [Cpu -> Magazine]
          /\ magazines_full' \subseteq Magazine /\ magazines_empty' \subseteq Magazine
          /\ \A n \in Magazine : Reachable(n) => Reachable(n)'
      BY <3>1, <3>2, <1>t DEF TypeOK, Reachable
    <3>4. OneHome'
      BY <3>1, <1>t DEF TypeOK, OneHome
    <3>5. DepotSorted'
      BY <3>1, <3>2, <1>t DEF TypeOK, DepotSorted
    <3> QED
      BY <3>3, <3>4, <3>5
  <2> QED
    BY <2>1, <2>2, <2>3
<1>3. TypeOK' /\ Carrying' /\ FillPhase' /\ SlabLists' /\ OnlyMade'
  BY <1>1, <1>2 DEF IInv, TypeOK, Carrying, FillPhase, SlabLists, ObjectsOf, OnlyMade, slabVars
<1>4. OnePlace'
  BY <1>1 DEF IInv, OnePlace, InMagazine, slabVars
<1>5. NoLeak'
  <2>1. \A o \in Object, m \in Magazine : InMagazine(o, m) => InMagazine(o, m)' /\ Len(rounds[m]) # 0
    BY <1>1, <1>t DEF InMagazine, TypeOK
  <2> QED
    BY <1>1, <1>2, <2>1 DEF IInv, NoLeak, InFlight, slabVars
<1> QED
  BY <1>2, <1>3, <1>4, <1>5 DEF IInv
---------------------------------------------------------------------------
(* Steps that move one object.                                             *)

(* A magazine that can be pushed to or popped from is a primary, and so on *)
(* no depot list and no CPU's secondary: DepotSorted survives its change.  *)
LEMMA PrimaryChange ==
  ASSUME IInv, NEW c \in Cpu, NEW q \in Seq(Object),
         Len(q) <= MAGAZINE_SIZE,
         rounds' = [rounds EXCEPT ![primary[c]] = q],
         UNCHANGED <<cpuVars, depotVars>>
  PROVE  /\ OneHome' /\ DepotSorted'
         /\ rounds' \in [Magazine -> Seq(Object)]
         /\ \A m \in Magazine : Reachable(m) <=> Reachable(m)'
         /\ Reachable(primary[c])
<1>1. OneHome'
  BY DEF IInv, OneHome, cpuVars, depotVars
<1>2. rounds' \in [Magazine -> Seq(Object)]
  BY DEF IInv, TypeOK
<1>3. DepotSorted'
  BY DEF IInv, TypeOK, OneHome, DepotSorted, cpuVars, depotVars
<1>4. /\ \A m \in Magazine : Reachable(m) <=> Reachable(m)'
      /\ Reachable(primary[c])
  BY DEF Reachable, cpuVars, depotVars
<1> QED
  BY <1>1, <1>2, <1>3, <1>4

LEMMA AllocPopStep ==
  ASSUME IInv, NEW a \in Actor, NEW c \in Cpu, AllocPop(a, c)
  PROVE  /\ IInv'
         /\ \E o \in Object : o \notin allocated /\ allocated' = allocated \cup {o}
<1> DEFINE m == primary[c]
           n == Len(rounds[m])
           o == rounds[m][n]
           q == Front(rounds[m])
<1>0. TypeOK /\ m \in Magazine /\ rounds[m] \in Seq(Object) /\ n \in Nat /\ n > 0
  BY DEF IInv, TypeOK, AllocPop
<1>1. /\ q \in Seq(Object)
      /\ Len(q) = n - 1
      /\ \A i \in 1..(n - 1) : q[i] = rounds[m][i]
      /\ o \in Object
  BY <1>0, FrontFacts
<1>2. /\ rounds' = [rounds EXCEPT ![m] = q]
      /\ allocated' = allocated \cup {o}
      /\ pc[a] = "alloc" /\ pc' = [pc EXCEPT ![a] = "idle"]
      /\ lock' = [lock EXCEPT ![c] = c]
      /\ UNCHANGED <<cpu_cache_enabled, slabVars, cpuVars, depotVars, obj, filling>>
  BY DEF AllocPop, Release, Goto
<1> HIDE DEF q
<1>3. n <= MAGAZINE_SIZE /\ filling = {}
  BY <1>0, <1>2 DEF IInv, DepotSorted, FillPhase
<1>4. /\ OneHome' /\ DepotSorted'
      /\ rounds' \in [Magazine -> Seq(Object)]
      /\ \A k \in Magazine : Reachable(k) <=> Reachable(k)'
  <2>1. Len(q) <= MAGAZINE_SIZE
    BY <1>0, <1>1, <1>3, SizeAssumption
  <2> QED
    BY <1>1, <1>2, <2>1, PrimaryChange
<1>5. /\ \A k \in Magazine : Len(rounds'[k]) = IF k = m THEN n - 1 ELSE Len(rounds[k])
      /\ \A k \in Magazine : \A i \in 1..Len(rounds'[k]) :
           i \in 1..Len(rounds[k]) /\ rounds'[k][i] = rounds[k][i] /\ (k = m => i # n)
  <2>1. rounds'[m] = q /\ \A k \in Magazine : k # m => rounds'[k] = rounds[k]
    BY <1>0, <1>2 DEF TypeOK
  <2>2. \A i \in 1..Len(q) : i \in 1..n /\ i # n /\ q[i] = rounds[m][i]
    BY <1>0, <1>1
  <2> QED
    BY <1>0, <1>1, <2>1, <2>2
<1> HIDE DEF m, n, o
<1>6. TypeOK' /\ Carrying' /\ FillPhase'
  BY <1>1, <1>2, <1>3, <1>4 DEF IInv, TypeOK, Carrying, FillPhase, slabVars, cpuVars, depotVars
<1>7. SlabLists'
  BY <1>2 DEF IInv, SlabLists, ObjectsOf, slabVars
<1>o. /\ o \notin allocated /\ o \notin freelist[SlabOf[o]] /\ SlabOf[o] \in made
      /\ \A b \in Actor : obj[b] # o
      /\ \A k \in Magazine : \A i \in 1..Len(rounds[k]) : rounds[k][i] = o => k = m /\ i = n
  <2>1. n \in 1..Len(rounds[m]) /\ rounds[m][n] = o
    BY <1>0 DEF m, n, o
  <2>2. o # NoObject
    BY <1>1, ObjectAssumption
  <2> QED
    BY <1>0, <2>1, <2>2 DEF IInv, OnePlace, OnlyMade, InMagazine
<1>8. OnlyMade'
  BY <1>2, <1>5, <1>o DEF IInv, OnlyMade, slabVars
<1>9. OnePlace'
  BY <1>2, <1>5, <1>o DEF IInv, OnePlace, InMagazine, slabVars
<1>10. NoLeak'
  <2>1. ASSUME NEW p \in Object, NEW k \in Magazine, InMagazine(p, k), p # o
        PROVE  InMagazine(p, k)'
    <3>1. PICK i \in 1..Len(rounds[k]) : rounds[k][i] = p
      BY <2>1 DEF InMagazine
    <3>2. ~(k = m /\ i = n)
      BY <3>1, <2>1 DEF o
    <3>3. i \in 1..Len(rounds'[k]) /\ rounds'[k][i] = p
      BY <1>0, <1>5, <3>1, <3>2 DEF m, n, TypeOK
    <3> QED
      BY <3>3 DEF InMagazine
  <2> QED
    BY <1>2, <1>4, <2>1 DEF IInv, NoLeak, InFlight, slabVars
<1> QED
  BY <1>1, <1>2, <1>4, <1>6, <1>7, <1>8, <1>9, <1>10, <1>o DEF IInv

(* What pushing o onto the primary m, which has room, achieves: all old    *)
(* rounds stay where they are and the new one is the last.                 *)
PushPost(m, o) ==
  /\ OneHome' /\ DepotSorted'
  /\ rounds' \in [Magazine -> Seq(Object)]
  /\ Len(rounds'[m]) = Len(rounds[m]) + 1
  /\ \A k \in Magazine : k # m => rounds'[k] = rounds[k]
  /\ \A k \in Magazine : Reachable(k) <=> Reachable(k)'
  /\ Reachable(m)' /\ InMagazine(o, m)'
  /\ \A k \in Magazine, p \in Object : InMagazine(p, k) => InMagazine(p, k)'
  /\ \A k \in Magazine : \A i \in 1..Len(rounds'[k]) :
       \/ i \in 1..Len(rounds[k]) /\ rounds'[k][i] = rounds[k][i]
       \/ k = m /\ i = Len(rounds[k]) + 1 /\ rounds'[k][i] = o

LEMMA PushFacts ==
  ASSUME IInv, NEW c \in Cpu, NEW o \in Object,
         NEW m \in Magazine, m = primary[c],
         Len(rounds[m]) < MAGAZINE_SIZE,
         rounds' = [rounds EXCEPT ![m] = Append(rounds[m], o)],
         UNCHANGED <<cpuVars, depotVars>>
  PROVE  PushPost(m, o)
<1> DEFINE n == Len(rounds[m])
           q == Append(rounds[m], o)
<1>0. m \in Magazine /\ rounds \in [Magazine -> Seq(Object)] /\ n \in Nat
  BY DEF IInv, TypeOK
<1>1. q \in Seq(Object) /\ Len(q) = n + 1 /\ q[n + 1] = o /\ \A i \in 1..n : q[i] = rounds[m][i]
  BY <1>0, AppendFacts
<1> HIDE DEF q
<1>2. Len(q) <= MAGAZINE_SIZE
  BY <1>0, <1>1, SizeAssumption
<1>3. rounds' = [rounds EXCEPT ![m] = q]
  BY DEF q
<1>4. /\ OneHome' /\ DepotSorted'
      /\ rounds' \in [Magazine -> Seq(Object)]
      /\ \A k \in Magazine : Reachable(k) <=> Reachable(k)'
      /\ Reachable(m)
  BY <1>1, <1>2, <1>3, PrimaryChange
<1>5. rounds'[m] = q /\ \A k \in Magazine : k # m => rounds'[k] = rounds[k]
  BY <1>0, <1>3
<1>6. n + 1 \in 1..Len(q) /\ \A i \in 1..Len(q) : i \in 1..n \/ i = n + 1
  BY <1>0, <1>1
<1>7. \A i \in 1..n : i \in 1..Len(q)
  BY <1>0, <1>1
<1>8. InMagazine(o, m)'
  BY <1>1, <1>5, <1>6 DEF InMagazine
<1>9. \A k \in Magazine, p \in Object : InMagazine(p, k) => InMagazine(p, k)'
  BY <1>1, <1>5, <1>7 DEF InMagazine
<1>10. \A k \in Magazine : \A i \in 1..Len(rounds'[k]) :
         \/ i \in 1..Len(rounds[k]) /\ rounds'[k][i] = rounds[k][i]
         \/ k = m /\ i = Len(rounds[k]) + 1 /\ rounds'[k][i] = o
  BY <1>1, <1>5, <1>6
<1> QED
  BY <1>0, <1>1, <1>4, <1>5, <1>8, <1>9, <1>10 DEF PushPost

LEMMA FreePushStep ==
  ASSUME IInv, NEW a \in Actor, NEW c \in Cpu, FreePush(a, c)
  PROVE  IInv'
<1>o. PICK o : o = obj[a]
  OBVIOUS
<1>p. PICK m : m = primary[c]
  OBVIOUS
<1>1. /\ Len(rounds[m]) < MAGAZINE_SIZE
      /\ rounds' = [rounds EXCEPT ![m] = Append(rounds[m], o)]
      /\ obj' = [obj EXCEPT ![a] = NoObject]
      /\ pc[a] = "free" /\ pc' = [pc EXCEPT ![a] = "idle"]
      /\ lock' = [lock EXCEPT ![c] = c]
      /\ UNCHANGED <<cpu_cache_enabled, slabVars, cpuVars, depotVars, filling, allocated>>
  BY <1>o, <1>p DEF FreePush, Release, Goto
<1>2. o \in Object /\ o # NoObject /\ m \in Magazine /\ filling = {}
  BY <1>o, <1>p, <1>1, ObjectAssumption DEF IInv, TypeOK, Carrying, FillPhase
<1>3. /\ OneHome' /\ DepotSorted'
      /\ rounds' \in [Magazine -> Seq(Object)]
      /\ \A k \in Magazine : Reachable(k) <=> Reachable(k)'
      /\ Reachable(m)' /\ InMagazine(o, m)'
      /\ \A k \in Magazine, p \in Object : InMagazine(p, k) => InMagazine(p, k)'
      /\ \A k \in Magazine : \A i \in 1..Len(rounds'[k]) :
           \/ i \in 1..Len(rounds[k]) /\ rounds'[k][i] = rounds[k][i]
           \/ k = m /\ i = Len(rounds[k]) + 1 /\ rounds'[k][i] = o
  <2>1. PushPost(m, o)
    BY <1>1, <1>2, <1>p, PushFacts
  <2> QED
    BY <2>1 DEF PushPost
<1>4. /\ obj'[a] = NoObject /\ \A b \in Actor : b # a => obj'[b] = obj[b]
      /\ \A b \in Actor : b # a => obj[b] # o
      /\ o \notin allocated /\ o \notin freelist[SlabOf[o]] /\ SlabOf[o] \in made
      /\ \A k \in Magazine : \A i \in 1..Len(rounds[k]) : rounds[k][i] # o
  BY <1>o, <1>1, <1>2 DEF IInv, TypeOK, OnePlace, OnlyMade, InMagazine
<1>5. TypeOK' /\ Carrying' /\ FillPhase'
  BY <1>1, <1>2, <1>3 DEF IInv, TypeOK, Carrying, FillPhase, slabVars, cpuVars, depotVars
<1>6. SlabLists'
  BY <1>1 DEF IInv, SlabLists, ObjectsOf, slabVars
<1>7. OnlyMade'
  BY <1>1, <1>3, <1>4 DEF IInv, OnlyMade, slabVars
<1>8. OnePlace'
  <2>0. /\ \A k, l \in Magazine : \A i \in 1..Len(rounds[k]), j \in 1..Len(rounds[l]) :
             rounds[k][i] = rounds[l][j] => k = l /\ i = j
        /\ \A k \in Magazine : \A i \in 1..Len(rounds[k]) : rounds[k][i] # o
        /\ \A k \in Magazine : \A i \in 1..Len(rounds'[k]) :
             \/ i \in 1..Len(rounds[k]) /\ rounds'[k][i] = rounds[k][i]
             \/ k = m /\ i = Len(rounds[k]) + 1 /\ rounds'[k][i] = o
    BY <1>3, <1>4 DEF IInv, OnePlace
  <2>1. \A k, l \in Magazine : \A i \in 1..Len(rounds'[k]), j \in 1..Len(rounds'[l]) :
          rounds'[k][i] = rounds'[l][j] => k = l /\ i = j
    BY ONLY <2>0
  <2>2. \A k \in Magazine : \A i \in 1..Len(rounds'[k]) :
          /\ rounds'[k][i] \notin allocated
          /\ rounds'[k][i] \notin freelist[SlabOf[rounds'[k][i]]]
    BY <2>0, <1>4 DEF IInv, OnePlace
  <2>3. \A b \in Actor : obj'[b] # NoObject =>
          /\ obj'[b] \notin allocated
          /\ obj'[b] \notin freelist[SlabOf[obj'[b]]]
          /\ \A k \in Magazine : \A i \in 1..Len(rounds'[k]) : rounds'[k][i] # obj'[b]
          /\ obj'[b] = obj[b]
          /\ \A d \in Actor : obj'[d] = obj'[b] => d = b
    BY <1>1, <1>3, <1>4 DEF IInv, OnePlace, InMagazine
  <2>4. freelist' = freelist /\ allocated' = allocated /\ \A p \in allocated : p \notin freelist[SlabOf[p]]
    BY <1>1 DEF IInv, OnePlace, slabVars
  <2> QED
    BY <2>1, <2>2, <2>3, <2>4 DEF OnePlace, InMagazine
<1>9. NoLeak'
  <2>1. \A p \in Object, b \in Actor : InFlight(p, b) => InFlight(p, b)' \/ p = o
    BY <1>o, <1>4 DEF InFlight
  <2> QED
    BY <1>1, <1>2, <1>3, <2>1 DEF IInv, NoLeak, slabVars
<1> QED
  BY <1>3, <1>5, <1>6, <1>7, <1>8, <1>9 DEF IInv

LEMMA FreeEnterStep ==
  ASSUME IInv, NEW a \in Actor, FreeEnter(a)
  PROVE  /\ IInv'
         /\ \E o \in Object : o \in allocated /\ allocated' = allocated \ {o}
<1>1. PICK o \in allocated : /\ allocated' = allocated \ {o}
                             /\ obj' = [obj EXCEPT ![a] = o]
  BY DEF FreeEnter
<1>2. /\ filling = {} /\ pc[a] = "idle"
      /\ \E l \in {"free", "free_direct"} : pc' = [pc EXCEPT ![a] = l]
      /\ lock' \in [Cpu -> Cpu \cup Actor]
      /\ UNCHANGED <<cpu_cache_enabled, slabVars, rounds, cpuVars, depotVars, filling>>
  <2>1. lock' \in [Cpu -> Cpu \cup Actor]
    BY DEF FreeEnter, Acquire, IInv, TypeOK
  <2> QED
    BY <2>1 DEF FreeEnter, Goto
<1>3. o \in Object /\ o # NoObject /\ obj[a] = NoObject
  <2>1. o \in Object
    BY DEF IInv, TypeOK
  <2>2. obj[a] = NoObject
    BY <1>2 DEF IInv, Carrying
  <2> QED
    BY <2>1, <2>2, ObjectAssumption
<1>4. obj'[a] = o /\ \A b \in Actor : b # a => obj'[b] = obj[b]
  BY <1>1 DEF IInv, TypeOK
<1>5. TypeOK' /\ Carrying' /\ FillPhase'
  BY <1>1, <1>2, <1>3 DEF IInv, TypeOK, Carrying, FillPhase, slabVars, cpuVars, depotVars
<1>6. SlabLists' /\ OneHome' /\ DepotSorted'
  BY <1>2 DEF IInv, SlabLists, ObjectsOf, OneHome, DepotSorted, slabVars, cpuVars, depotVars
<1>7. OnlyMade'
  BY <1>1, <1>2, <1>3, <1>4 DEF IInv, OnlyMade, slabVars
<1>8. OnePlace'
  BY <1>1, <1>2, <1>3, <1>4 DEF IInv, OnePlace, InMagazine, slabVars
<1>9. NoLeak'
  <2>1. \A p \in Object, b \in Actor : InFlight(p, b) => p = NoObject \/ InFlight(p, b)'
    BY <1>3, <1>4 DEF InFlight
  <2>2. InFlight(o, a)'
    BY <1>4 DEF InFlight
  <2>3. \A p \in Object, k \in Magazine :
          /\ InMagazine(p, k) => InMagazine(p, k)'
          /\ Reachable(k) => Reachable(k)'
    BY <1>2 DEF InMagazine, Reachable, cpuVars, depotVars
  <2> QED
    BY <1>1, <1>2, <1>3, <2>1, <2>2, <2>3, ObjectAssumption DEF IInv, NoLeak, slabVars
<1> QED
  BY <1>1, <1>3, <1>5, <1>6, <1>7, <1>8, <1>9 DEF IInv

(* An object that slab_direct_alloc can return is in no magazine and in    *)
(* nobody's hands.                                                         *)
LEMMA FreeObject ==
  ASSUME IInv, NEW o \in Object,
         o \in freelist[SlabOf[o]] \/ SlabOf[o] \notin made
  PROVE  /\ o \notin allocated
         /\ \A a \in Actor : obj[a] # o
         /\ \A m \in Magazine : \A i \in 1..Len(rounds[m]) : rounds[m][i] # o
<1>1. o # NoObject
  BY ObjectAssumption
<1> QED
  BY <1>1 DEF IInv, OnePlace, OnlyMade

LEMMA AllocDirectStep ==
  ASSUME IInv, NEW a \in Actor, AllocDirect(a)
  PROVE  /\ IInv'
         /\ \E o \in Object : o \notin allocated /\ allocated' = allocated \cup {o}
<1>1. PICK o \in Object : slab_direct_alloc(o) /\ allocated' = allocated \cup {o}
  BY DEF AllocDirect
<1>2. /\ pc[a] = "alloc_direct" /\ pc' = [pc EXCEPT ![a] = "idle"]
      /\ UNCHANGED <<cpu_cache_enabled, rounds, cpuVars, depotVars, lock, obj, filling>>
  BY DEF AllocDirect, Goto
<1>3. (o \in freelist[SlabOf[o]] \/ SlabOf[o] \notin made) /\ DirectAllocPost(o)
  BY <1>1, DirectAllocStep
<1>4. /\ o \notin allocated
      /\ \A b \in Actor : obj[b] # o
      /\ \A m \in Magazine : \A i \in 1..Len(rounds[m]) : rounds[m][i] # o
  BY <1>3, FreeObject
<1>5. TypeOK' /\ Carrying' /\ FillPhase'
  BY <1>1, <1>2, <1>3 DEF IInv, TypeOK, Carrying, FillPhase, DirectAllocPost, cpuVars, depotVars
<1>6. SlabLists' /\ OneHome' /\ DepotSorted'
  BY <1>2, <1>3 DEF IInv, DirectAllocPost, OneHome, DepotSorted, cpuVars, depotVars
<1>7. OnlyMade'
  BY <1>1, <1>2, <1>3 DEF IInv, OnlyMade, DirectAllocPost
<1>8. OnePlace'
  <2>1. \A m \in Magazine : \A i \in 1..Len(rounds[m]) :
          /\ rounds[m][i] \notin allocated'
          /\ rounds[m][i] \notin freelist'[SlabOf[rounds[m][i]]]
    BY <1>1, <1>3, <1>4 DEF IInv, TypeOK, OnePlace, OnlyMade, DirectAllocPost
  <2>2. \A p \in allocated' : p \notin freelist'[SlabOf[p]]
    BY <1>1, <1>3 DEF IInv, TypeOK, OnePlace, OnlyMade, DirectAllocPost
  <2>3. \A b \in Actor : obj[b] # NoObject =>
          /\ obj[b] \notin allocated'
          /\ obj[b] \notin freelist'[SlabOf[obj[b]]]
    BY <1>1, <1>3, <1>4 DEF IInv, TypeOK, OnePlace, OnlyMade, DirectAllocPost
  <2> QED
    BY <1>2, <2>1, <2>2, <2>3 DEF IInv, OnePlace, InMagazine
<1>9. NoLeak'
  <2>1. \A p \in Object, m \in Magazine :
          /\ InMagazine(p, m) => InMagazine(p, m)'
          /\ Reachable(m) => Reachable(m)'
    BY <1>2 DEF InMagazine, Reachable, cpuVars, depotVars
  <2>2. \A p \in Object, b \in Actor : InFlight(p, b) => InFlight(p, b)'
    BY <1>2 DEF InFlight
  <2> QED
    BY <1>1, <1>3, <2>1, <2>2 DEF IInv, NoLeak, DirectAllocPost
<1> QED
  BY <1>1, <1>4, <1>5, <1>6, <1>7, <1>8, <1>9 DEF IInv

LEMMA CreateFillStep ==
  ASSUME IInv, CreateFill
  PROVE  IInv' /\ allocated' = allocated
<1>1. PICK c \in filling, o \in Object :
        /\ slab_direct_alloc(o)
        /\ rounds' = [rounds EXCEPT ![primary[c]] = Append(rounds[primary[c]], o)]
        /\ filling' = IF Len(rounds[primary[c]]) + 1 = MAGAZINE_SIZE THEN filling \ {c} ELSE filling
        /\ UNCHANGED <<cpu_cache_enabled, cpuVars, depotVars, lock, pc, obj, allocated>>
  BY DEF CreateFill
<1>2. c \in Cpu /\ Len(rounds[primary[c]]) < MAGAZINE_SIZE /\ primary[c] \in Magazine
  BY <1>1 DEF IInv, TypeOK, FillPhase
<1>3. (o \in freelist[SlabOf[o]] \/ SlabOf[o] \notin made) /\ DirectAllocPost(o)
  BY <1>1, DirectAllocStep
<1>4. /\ o \notin allocated
      /\ \A b \in Actor : obj[b] # o
      /\ \A m \in Magazine : \A i \in 1..Len(rounds[m]) : rounds[m][i] # o
  BY <1>3, FreeObject
<1>m. PICK m \in Magazine : m = primary[c]
  BY <1>2
<1>5. /\ OneHome' /\ DepotSorted'
      /\ rounds' \in [Magazine -> Seq(Object)]
      /\ Len(rounds'[m]) = Len(rounds[m]) + 1
      /\ \A k \in Magazine : k # m => rounds'[k] = rounds[k]
      /\ \A k \in Magazine : Reachable(k) <=> Reachable(k)'
      /\ Reachable(m)' /\ InMagazine(o, m)'
      /\ \A k \in Magazine, p \in Object : InMagazine(p, k) => InMagazine(p, k)'
      /\ \A k \in Magazine : \A i \in 1..Len(rounds'[k]) :
           \/ i \in 1..Len(rounds[k]) /\ rounds'[k][i] = rounds[k][i]
           \/ k = m /\ i = Len(rounds[k]) + 1 /\ rounds'[k][i] = o
  <2>1. UNCHANGED <<cpuVars, depotVars>>
    BY <1>1
  <2>2. /\ Len(rounds[m]) < MAGAZINE_SIZE
        /\ rounds' = [rounds EXCEPT ![m] = Append(rounds[m], o)]
    BY <1>1, <1>2, <1>m
  <2>3. PushPost(m, o)
    BY <1>2, <1>m, <2>1, <2>2, PushFacts
  <2> QED
    BY <2>3 DEF PushPost
<1>6. TypeOK' /\ Carrying'
  BY <1>1, <1>3, <1>5 DEF IInv, TypeOK, Carrying, DirectAllocPost, cpuVars, depotVars
<1>7. FillPhase'
  <2>1. \A d \in filling' : Len(rounds'[primary'[d]]) < MAGAZINE_SIZE
    <3> SUFFICES ASSUME NEW d \in filling' PROVE Len(rounds'[primary'[d]]) < MAGAZINE_SIZE
      OBVIOUS
    <3>1. primary' = primary /\ d \in filling /\ d \in Cpu /\ Len(rounds[m]) \in Nat
      BY <1>1 DEF IInv, TypeOK, cpuVars
    <3>2. CASE d = c
      BY <1>1, <1>2, <1>5, <1>m, <3>1, <3>2, SizeAssumption
    <3>3. CASE d # c
      <4>1. primary[d] # m /\ primary[d] \in Magazine
        BY <1>2, <1>m, <3>1, <3>3 DEF IInv, TypeOK, OneHome
      <4> QED
        BY <1>5, <3>1, <4>1 DEF IInv, FillPhase
    <3> QED
      BY <3>2, <3>3
  <2>2. \A a \in Actor : pc'[a] = "idle"
    BY <1>1 DEF IInv, FillPhase
  <2> QED
    BY <2>1, <2>2 DEF FillPhase
<1>8. SlabLists' /\ OnlyMade'
  BY <1>1, <1>3, <1>5 DEF IInv, OnlyMade, DirectAllocPost
<1>9. OnePlace'
  <2>0. \A k \in Magazine : \A i \in 1..Len(rounds[k]) :
          /\ rounds[k][i] \in Object /\ rounds[k][i] \notin allocated
          /\ SlabOf[rounds[k][i]] \in made /\ rounds[k][i] \notin freelist[SlabOf[rounds[k][i]]]
    BY DEF IInv, TypeOK, OnePlace, OnlyMade
  <2>1. \A k, l \in Magazine : \A i \in 1..Len(rounds'[k]), j \in 1..Len(rounds'[l]) :
          rounds'[k][i] = rounds'[l][j] => k = l /\ i = j
    BY <1>4, <1>5 DEF IInv, OnePlace
  <2>2. \A k \in Magazine : \A i \in 1..Len(rounds'[k]) :
          /\ rounds'[k][i] \notin allocated
          /\ rounds'[k][i] \notin freelist'[SlabOf[rounds'[k][i]]]
    BY <1>3, <1>4, <1>5, <2>0 DEF DirectAllocPost
  <2>3. \A p \in allocated : p \notin freelist'[SlabOf[p]]
    BY <1>3 DEF IInv, TypeOK, OnePlace, OnlyMade, DirectAllocPost
  <2>4. \A b \in Actor : obj[b] # NoObject =>
          /\ obj[b] \notin allocated
          /\ obj[b] \notin freelist'[SlabOf[obj[b]]]
          /\ \A k \in Magazine : \A i \in 1..Len(rounds'[k]) : rounds'[k][i] # obj[b]
          /\ \A d \in Actor : obj[d] = obj[b] => d = b
    BY <1>3, <1>4, <1>5 DEF IInv, TypeOK, OnePlace, OnlyMade, InMagazine, DirectAllocPost
  <2>5. allocated' = allocated /\ obj' = obj
    BY <1>1
  <2> QED
    BY <2>1, <2>2, <2>3, <2>4, <2>5 DEF OnePlace, InMagazine
<1>10. NoLeak'
  <2>2. \A p \in Object, b \in Actor : InFlight(p, b) => InFlight(p, b)'
    BY <1>1 DEF InFlight
  <2> QED
    BY <1>1, <1>3, <1>5, <2>2 DEF IInv, NoLeak, DirectAllocPost
<1> QED
  BY <1>1, <1>5, <1>6, <1>7, <1>8, <1>9, <1>10 DEF IInv

(* slab_direct_free puts o, which is nowhere, back into its slab.          *)
LEMMA FreeDirectStep ==
  ASSUME IInv, NEW a \in Actor, FreeDirect(a)
  PROVE  IInv'
<1>o. PICK o : o = obj[a]
  OBVIOUS
<1>s. PICK s : s = SlabOf[o]
  OBVIOUS
<1>1. /\ pc[a] = "free_direct" /\ pc' = [pc EXCEPT ![a] = "idle"]
      /\ obj' = [obj EXCEPT ![a] = NoObject]
      /\ freelist' = [freelist EXCEPT ![s] = freelist[s] \cup {o}]
      /\ free_count' = [free_count EXCEPT ![s] = free_count[s] + 1]
      /\ free_count[s] = 0 =>
           slabs_full' = slabs_full \ {s} /\ slabs_partial' = slabs_partial \cup {s}
      /\ free_count[s] # 0 => slabs_full' = slabs_full /\ slabs_partial' = slabs_partial
      /\ made' = made
      /\ UNCHANGED <<cpu_cache_enabled, rounds, cpuVars, depotVars, lock, filling, allocated>>
  BY <1>o, <1>s DEF FreeDirect, slab_direct_free, Goto
<1>2. o \in Object /\ o # NoObject /\ s \in SlabId /\ filling = {}
  BY <1>o, <1>s, <1>1, ObjectAssumption, SlabAssumption DEF IInv, TypeOK, Carrying, FillPhase
<1>3. /\ obj'[a] = NoObject /\ \A b \in Actor : b # a => obj'[b] = obj[b]
      /\ \A b \in Actor : b # a => obj[b] # o
      /\ o \notin allocated /\ o \notin freelist[s] /\ s \in made
      /\ \A k \in Magazine : \A i \in 1..Len(rounds[k]) : rounds[k][i] # o
  BY <1>o, <1>s, <1>1, <1>2 DEF IInv, TypeOK, OnePlace, OnlyMade, InMagazine
<1>4. /\ freelist'[s] = freelist[s] \cup {o}
      /\ \A t \in SlabId : t # s => freelist'[t] = freelist[t]
  BY <1>1, <1>2 DEF IInv, TypeOK
<1>5. TypeOK' /\ Carrying' /\ FillPhase'
  BY <1>1, <1>2 DEF IInv, TypeOK, Carrying, FillPhase, cpuVars, depotVars
<1>6. OneHome' /\ DepotSorted'
  BY <1>1 DEF IInv, OneHome, DepotSorted, cpuVars, depotVars
<1>7. SlabLists'
  <2>0. TypeOK /\ SlabLists /\ free_count[s] \in Nat
    BY <1>2 DEF IInv, TypeOK
  <2>1. Cardinality(freelist[s] \cup {o}) = free_count[s] + 1
    <3>1. IsFiniteSet(freelist[s])
      BY <1>2, <2>0, ObjectAssumption, FS_Subset DEF TypeOK
    <3>2. Cardinality(freelist[s] \cup {o}) = Cardinality(freelist[s]) + 1
      BY <1>3, <3>1, FS_AddElement
    <3> QED
      BY <1>2, <2>0, <3>2 DEF SlabLists
  <2>2. \A t \in SlabId : free_count'[t] = Cardinality(freelist'[t])
    BY <1>1, <1>2, <1>4, <2>0, <2>1 DEF TypeOK, SlabLists
  <2>3. \A t \in SlabId : freelist'[t] \subseteq ObjectsOf(t)
    BY <1>s, <1>2, <1>4, <2>0 DEF SlabLists, ObjectsOf
  <2>4. slabs_partial' = { t \in made : free_count'[t] > 0 }
    BY <1>1, <1>2, <1>3, <2>0 DEF TypeOK, SlabLists
  <2>5. slabs_full' = { t \in made : free_count'[t] = 0 }
    BY <1>1, <1>2, <1>3, <2>0 DEF TypeOK, SlabLists
  <2> QED
    BY <1>1, <2>2, <2>3, <2>4, <2>5 DEF SlabLists, ObjectsOf
<1>8. OnlyMade'
  BY <1>1, <1>2, <1>3, <1>4 DEF IInv, OnlyMade
<1>9. OnePlace'
  <2>0. \A p \in Object : p \in freelist'[SlabOf[p]] <=> p = o \/ p \in freelist[SlabOf[p]]
    BY <1>s, <1>2, <1>4, SlabAssumption
  <2>1. \A m \in Magazine : \A i \in 1..Len(rounds[m]) : rounds[m][i] \in Object
    BY DEF IInv, TypeOK
  <2>2. \A m \in Magazine : \A i \in 1..Len(rounds[m]) :
          rounds[m][i] \notin freelist'[SlabOf[rounds[m][i]]]
    BY <1>3, <2>0, <2>1 DEF IInv, OnePlace
  <2>3. \A p \in allocated : p \notin freelist'[SlabOf[p]]
    BY <1>3, <2>0 DEF IInv, TypeOK, OnePlace
  <2>4. \A b \in Actor : obj'[b] # NoObject =>
          /\ obj'[b] = obj[b]
          /\ obj'[b] \notin allocated
          /\ obj'[b] \notin freelist'[SlabOf[obj'[b]]]
          /\ \A m \in Magazine : ~InMagazine(obj[b], m)
          /\ \A d \in Actor : obj'[d] = obj'[b] => d = b
    <3> SUFFICES ASSUME NEW b \in Actor, obj'[b] # NoObject
                 PROVE  /\ obj'[b] = obj[b]
                        /\ obj'[b] \notin allocated
                        /\ obj'[b] \notin freelist'[SlabOf[obj'[b]]]
                        /\ \A m \in Magazine : ~InMagazine(obj[b], m)
                        /\ \A d \in Actor : obj'[d] = obj'[b] => d = b
      OBVIOUS
    <3>1. b # a /\ obj'[b] = obj[b] /\ obj[b] # o /\ obj[b] \in Object
      BY <1>3 DEF IInv, TypeOK
    <3>2. /\ obj[b] \notin allocated
          /\ obj[b] \notin freelist[SlabOf[obj[b]]]
          /\ \A m \in Magazine : ~InMagazine(obj[b], m)
          /\ \A d \in Actor : obj[d] = obj[b] => d = b
      BY <3>1 DEF IInv, OnePlace
    <3> QED
      BY <1>3, <2>0, <3>1, <3>2
  <2>5. rounds' = rounds /\ allocated' = allocated
    BY <1>1
  <2> QED
    BY <2>2, <2>3, <2>4, <2>5 DEF IInv, OnePlace, InMagazine
<1>10. NoLeak'
  <2>1. \A p \in Object : p \in freelist[SlabOf[p]] \/ p = o => p \in freelist'[SlabOf[p]]
    BY <1>s, <1>2, <1>4, SlabAssumption
  <2>2. \A p \in Object, b \in Actor : InFlight(p, b) => p = o \/ InFlight(p, b)'
    BY <1>o, <1>3 DEF InFlight
  <2>3. \A p \in Object, m \in Magazine :
          /\ InMagazine(p, m) => InMagazine(p, m)'
          /\ Reachable(m) => Reachable(m)'
    BY <1>1 DEF InMagazine, Reachable, cpuVars, depotVars
  <2> QED
    BY <1>1, <2>1, <2>2, <2>3 DEF IInv, NoLeak
<1> QED
  BY <1>5, <1>6, <1>7, <1>8, <1>9, <1>10 DEF IInv
---------------------------------------------------------------------------
LEMMA InitIInv == Init => IInv
<1> SUFFICES ASSUME Init PROVE IInv
  OBVIOUS
<1>1. TypeOK
  BY MagazineAssumption DEF Init, TypeOK, ExtraMagazines
<1>2. SlabLists
  <2>1. Cardinality({}) = 0
    BY FS_EmptySet
  <2> QED
    BY <2>1 DEF Init, SlabLists
<1>3. OneHome /\ DepotSorted /\ FillPhase
  BY MagazineAssumption, SizeAssumption DEF Init, OneHome, DepotSorted, FillPhase, ExtraMagazines
<1>4. Carrying /\ OnlyMade /\ OnePlace /\ NoLeak
  BY DEF Init, Carrying, OnlyMade, OnePlace, NoLeak
<1> QED
  BY <1>1, <1>2, <1>3, <1>4 DEF IInv

(* A step as the callers see it: one object is handed out or given back,   *)
(* or nothing happens.                                                     *)
AbstractStep ==
  \/ \E o \in Object : o \notin allocated /\ allocated' = allocated \cup {o}
  \/ \E o \in Object : o \in allocated /\ allocated' = allocated \ {o}
  \/ allocated' = allocated

(* Every step keeps IInv and is a step the callers may see.                *)
LEMMA NextStep ==
  ASSUME IInv, [Next]_vars
  PROVE  IInv' /\ AbstractStep
<1>1. CASE CreateFill
  BY <1>1, CreateFillStep DEF AbstractStep
<1>2. ASSUME NEW a \in Actor, AllocEnter(a) \/ \E c \in Cpu : AllocMiss(a, c) \/ FreeMiss(a, c)
      PROVE  IInv' /\ allocated' = allocated
  BY <1>2, IdleSteps DEF AllocEnter, AllocMiss, FreeMiss
<1>3. ASSUME NEW a \in Actor, NEW c \in Cpu,
             AllocSwap(a, c) \/ FreeSwap(a, c) \/ AllocDepot(a, c) \/ FreeDepot(a, c)
      PROVE  IInv' /\ allocated' = allocated
  BY <1>3, MagazineSteps DEF AllocSwap, FreeSwap, AllocDepot, FreeDepot
<1>4. ASSUME NEW a \in Actor, NEW c \in Cpu, AllocPop(a, c)
      PROVE  IInv' /\ AbstractStep
  BY <1>4, AllocPopStep DEF AbstractStep
<1>5. ASSUME NEW a \in Actor, AllocDirect(a)
      PROVE  IInv' /\ AbstractStep
  BY <1>5, AllocDirectStep DEF AbstractStep
<1>6. ASSUME NEW a \in Actor, FreeEnter(a)
      PROVE  IInv' /\ AbstractStep
  BY <1>6, FreeEnterStep DEF AbstractStep
<1>7. ASSUME NEW a \in Actor, NEW c \in Cpu, FreePush(a, c)
      PROVE  IInv' /\ allocated' = allocated
  BY <1>7, FreePushStep DEF FreePush
<1>8. ASSUME NEW a \in Actor, FreeDirect(a)
      PROVE  IInv' /\ allocated' = allocated
  BY <1>8, FreeDirectStep DEF FreeDirect
<1>9. CASE UNCHANGED vars
  <2>1. UNCHANGED <<cpu_cache_enabled, slabVars, rounds, cpuVars, depotVars, lock, pc, obj, filling, allocated>>
    BY <1>9 DEF vars
  <2>2. TypeOK' /\ SlabLists' /\ OnlyMade' /\ FillPhase' /\ Carrying' /\ OneHome' /\ DepotSorted'
    BY <2>1 DEF IInv, TypeOK, SlabLists, ObjectsOf, OnlyMade, FillPhase, Carrying, OneHome,
                DepotSorted, slabVars, cpuVars, depotVars
  <2>3. OnePlace' /\ NoLeak'
    BY <2>1 DEF IInv, OnePlace, NoLeak, InMagazine, InFlight, Reachable, slabVars, cpuVars, depotVars
  <2> QED
    BY <2>1, <2>2, <2>3 DEF IInv, AbstractStep
<1> QED
  BY <1>1, <1>2, <1>3, <1>4, <1>5, <1>6, <1>7, <1>8, <1>9, CreateFillStep DEF Next, Step, Loop, AbstractStep

LEMMA Invariance == Spec => []IInv
<1>1. IInv /\ [Next]_vars => IInv'
  BY NextStep
<1> QED
  BY <1>1, InitIInv, PTL DEF Spec

(* The variables of a slab cache keep their types.                         *)
THEOREM TypeCorrect == Spec => []TypeOK
<1>1. IInv => TypeOK
  BY DEF IInv
<1> QED
  BY <1>1, Invariance, PTL

(* No object is in two places: slab_allocate never returns memory that     *)
(* another caller owns or that is still on a freelist or in a magazine.    *)
THEOREM NoDoubleAllocation == Spec => []OnePlace
<1>1. IInv => OnePlace
  BY DEF IInv
<1> QED
  BY <1>1, Invariance, PTL

(* No object is lost: slab_free never drops one, and the magazines that    *)
(* slab_allocate gives to magazines_empty hold none.                       *)
THEOREM NothingLeaks == Spec => []NoLeak
<1>1. IInv => NoLeak
  BY DEF IInv
<1> QED
  BY <1>1, Invariance, PTL

(* The depot lists of full and empty magazines tell the truth.             *)
THEOREM DepotIsSorted == Spec => []DepotSorted
<1>1. IInv => DepotSorted
  BY DEF IInv
<1> QED
  BY <1>1, Invariance, PTL

(* A magazine has one home: the depot exchanges of slab_allocate and       *)
(* slab_free, under magazines_lock, never give a magazine to two CPUs.     *)
THEOREM MagazinesHaveOneHome == Spec => []OneHome
<1>1. IInv => OneHome
  BY DEF IInv
<1> QED
  BY <1>1, Invariance, PTL

(* free_count and the slab lists agree with the freelists, so the ASSERT   *)
(* of slab_direct_alloc never fires.                                       *)
THEOREM SlabListsAgree == Spec => []SlabLists
<1>1. IInv => SlabLists
  BY DEF IInv
<1> QED
  BY <1>1, Invariance, PTL

(* Each object of the cache is in one place and in no other: owned, in     *)
(* flight, on its slab's freelist or in one magazine that is in reach.     *)
THEOREM ObjectsStayAccounted == Spec => []ObjectsAccounted
  BY NoDoubleAllocation, NothingLeaks, PTL DEF ObjectsAccounted

(* The depot, the magazines' homes and the slabs' counts and lists stay    *)
(* true whatever slab_allocate and slab_free interleave.                   *)
THEOREM BookkeepingStays == Spec => []BookkeepingAgrees
  BY TypeCorrect, DepotIsSorted, MagazinesHaveOneHome, SlabListsAgree, PTL DEF BookkeepingAgrees

(* Under IInv the pool is what callers do not own: NoLeak gives one        *)
(* inclusion, OnePlace and OnlyMade the other.                             *)
LEMMA PoolIsTheRest == IInv => Pool = Object \ allocated
<1> SUFFICES ASSUME IInv, NEW o \in Object
             PROVE  o \in Pool <=> o \notin allocated
  BY DEF Pool
<1>1. CASE o \in allocated
  <2>1. SlabOf[o] \in made /\ o \notin freelist[SlabOf[o]]
    BY <1>1 DEF IInv, OnlyMade, OnePlace
  <2>2. \A a \in Actor : ~InFlight(o, a)
    BY <1>1, ObjectAssumption DEF IInv, OnePlace, InFlight
  <2>3. \A m \in Magazine : ~InMagazine(o, m)
    BY <1>1 DEF IInv, OnePlace, InMagazine
  <2> QED
    BY <1>1, <2>1, <2>2, <2>3 DEF Pool
<1>2. CASE o \notin allocated
  BY <1>2 DEF IInv, NoLeak, Pool
<1> QED
  BY <1>1, <1>2

(* The slab cache implements the abstract allocator: slab_allocate returns *)
(* an object of the pool, slab_free gives one back, and no other step of   *)
(* any CPU moves an object into or out of the pool.                        *)
THEOREM Refinement == Spec => ImplementsAllocator
<1>0. (IInv => Pool = Object \ allocated)'
  BY PoolIsTheRest, PTL
<1>1. Init => Alloc!Init
  <2> SUFFICES ASSUME Init PROVE Alloc!Init
    OBVIOUS
  <2>1. Pool = Object \ allocated
    BY InitIInv, PoolIsTheRest
  <2> QED
    BY <2>1 DEF Init, Alloc!Init
<1>2. IInv /\ [Next]_vars => [Alloc!Allocate \/ Alloc!Free]_<<allocated, Pool>>
  <2> SUFFICES ASSUME IInv, [Next]_vars
               PROVE  [Alloc!Allocate \/ Alloc!Free]_<<allocated, Pool>>
    OBVIOUS
  <2>1. IInv' /\ AbstractStep
    BY NextStep
  <2>2. Pool = Object \ allocated /\ Pool' = Object \ allocated'
    BY <2>1, <1>0, PoolIsTheRest
  <2>3. ASSUME NEW o \in Object, o \notin allocated, allocated' = allocated \cup {o}
        PROVE  Alloc!Allocate
    BY <2>2, <2>3 DEF Alloc!Allocate
  <2>4. ASSUME NEW o \in Object, o \in allocated, allocated' = allocated \ {o}
        PROVE  Alloc!Free
    BY <2>2, <2>4 DEF Alloc!Free
  <2> QED
    BY <2>1, <2>2, <2>3, <2>4 DEF AbstractStep
<1> QED
  BY <1>1, <1>2, Invariance, PTL DEF Spec, ImplementsAllocator, Alloc!Spec

(* The retry loops of slab_allocate and slab_free end: one swap or one     *)
(* exchange with the depot always leaves a primary that can serve.         *)
THEOREM LoopsServe == Spec => LoopServes
<1> DEFINE Serves == \A a \in Actor, c \in Cpu :
             /\ AllocSwap(a, c) \/ AllocDepot(a, c) => Len(rounds[primary'[c]]) > 0
             /\ FreeSwap(a, c) \/ FreeDepot(a, c) => Len(rounds[primary'[c]]) < MAGAZINE_SIZE
<1>1. IInv => Serves
  <2> SUFFICES ASSUME IInv, NEW a \in Actor, NEW c \in Cpu
               PROVE  /\ AllocSwap(a, c) \/ AllocDepot(a, c) => Len(rounds[primary'[c]]) > 0
                      /\ FreeSwap(a, c) \/ FreeDepot(a, c) => Len(rounds[primary'[c]]) < MAGAZINE_SIZE
    OBVIOUS
  <2>0. /\ MAGAZINE_SIZE \in Nat /\ MAGAZINE_SIZE > 0 /\ primary \in [Cpu -> Magazine]
        /\ \A m \in magazines_full : Len(rounds[m]) = MAGAZINE_SIZE
        /\ \A m \in magazines_empty : Len(rounds[m]) = 0
    BY SizeAssumption DEF IInv, TypeOK, DepotSorted
  <2>1. CASE AllocSwap(a, c)
    BY <2>0, <2>1 DEF AllocSwap, FreeSwap, FreeDepot, Swap
  <2>2. CASE FreeSwap(a, c)
    BY <2>0, <2>2 DEF FreeSwap, AllocSwap, AllocDepot, Swap
  <2>3. CASE AllocDepot(a, c)
    BY <2>0, <2>3 DEF AllocDepot, FreeSwap, FreeDepot, Rotate
  <2>4. CASE FreeDepot(a, c)
    BY <2>0, <2>4 DEF FreeDepot, AllocSwap, AllocDepot, Rotate
  <2> QED
    BY <2>1, <2>2, <2>3, <2>4
<1>2. IInv => [Serves]_vars
  BY <1>1
<1> QED
  BY <1>2, Invariance, PTL DEF LoopServes
===========================================================================
