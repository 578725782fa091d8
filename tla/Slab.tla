------------------------------- MODULE Slab -------------------------------
(***************************************************************************)
(* One slab cache of memory/slab.c: slabs carved into objects, a depot of  *)
(* full and empty magazines, and per CPU a primary and a secondary         *)
(* magazine in front of it.                                                *)
(*                                                                         *)
(* Grain of atomicity.  The sections under cache->slabs_lock and           *)
(* cache->magazines_lock are one action each.  cc->lock spans several      *)
(* iterations of the alloc: / free: loops, so it is a variable and every   *)
(* iteration is an action of its own.                                      *)
(*                                                                         *)
(* Abstractions.  The intrusive lists and the freelist are sets, because   *)
(* no property depends on which element is at the head; a magazine's       *)
(* rounds[0..round_count-1] is a sequence.                                 *)
(***************************************************************************)
EXTENDS Integers, Sequences, FiniteSets

CONSTANTS
  Cpu,            \* g_cpu_list
  Actor,          \* threads that call slab_allocate / slab_free
  Object,         \* the object slots of every slab PMM could still provide
  SlabId,         \* blocks that pmm_alloc(cache->block_order) can return
  Magazine,       \* the magazines slab_cache_create takes from g_alloc_magazine
  SlabOf,         \* obj & ~(block size - 1)
  MAGAZINE_SIZE,
  InitPrimary, InitSecondary,  \* the two magazines given to every CPU
  NoObject

ExtraMagazines ==
  Magazine \ { m \in Magazine : \E c \in Cpu : m = InitPrimary[c] \/ m = InitSecondary[c] }

ASSUME SizeAssumption == MAGAZINE_SIZE \in Nat \ {0}
ASSUME ObjectAssumption == /\ NoObject \notin Object
                           /\ IsFiniteSet(Object)
ASSUME SlabAssumption == SlabOf \in [Object -> SlabId]
\* cache_make_slab asserts that a slab holds at least one object.
ASSUME CapacityAssumption == \A s \in SlabId : \E o \in Object : SlabOf[o] = s
\* slab_cache_create gives no magazine to two CPUs or to two roles.
ASSUME MagazineAssumption ==
  /\ InitPrimary \in [Cpu -> Magazine]
  /\ InitSecondary \in [Cpu -> Magazine]
  /\ \A c, d \in Cpu : /\ InitPrimary[c] # InitSecondary[d]
                       /\ InitPrimary[c] = InitPrimary[d] => c = d
                       /\ InitSecondary[c] = InitSecondary[d] => c = d
ASSUME ActorAssumption == Actor \cap Cpu = {}

VARIABLES
  cpu_cache_enabled,              \* cache->cpu_cache_enabled
  made,                           \* slabs obtained from the PMM so far
  freelist, free_count,           \* slab->freelist, slab->free_count
  slabs_partial, slabs_full,      \* cache->slabs_partial, cache->slabs_full
  rounds,                         \* magazine->rounds
  primary, secondary,             \* cc->primary, cc->secondary
  magazines_full, magazines_empty,
  lock,                           \* cc->lock: its holder, or the CPU itself if free
  pc, obj,                        \* of each caller: where it is, the object it frees
  filling,                        \* CPUs slab_cache_create has not finished yet
  allocated                       \* the objects that callers own

slabVars == <<made, freelist, free_count, slabs_partial, slabs_full>>
depotVars == <<magazines_full, magazines_empty>>
cpuVars == <<primary, secondary>>
vars == <<cpu_cache_enabled, slabVars, rounds, cpuVars, depotVars, lock, pc, obj,
          filling, allocated>>

ObjectsOf(s) == { o \in Object : SlabOf[o] = s }

Front(s) == SubSeq(s, 1, Len(s) - 1)
---------------------------------------------------------------------------
(* slab_cache_create up to the fill loop: every magazine is empty.         *)
Init ==
  /\ cpu_cache_enabled \in BOOLEAN
  /\ made = {}
  /\ freelist = [s \in SlabId |-> {}]
  /\ free_count = [s \in SlabId |-> 0]
  /\ slabs_partial = {} /\ slabs_full = {}
  /\ rounds = [m \in Magazine |-> <<>>]
  /\ primary = InitPrimary /\ secondary = InitSecondary
  /\ magazines_full = {} /\ magazines_empty = ExtraMagazines
  /\ lock = [c \in Cpu |-> c]
  /\ pc = [a \in Actor |-> "idle"]
  /\ obj = [a \in Actor |-> NoObject]
  /\ filling = IF cpu_cache_enabled THEN Cpu ELSE {}
  /\ allocated = {}

(* The body of slab_direct_alloc once slab s is the head of slabs_partial: *)
(* pop object o, and move s to slabs_full when that was its last one.      *)
TakeFrom(s, o, partial, free, count) ==
  /\ freelist' = [free EXCEPT ![s] = @ \ {o}]
  /\ free_count' = [count EXCEPT ![s] = @ - 1]
  /\ IF count[s] - 1 = 0
       THEN slabs_partial' = partial \ {s} /\ slabs_full' = slabs_full \cup {s}
       ELSE slabs_partial' = partial /\ slabs_full' = slabs_full

(* slab_direct_alloc returning o.  With no partial slab it first runs      *)
(* cache_make_slab; when the PMM is exhausted pmm_alloc panics and the     *)
(* caller stays where it is.                                               *)
slab_direct_alloc(o) ==
  \/ /\ SlabOf[o] \in slabs_partial
     /\ o \in freelist[SlabOf[o]]
     /\ TakeFrom(SlabOf[o], o, slabs_partial, freelist, free_count)
     /\ made' = made
  \/ /\ slabs_partial = {}
     /\ SlabOf[o] \notin made
     /\ made' = made \cup {SlabOf[o]}
     /\ TakeFrom(SlabOf[o], o, {SlabOf[o]},
                 [freelist EXCEPT ![SlabOf[o]] = ObjectsOf(SlabOf[o])],
                 [free_count EXCEPT ![SlabOf[o]] = Cardinality(ObjectsOf(SlabOf[o]))])

(* Mutant: the object is not linked back into the slab.                    *)
slab_direct_free_drops(o) == o \in Object /\ UNCHANGED slabVars

(* slab_direct_free: the slab leaves slabs_full if it was exhausted.       *)
slab_direct_free(o) ==
  LET s == SlabOf[o] IN
  /\ freelist' = [freelist EXCEPT ![s] = @ \cup {o}]
  /\ IF free_count[s] = 0
       THEN slabs_full' = slabs_full \ {s} /\ slabs_partial' = slabs_partial \cup {s}
       ELSE UNCHANGED <<slabs_full, slabs_partial>>
  /\ free_count' = [free_count EXCEPT ![s] = @ + 1]
  /\ UNCHANGED made

(* slab_cache_create fills the primary magazine of every CPU; the cache is *)
(* only returned to its users once all of them are full.                   *)
CreateFill ==
  \E c \in filling, o \in Object :
    /\ slab_direct_alloc(o)
    /\ rounds' = [rounds EXCEPT ![primary[c]] = Append(@, o)]
    /\ filling' = IF Len(rounds[primary[c]]) + 1 = MAGAZINE_SIZE THEN filling \ {c} ELSE filling
    /\ UNCHANGED <<cpu_cache_enabled, cpuVars, depotVars, lock, pc, obj, allocated>>
---------------------------------------------------------------------------
Goto(a, label) == pc' = [pc EXCEPT ![a] = label]

Acquire(a, c) == lock[c] = c /\ lock' = [lock EXCEPT ![c] = a]
Release(c) == lock' = [lock EXCEPT ![c] = c]

(* Entry of slab_allocate: a cache without CPU caches goes straight to its *)
(* slabs; otherwise take cc->lock of the CPU the caller is running on.     *)
AllocEnter(a) ==
  /\ filling = {} /\ pc[a] = "idle"
  /\ \/ ~cpu_cache_enabled /\ Goto(a, "alloc_direct") /\ UNCHANGED lock
     \/ /\ cpu_cache_enabled
        /\ \E c \in Cpu : Acquire(a, c)
        /\ Goto(a, "alloc")
  /\ UNCHANGED <<cpu_cache_enabled, slabVars, rounds, cpuVars, depotVars, obj, filling, allocated>>

(* Mutant: round_count is read but not decremented.                        *)
AllocPopKeeps(a, c) ==
  LET m == primary[c] IN
  /\ lock[c] = a /\ pc[a] = "alloc"
  /\ Len(rounds[m]) > 0
  /\ allocated' = allocated \cup {rounds[m][Len(rounds[m])]}
  /\ Release(c)
  /\ Goto(a, "idle")
  /\ UNCHANGED <<cpu_cache_enabled, slabVars, rounds, cpuVars, depotVars, obj, filling>>

(* alloc: the primary magazine has a round; pop it and return it.          *)
AllocPop(a, c) ==
  LET m == primary[c] IN
  /\ lock[c] = a /\ pc[a] = "alloc"
  /\ Len(rounds[m]) > 0
  /\ allocated' = allocated \cup {rounds[m][Len(rounds[m])]}
  /\ rounds' = [rounds EXCEPT ![m] = Front(@)]
  /\ Release(c)
  /\ Goto(a, "idle")
  /\ UNCHANGED <<cpu_cache_enabled, slabVars, cpuVars, depotVars, obj, filling>>

Swap(c) ==
  /\ primary' = [primary EXCEPT ![c] = secondary[c]]
  /\ secondary' = [secondary EXCEPT ![c] = primary[c]]

(* alloc: primary empty, secondary full; swap them and go round again.     *)
AllocSwap(a, c) ==
  /\ lock[c] = a /\ pc[a] = "alloc"
  /\ Len(rounds[primary[c]]) = 0
  /\ Len(rounds[secondary[c]]) = MAGAZINE_SIZE
  /\ Swap(c)
  /\ UNCHANGED <<cpu_cache_enabled, slabVars, rounds, depotVars, lock, pc, obj, filling, allocated>>

(* Under magazines_lock, once the old secondary is on a depot list: the    *)
(* primary becomes the secondary and magazine m the new primary.           *)
Rotate(c, m) ==
  /\ primary' = [primary EXCEPT ![c] = m]
  /\ secondary' = [secondary EXCEPT ![c] = primary[c]]

(* Mutant: the full magazine is used but not popped from the depot.        *)
AllocDepotPeeks(a, c) ==
  /\ lock[c] = a /\ pc[a] = "alloc"
  /\ Len(rounds[primary[c]]) = 0
  /\ Len(rounds[secondary[c]]) # MAGAZINE_SIZE
  /\ \E m \in magazines_full :
       /\ magazines_empty' = magazines_empty \cup {secondary[c]}
       /\ Rotate(c, m)
  /\ UNCHANGED <<cpu_cache_enabled, slabVars, rounds, magazines_full, lock, pc, obj, filling, allocated>>

(* alloc: both magazines exhausted; exchange one for a full depot magazine.*)
AllocDepot(a, c) ==
  /\ lock[c] = a /\ pc[a] = "alloc"
  /\ Len(rounds[primary[c]]) = 0
  /\ Len(rounds[secondary[c]]) # MAGAZINE_SIZE
  /\ \E m \in magazines_full :
       /\ magazines_full' = magazines_full \ {m}
       /\ magazines_empty' = magazines_empty \cup {secondary[c]}
       /\ Rotate(c, m)
  /\ UNCHANGED <<cpu_cache_enabled, slabVars, rounds, lock, pc, obj, filling, allocated>>

(* alloc: the depot has no full magazine; drop cc->lock and go direct.     *)
AllocMiss(a, c) ==
  /\ lock[c] = a /\ pc[a] = "alloc"
  /\ Len(rounds[primary[c]]) = 0
  /\ Len(rounds[secondary[c]]) # MAGAZINE_SIZE
  /\ magazines_full = {}
  /\ Release(c)
  /\ Goto(a, "alloc_direct")
  /\ UNCHANGED <<cpu_cache_enabled, slabVars, rounds, cpuVars, depotVars, obj, filling, allocated>>

AllocDirect(a) ==
  /\ pc[a] = "alloc_direct"
  /\ \E o \in Object : slab_direct_alloc(o) /\ allocated' = allocated \cup {o}
  /\ Goto(a, "idle")
  /\ UNCHANGED <<cpu_cache_enabled, rounds, cpuVars, depotVars, lock, obj, filling>>
---------------------------------------------------------------------------
(* Entry of slab_free.  Callers free what they own, once.                  *)
FreeEnter(a) ==
  /\ filling = {} /\ pc[a] = "idle"
  /\ \E o \in allocated : /\ allocated' = allocated \ {o}
                          /\ obj' = [obj EXCEPT ![a] = o]
  /\ \/ ~cpu_cache_enabled /\ Goto(a, "free_direct") /\ UNCHANGED lock
     \/ /\ cpu_cache_enabled
        /\ \E c \in Cpu : Acquire(a, c)
        /\ Goto(a, "free")
  /\ UNCHANGED <<cpu_cache_enabled, slabVars, rounds, cpuVars, depotVars, filling>>

(* free: the primary magazine has room.                                    *)
FreePush(a, c) ==
  LET m == primary[c] IN
  /\ lock[c] = a /\ pc[a] = "free"
  /\ Len(rounds[m]) < MAGAZINE_SIZE
  /\ rounds' = [rounds EXCEPT ![m] = Append(@, obj[a])]
  /\ obj' = [obj EXCEPT ![a] = NoObject]
  /\ Release(c)
  /\ Goto(a, "idle")
  /\ UNCHANGED <<cpu_cache_enabled, slabVars, cpuVars, depotVars, filling, allocated>>

(* Mutant: swaps without looking at the secondary magazine.                *)
FreeSwapBlindly(a, c) ==
  /\ lock[c] = a /\ pc[a] = "free"
  /\ Len(rounds[primary[c]]) >= MAGAZINE_SIZE
  /\ Swap(c)
  /\ UNCHANGED <<cpu_cache_enabled, slabVars, rounds, depotVars, lock, pc, obj, filling, allocated>>

(* free: primary full, secondary empty; swap them and go round again.      *)
FreeSwap(a, c) ==
  /\ lock[c] = a /\ pc[a] = "free"
  /\ Len(rounds[primary[c]]) >= MAGAZINE_SIZE
  /\ Len(rounds[secondary[c]]) = 0
  /\ Swap(c)
  /\ UNCHANGED <<cpu_cache_enabled, slabVars, rounds, depotVars, lock, pc, obj, filling, allocated>>

(* free: both magazines full; exchange one for an empty depot magazine.    *)
FreeDepot(a, c) ==
  /\ lock[c] = a /\ pc[a] = "free"
  /\ Len(rounds[primary[c]]) >= MAGAZINE_SIZE
  /\ Len(rounds[secondary[c]]) # 0
  /\ \E m \in magazines_empty :
       /\ magazines_empty' = magazines_empty \ {m}
       /\ magazines_full' = magazines_full \cup {secondary[c]}
       /\ Rotate(c, m)
  /\ UNCHANGED <<cpu_cache_enabled, slabVars, rounds, lock, pc, obj, filling, allocated>>

(* free: the depot has no empty magazine; drop cc->lock and go direct.     *)
FreeMiss(a, c) ==
  /\ lock[c] = a /\ pc[a] = "free"
  /\ Len(rounds[primary[c]]) >= MAGAZINE_SIZE
  /\ Len(rounds[secondary[c]]) # 0
  /\ magazines_empty = {}
  /\ Release(c)
  /\ Goto(a, "free_direct")
  /\ UNCHANGED <<cpu_cache_enabled, slabVars, rounds, cpuVars, depotVars, obj, filling, allocated>>

FreeDirect(a) ==
  /\ pc[a] = "free_direct"
  /\ slab_direct_free(obj[a])
  /\ obj' = [obj EXCEPT ![a] = NoObject]
  /\ Goto(a, "idle")
  /\ UNCHANGED <<cpu_cache_enabled, rounds, cpuVars, depotVars, lock, filling, allocated>>

(* An iteration of the alloc: or the free: loop, with cc->lock of c held.  *)
Loop(a, c) ==
  \/ AllocPop(a, c) \/ AllocSwap(a, c) \/ AllocDepot(a, c) \/ AllocMiss(a, c)
  \/ FreePush(a, c) \/ FreeSwap(a, c) \/ FreeDepot(a, c) \/ FreeMiss(a, c)

Step(a) ==
  \/ AllocEnter(a) \/ AllocDirect(a) \/ FreeEnter(a) \/ FreeDirect(a)
  \/ \E c \in Cpu : Loop(a, c)

Next == CreateFill \/ \E a \in Actor : Step(a)

Spec == Init /\ [][Next]_vars
---------------------------------------------------------------------------
(* Properties.                                                             *)

TypeOK ==
  /\ cpu_cache_enabled \in BOOLEAN
  /\ made \subseteq SlabId
  /\ freelist \in [SlabId -> SUBSET Object]
  /\ free_count \in [SlabId -> Nat]
  /\ slabs_partial \subseteq SlabId /\ slabs_full \subseteq SlabId
  /\ rounds \in [Magazine -> Seq(Object)]
  /\ primary \in [Cpu -> Magazine] /\ secondary \in [Cpu -> Magazine]
  /\ magazines_full \subseteq Magazine /\ magazines_empty \subseteq Magazine
  /\ lock \in [Cpu -> Cpu \cup Actor]
  /\ pc \in [Actor -> {"idle", "alloc", "alloc_direct", "free", "free_direct"}]
  /\ obj \in [Actor -> Object \cup {NoObject}]
  /\ filling \subseteq Cpu
  /\ allocated \subseteq Object

(* Free objects outside the slabs: in a magazine, or on their way back     *)
(* through slab_free.                                                      *)
InMagazine(o, m) == \E i \in 1..Len(rounds[m]) : rounds[m][i] = o
InFlight(o, a) == obj[a] = o

(* No object is in two places: not twice in the magazines, not both free   *)
(* and owned by a caller, not in the hands of two slab_free calls.  This   *)
(* is what makes the memory slab_allocate returns the caller's alone.      *)
OnePlace ==
  /\ \A m, n \in Magazine : \A i \in 1..Len(rounds[m]), j \in 1..Len(rounds[n]) :
       rounds[m][i] = rounds[n][j] => m = n /\ i = j
  /\ \A m \in Magazine : \A i \in 1..Len(rounds[m]) :
       /\ rounds[m][i] \notin allocated
       /\ rounds[m][i] \notin freelist[SlabOf[rounds[m][i]]]
  /\ \A o \in allocated : o \notin freelist[SlabOf[o]]
  /\ \A a \in Actor : obj[a] # NoObject =>
       /\ obj[a] \notin allocated
       /\ obj[a] \notin freelist[SlabOf[obj[a]]]
       /\ \A m \in Magazine : ~InMagazine(obj[a], m)
       /\ \A b \in Actor : obj[b] = obj[a] => b = a

(* Nothing leaks: every object of every slab made so far is owned, in      *)
(* flight, in its slab's freelist, or in a magazine that a CPU or the      *)
(* depot's full list can still hand out.                                   *)
Reachable(m) == m \in magazines_full \/ \E c \in Cpu : m \in {primary[c], secondary[c]}
NoLeak ==
  \A o \in Object : SlabOf[o] \in made =>
    \/ o \in allocated
    \/ o \in freelist[SlabOf[o]]
    \/ \E a \in Actor : InFlight(o, a)
    \/ \E m \in Magazine : Reachable(m) /\ InMagazine(o, m)

(* Every object of the cache is in exactly one place, however              *)
(* slab_allocate, slab_free and the exchanges with the depot interleave on *)
(* several CPUs.                                                           *)
ObjectsAccounted == OnePlace /\ NoLeak

(* The depot lists tell the truth, and a CPU's secondary magazine is never *)
(* partly used: that is why alloc: may push it to magazines_empty and      *)
(* free: to magazines_full without looking at its round_count.             *)
DepotSorted ==
  /\ \A m \in magazines_full : Len(rounds[m]) = MAGAZINE_SIZE
  /\ \A m \in magazines_empty : Len(rounds[m]) = 0
  /\ \A c \in Cpu : Len(rounds[secondary[c]]) \in {0, MAGAZINE_SIZE}
  /\ \A m \in Magazine : Len(rounds[m]) <= MAGAZINE_SIZE

(* A magazine has one home, so cc->lock really protects the two magazines  *)
(* it is meant to protect and a list node is never linked twice.           *)
OneHome ==
  /\ \A c, d \in Cpu : /\ primary[c] # secondary[d]
                       /\ primary[c] = primary[d] => c = d
                       /\ secondary[c] = secondary[d] => c = d
  /\ \A c \in Cpu : {primary[c], secondary[c]} \cap (magazines_full \cup magazines_empty) = {}
  /\ magazines_full \cap magazines_empty = {}

(* slab->free_count counts the freelist, and a slab is on slabs_partial    *)
(* exactly while it has a free object (the ASSERT of slab_direct_alloc).   *)
SlabLists ==
  /\ \A s \in SlabId : free_count[s] = Cardinality(freelist[s])
  /\ \A s \in SlabId : freelist[s] \subseteq ObjectsOf(s)
  /\ slabs_partial = { s \in made : free_count[s] > 0 }
  /\ slabs_full = { s \in made : free_count[s] = 0 }

(* What slab.c keeps beside the objects stays true: the sorted depot, the  *)
(* one home of a magazine, the counts and lists of the slabs.              *)
BookkeepingAgrees == TypeOK /\ DepotSorted /\ OneHome /\ SlabLists

(* A caller in slab_free carries an object, every other caller none.       *)
Carrying == \A a \in Actor : obj[a] # NoObject <=> pc[a] \in {"free", "free_direct"}

(* The goto alloc / goto free loops end: after one swap or one exchange    *)
(* with the depot the primary magazine can serve the caller, so no caller  *)
(* swaps or exchanges twice under the same hold of cc->lock.               *)
LoopServes ==
  [][\A a \in Actor, c \in Cpu :
       /\ AllocSwap(a, c) \/ AllocDepot(a, c) => Len(rounds[primary'[c]]) > 0
       /\ FreeSwap(a, c) \/ FreeDepot(a, c) => Len(rounds[primary'[c]]) < MAGAZINE_SIZE]_vars

(* What slab_allocate may still hand out.                                  *)
Pool == { o \in Object : \/ SlabOf[o] \notin made
                         \/ o \in freelist[SlabOf[o]]
                         \/ \E a \in Actor : InFlight(o, a)
                         \/ \E m \in Magazine : Reachable(m) /\ InMagazine(o, m) }

Alloc == INSTANCE Allocator WITH Resource <- Object, owned <- allocated, pool <- Pool

(* The cache implements the abstract allocator: of everything it does, a   *)
(* caller sees only an object leave the pool when slab_allocate returns it *)
(* and enter it when slab_free is called.                                  *)
ImplementsAllocator == Alloc!Spec
===========================================================================
