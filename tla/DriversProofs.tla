---------------------------- MODULE DriversProofs ---------------------------
(***************************************************************************)
(* Who owns what the drivers are given, for every machine, every number of *)
(* vectors, lines, handlers and overrides, and all modules and symbol      *)
(* tables: vectors keep their owners, no line leads to the kernel's own    *)
(* handlers, and the mapped regions are exactly those of the modules,      *)
(* whichever step of module_load fails.                                    *)
(***************************************************************************)
EXTENDS Drivers, FiniteSetTheorems, SequenceTheorems, WellFoundedInduction, TLAPS

KERNELAPI == "kernelapi_interrupt_handler"

(* The shape of the tables.                                                *)
TablesLinked ==
  /\ g_entries = [v \in Vector |-> g_entries[v]]
  /\ IsFiniteSet(DOMAIN handlers)

(* Lines that were ever routed, the stale ones too, lead to vectors of the *)
(* normal priority, which are free or uACPI's.                             *)
NormalVectors ==
  /\ \A line \in DOMAIN ioredtbl : ioredtbl[line].vector \in Vectors(PRIORITY_NORMAL)
  /\ \A v \in Vectors(PRIORITY_NORMAL) : g_entries[v] \in {NONE, KERNELAPI}

VectorsInv == TablesLinked /\ VectorsOwned /\ NormalVectors
---------------------------------------------------------------------------
LEMMA LeastExists ==
  ASSUME NEW S, S \subseteq Nat, S # {}
  PROVE  \E v \in S : \A u \in S : v <= u
<1> DEFINE R == OpToRel(<, Nat)
<1>1. IsWellFoundedOn(R, Nat)
  BY NatLessThanWellFounded
<1>2. \A x, y \in Nat : x < y => <<x, y>> \in R
  BY DEF OpToRel
<1> HIDE DEF R
<1>3. PICK x \in S : \A y \in S : ~ (<<y, x>> \in R)
  BY <1>1, WFMin
<1>4. \A u \in S : x <= u
  <2> TAKE u \in S
  <2>1. x \in Nat /\ u \in Nat /\ ~(u < x)
    BY <1>2, <1>3
  <2> QED
    BY <2>1
<1> QED
  BY <1>4

LEMMA VectorFacts ==
  /\ Vectors(PRIORITY_NORMAL) \subseteq Vector /\ Vectors(PRIORITY_NORMAL) \subseteq Nat
  /\ PRIORITY_EVENT * VECTORS \in Vector /\ PRIORITY_CRITICAL * VECTORS \in Vector
  /\ PRIORITY_EVENT * VECTORS \notin Vectors(PRIORITY_NORMAL)
  /\ PRIORITY_CRITICAL * VECTORS \notin Vectors(PRIORITY_NORMAL)
  /\ PRIORITY_EVENT * VECTORS # PRIORITY_CRITICAL * VECTORS
<1> USE UacpiAssumption DEF PRIORITY_NORMAL, PRIORITY_EVENT, PRIORITY_CRITICAL
<1>1. \A p \in 1 .. 3 : Vectors(p) \subseteq Vector
  BY DEF Vector
<1>2. 2 * VECTORS \in Vectors(2) /\ 3 * VECTORS \in Vectors(3)
  BY DEF Vectors
<1>3. \A v \in Vectors(1) : v \in Nat /\ v >= VECTORS /\ v < 2 * VECTORS
  BY DEF Vectors
<1> QED
  BY <1>1, <1>2, <1>3

(* find_vector gives a free vector of the priority, or none is free.       *)
LEMMA VectorFound ==
  ASSUME find_vector(PRIORITY_NORMAL) # NONE
  PROVE  /\ find_vector(PRIORITY_NORMAL) \in Vectors(PRIORITY_NORMAL)
         /\ g_entries[find_vector(PRIORITY_NORMAL)] = NONE
<1> DEFINE free == {v \in Vectors(PRIORITY_NORMAL) : g_entries[v] = NONE}
<1>1. free # {} /\ find_vector(PRIORITY_NORMAL) = CHOOSE v \in free : \A u \in free : v <= u
  BY DEF find_vector
<1>2. free \subseteq Nat
  BY VectorFacts
<1>3. find_vector(PRIORITY_NORMAL) \in free
  <2> HIDE DEF free
  <2>1. \E v \in free : \A u \in free : v <= u
    BY <1>1, <1>2, LeastExists
  <2> QED
    BY <1>1, <2>1
<1> QED
  BY <1>3

(* While a handle is left, the next one is not in use.                     *)
LEMMA HandleIsNew ==
  ASSUME IsFiniteSet(DOMAIN handlers), Cardinality(DOMAIN handlers) < HANDLES
  PROVE  NewHandle \notin DOMAIN handlers
<1> DEFINE D == DOMAIN handlers
           S == {h \in 1 .. HANDLES + 1 : h \notin D}
<1>1. HANDLES \in Nat
  BY UacpiAssumption
<1>2. S # {}
  <2> SUFFICES ASSUME S = {} PROVE FALSE
    OBVIOUS
  <2>1. 1 .. HANDLES + 1 \in SUBSET D
    OBVIOUS
  <2>2. Cardinality(1 .. HANDLES + 1) = HANDLES + 1
    BY <1>1, FS_Interval
  <2>3. Cardinality(D) \in Nat
    BY FS_CardinalityType
  <2> HIDE DEF D
  <2>4. IsFiniteSet(D) /\ Cardinality(D) < HANDLES
    BY DEF D
  <2>5. Cardinality(1 .. HANDLES + 1) <= Cardinality(D)
    BY <2>1, <2>4, FS_Subset
  <2> QED
    BY <1>1, <2>2, <2>3, <2>4, <2>5
<1>3. PICK h \in S : \A g \in S : h <= g
  <2>1. S \subseteq Nat
    BY <1>1
  <2> HIDE DEF S
  <2> QED
    BY <1>2, <2>1, LeastExists
<1>4. h \in 1 .. HANDLES + 1 /\ h \notin D /\ \A g \in 1 .. (h - 1) : g \in D
  BY <1>1, <1>3
<1> QED
  BY <1>4 DEF NewHandle
---------------------------------------------------------------------------
LEMMA InitVectors == IrqInit => VectorsInv
<1> SUFFICES ASSUME IrqInit PROVE VectorsInv
  OBVIOUS
<1>1. /\ DOMAIN handlers = {} /\ DOMAIN ioredtbl = {}
      /\ g_entries = [v \in Vector |-> IF v = PRIORITY_EVENT * VECTORS THEN "events_process"
                                       ELSE IF v = PRIORITY_CRITICAL * VECTORS THEN "tlb_shootdown_handler"
                                       ELSE NONE]
  BY DEF IrqInit
<1>2. TablesLinked
  BY <1>1, FS_EmptySet DEF TablesLinked
<1>3. VectorsOwned
  BY <1>1, VectorFacts, UacpiAssumption DEF VectorsOwned
<1>4. NormalVectors
  BY <1>1, VectorFacts DEF NormalVectors
<1> QED
  BY <1>2, <1>3, <1>4 DEF VectorsInv

LEMMA InstallStep ==
  ASSUME VectorsInv, NEW irq \in Irq, uacpi_kernel_install_interrupt_handler(irq)
  PROVE  VectorsInv'
<1> DEFINE vector == find_vector(PRIORITY_NORMAL)
           entry == Redirection(irq, FALSE, TRUE, vector)
           new == [vector |-> vector, irq |-> irq]
<1>1. CASE vector = NONE
  <2>1. UNCHANGED <<g_entries, ioredtbl, handlers>>
    BY <1>1 DEF uacpi_kernel_install_interrupt_handler
  <2> QED
    BY <2>1 DEF VectorsInv, TablesLinked, VectorsOwned, NormalVectors
<1>2. CASE vector # NONE
  <2>1. /\ g_entries' = [g_entries EXCEPT ![vector] = KERNELAPI]
        /\ ioredtbl' = Write(ioredtbl, entry.gsi, entry)
        /\ handlers' = Write(handlers, NewHandle, new)
        /\ Cardinality(DOMAIN handlers) < HANDLES
    BY <1>2 DEF uacpi_kernel_install_interrupt_handler, KERNELAPI
  <2>2. vector \in Vectors(PRIORITY_NORMAL) /\ vector \in Vector /\ g_entries[vector] = NONE /\ NONE # KERNELAPI
    BY <1>2, VectorFound, VectorFacts, UacpiAssumption DEF KERNELAPI
  <2>3. NewHandle \notin DOMAIN handlers
    BY <2>1, HandleIsNew DEF VectorsInv, TablesLinked
  <2>4. /\ DOMAIN handlers' = {NewHandle} \cup DOMAIN handlers /\ handlers'[NewHandle].vector = vector
        /\ \A h \in DOMAIN handlers : handlers'[h] = handlers[h]
    BY <2>1, <2>3 DEF Write
  <2>5. entry.vector = vector
    BY DEF Redirection
  <2> HIDE DEF vector, entry
  <2>7. /\ DOMAIN ioredtbl' = {entry.gsi} \cup DOMAIN ioredtbl /\ ioredtbl'[entry.gsi] = entry
        /\ \A l \in DOMAIN ioredtbl : l # entry.gsi => ioredtbl'[l] = ioredtbl[l]
    BY <2>1 DEF Write
  <2>9. /\ g_entries' = [v \in Vector |-> g_entries'[v]]
        /\ \A v \in Vector : g_entries'[v] = IF v = vector THEN KERNELAPI ELSE g_entries[v]
    BY <2>1, <2>2 DEF VectorsInv, TablesLinked
  <2>10. TablesLinked'
    <3>1. IsFiniteSet(DOMAIN handlers')
      BY <2>4, FS_AddElement DEF VectorsInv, TablesLinked
    <3> QED
      BY <2>9, <3>1 DEF TablesLinked
  <2>11. \A h \in DOMAIN handlers : handlers[h].vector # vector
    BY <2>2 DEF VectorsInv, VectorsOwned, KERNELAPI
  <2>12. VectorsOwned'
    <3>1. /\ g_entries'[PRIORITY_EVENT * VECTORS] = "events_process"
          /\ g_entries'[PRIORITY_CRITICAL * VECTORS] = "tlb_shootdown_handler"
      BY <2>2, <2>9, VectorFacts DEF VectorsInv, VectorsOwned
    <3>2. \A g, h \in DOMAIN handlers' : handlers'[g].vector = handlers'[h].vector => g = h
      BY <2>4, <2>11 DEF VectorsInv, VectorsOwned
    <3>3. \A v : v \in {u \in Vector : g_entries'[u] = KERNELAPI}
                 <=> v \in {handlers'[h].vector : h \in DOMAIN handlers'}
      <4>1. \A v : v \in {u \in Vector : g_entries[u] = KERNELAPI}
                   <=> v \in {handlers[h].vector : h \in DOMAIN handlers}
        BY DEF VectorsInv, VectorsOwned, KERNELAPI
      <4> QED
        BY <2>2, <2>4, <2>9, <2>11, <4>1
    <3>4. \A h \in DOMAIN handlers' : handlers'[h].vector \in Vectors(PRIORITY_NORMAL)
      BY <2>2, <2>4 DEF VectorsInv, VectorsOwned
    <3>5. {v \in Vector : g_entries'[v] = KERNELAPI} = {handlers'[h].vector : h \in DOMAIN handlers'}
      BY <3>3
    <3> QED
      BY <3>1, <3>2, <3>4, <3>5 DEF VectorsOwned, KERNELAPI
  <2>13. NormalVectors'
    <3>1. \A line \in DOMAIN ioredtbl' : ioredtbl'[line].vector \in Vectors(PRIORITY_NORMAL)
      BY <2>2, <2>5, <2>7 DEF VectorsInv, NormalVectors
    <3>2. \A v \in Vectors(PRIORITY_NORMAL) : g_entries'[v] \in {NONE, KERNELAPI}
      BY <2>9, VectorFacts DEF VectorsInv, NormalVectors
    <3> QED
      BY <3>1, <3>2 DEF NormalVectors
  <2> QED
    BY <2>10, <2>12, <2>13 DEF VectorsInv
<1> QED
  BY <1>1, <1>2

LEMMA UninstallStep ==
  ASSUME VectorsInv, NEW h \in DOMAIN handlers, uacpi_kernel_uninstall_interrupt_handler(h)
  PROVE  VectorsInv'
<1> DEFINE vector == handlers[h].vector
<1>1. /\ g_entries' = [g_entries EXCEPT ![vector] = NONE]
      /\ handlers' = [g \in (DOMAIN handlers) \ {h} |-> handlers[g]]
      /\ ioredtbl' = ioredtbl
  BY DEF uacpi_kernel_uninstall_interrupt_handler, EntriesWithout
<1>2. vector \in Vectors(PRIORITY_NORMAL) /\ vector \in Vector /\ NONE # KERNELAPI
  BY VectorFacts, UacpiAssumption DEF VectorsInv, VectorsOwned, KERNELAPI
<1>3. DOMAIN handlers' = (DOMAIN handlers) \ {h} /\ \A g \in DOMAIN handlers' : handlers'[g] = handlers[g]
  BY <1>1
<1>5. /\ g_entries' = [v \in Vector |-> g_entries'[v]]
      /\ \A v \in Vector : g_entries'[v] = IF v = vector THEN NONE ELSE g_entries[v]
  BY <1>1, <1>2 DEF VectorsInv, TablesLinked
<1>6. TablesLinked'
  <2>1. IsFiniteSet(DOMAIN handlers')
    BY <1>3, FS_RemoveElement DEF VectorsInv, TablesLinked
  <2> QED
    BY <1>5, <2>1 DEF TablesLinked
<1>7. \A g \in DOMAIN handlers' : handlers[g].vector # vector
  BY <1>3 DEF VectorsInv, VectorsOwned
<1>8. VectorsOwned'
  <2>1. /\ g_entries'[PRIORITY_EVENT * VECTORS] = "events_process"
        /\ g_entries'[PRIORITY_CRITICAL * VECTORS] = "tlb_shootdown_handler"
    BY <1>2, <1>5, VectorFacts DEF VectorsInv, VectorsOwned
  <2>2. /\ \A g, k \in DOMAIN handlers' : handlers'[g].vector = handlers'[k].vector => g = k
        /\ \A g \in DOMAIN handlers' : handlers'[g].vector \in Vectors(PRIORITY_NORMAL)
    BY <1>3 DEF VectorsInv, VectorsOwned
  <2>3. \A v : v \in {u \in Vector : g_entries'[u] = KERNELAPI}
               <=> v \in {handlers'[g].vector : g \in DOMAIN handlers'}
    <3>1. \A v : v \in {u \in Vector : g_entries[u] = KERNELAPI}
                 <=> v \in {handlers[g].vector : g \in DOMAIN handlers}
      BY DEF VectorsInv, VectorsOwned, KERNELAPI
    <3> QED
      BY <1>2, <1>3, <1>5, <1>7, <3>1
  <2>4. {v \in Vector : g_entries'[v] = KERNELAPI} = {handlers'[g].vector : g \in DOMAIN handlers'}
    BY <2>3
  <2> QED
    BY <2>1, <2>2, <2>4 DEF VectorsOwned, KERNELAPI
<1>9. NormalVectors'
  BY <1>1, <1>5, VectorFacts DEF VectorsInv, NormalVectors
<1> QED
  BY <1>6, <1>8, <1>9 DEF VectorsInv

LEMMA StepVectors == VectorsInv /\ [Next]_vars => VectorsInv'
<1> SUFFICES ASSUME VectorsInv, [Next]_vars PROVE VectorsInv'
  OBVIOUS
<1>1. ASSUME UNCHANGED <<g_entries, ioredtbl, handlers>> PROVE VectorsInv'
  BY <1>1 DEF VectorsInv, TablesLinked, VectorsOwned, NormalVectors
<1>2. CASE UNCHANGED irqVars
  BY <1>1, <1>2 DEF irqVars
<1>3. CASE IrqNext
  <2>1. ASSUME NEW irq \in Irq, uacpi_kernel_install_interrupt_handler(irq) PROVE VectorsInv'
    BY <2>1, InstallStep
  <2>2. ASSUME NEW h \in DOMAIN handlers, uacpi_kernel_uninstall_interrupt_handler(h) PROVE VectorsInv'
    BY <2>2, UninstallStep
  <2>3. ASSUME NEW line \in DOMAIN ioredtbl, kernelapi_interrupt_handler(line) PROVE VectorsInv'
    BY <1>1, <2>3 DEF kernelapi_interrupt_handler
  <2>4. ASSUME NEW a \in DOMAIN machine.functions, uacpi_kernel_pci_device_open(a) PROVE VectorsInv'
    BY <1>1, <2>4 DEF uacpi_kernel_pci_device_open
  <2> QED
    BY <1>3, <2>1, <2>2, <2>3, <2>4 DEF IrqNext
<1> QED
  BY <1>2, <1>3 DEF Next, vars

(* Through any sequence of installing and uninstalling handlers every      *)
(* vector keeps its one owner, and no line, the ones left routed by        *)
(* uninstall included, leads to the handler of the event timer or of the   *)
(* TLB shootdown (uacpi.c, interrupt.c, ioapic.c).                         *)
THEOREM VectorsStayKept == Spec => []VectorsKept
<1>1. Init => VectorsInv
  BY InitVectors DEF Init
<1>2. VectorsInv /\ [Next]_vars => VectorsInv'
  BY StepVectors
<1>3. VectorsInv => VectorsKept
  <2> SUFFICES ASSUME VectorsInv, NEW line \in DOMAIN ioredtbl
               PROVE  LET vector == ioredtbl[line].vector
                      IN IF \E h \in DOMAIN handlers : handlers[h].vector = vector
                         THEN g_entries[vector] = KERNELAPI ELSE g_entries[vector] = NONE
    BY DEF VectorsKept, StaleLinesHarmless, VectorsInv, KERNELAPI
  <2> DEFINE vector == ioredtbl[line].vector
  <2>1. vector \in Vector /\ g_entries[vector] \in {NONE, KERNELAPI} /\ NONE # KERNELAPI
    BY VectorFacts, UacpiAssumption DEF VectorsInv, NormalVectors, KERNELAPI
  <2>2. g_entries[vector] = KERNELAPI <=> \E h \in DOMAIN handlers : handlers[h].vector = vector
    <3>1. vector \in {v \in Vector : g_entries[v] = KERNELAPI} <=> vector \in {handlers[h].vector : h \in DOMAIN handlers}
      BY DEF VectorsInv, VectorsOwned, KERNELAPI
    <3> QED
      BY <2>1, <3>1
  <2> QED
    BY <2>1, <2>2
<1> QED
  BY <1>1, <1>2, <1>3, PTL DEF Spec
---------------------------------------------------------------------------
(***************************************************************************)
(* module_load.  Between its steps the call holds a list of regions with   *)
(* different bases; with the regions of the loaded modules they are all    *)
(* that is mapped.                                                         *)
(***************************************************************************)
Placement == [base : BASE, section : Nat]
Held == ToSet(load.regions)
Mine == IF load = IDLE THEN {} ELSE {r.base : r \in Held}
Theirs == UNION {{r.base : r \in m.regions} : m \in modules}

LoadShape ==
  load = [pc |-> load.pc, file |-> load.file, i |-> load.i, regions |-> load.regions,
          address |-> load.address, symtab |-> load.symtab, values |-> load.values]

LoadOK ==
  load # IDLE =>
    /\ LoadShape /\ load.pc \in {"sections", "contents", "symbols", "relocations"} /\ load.i \in Nat
    /\ load.regions \in Seq(Placement)
    /\ \A q, r \in Held : q.base = r.base => q = r

RegionsInv ==
  /\ LoadOK
  /\ DOMAIN regions = Mine \cup Theirs
  /\ Mine \cap Theirs = {}
  /\ RightsAsLinked

LEMMA ToSetOfPushed ==
  ASSUME NEW S, NEW s \in Seq(S), NEW x \in S
  PROVE  /\ <<x>> \o s \in Seq(S)
         /\ \A y : y \in ToSet(<<x>> \o s) <=> y = x \/ y \in ToSet(s)
<1> DEFINE t == <<x>> \o s
<1>1. /\ t \in Seq(S) /\ Len(t) = Len(s) + 1 /\ Len(s) \in Nat
      /\ t[1] = x /\ \A i \in 1 .. Len(s) : t[i + 1] = s[i]
  OBVIOUS
<1>2. DOMAIN t = 1 .. Len(s) + 1 /\ DOMAIN s = 1 .. Len(s)
  BY <1>1
<1> HIDE DEF t
<1>3. \A y : y \in ToSet(t) <=> \E i \in 1 .. Len(s) + 1 : t[i] = y
  BY <1>2 DEF ToSet
<1>4. \A y : y \in ToSet(s) <=> \E i \in 1 .. Len(s) : s[i] = y
  BY <1>2 DEF ToSet
<1>5. ASSUME NEW y, y \in ToSet(t) PROVE y = x \/ y \in ToSet(s)
  <2>1. PICK i \in 1 .. Len(s) + 1 : t[i] = y
    BY <1>3, <1>5
  <2>2. CASE i = 1
    BY <1>1, <2>1, <2>2
  <2>3. CASE i # 1
    <3>1. i - 1 \in 1 .. Len(s) /\ (i - 1) + 1 = i
      BY <1>1, <2>3
    <3> QED
      BY <1>1, <1>4, <2>1, <3>1
  <2> QED
    BY <2>2, <2>3
<1>6. ASSUME NEW y, y = x \/ y \in ToSet(s) PROVE y \in ToSet(t)
  <2>1. CASE y = x
    BY <1>1, <1>3, <2>1
  <2>2. CASE y \in ToSet(s)
    <3>1. PICK i \in 1 .. Len(s) : s[i] = y
      BY <1>4, <2>2
    <3>2. i + 1 \in 1 .. Len(s) + 1 /\ t[i + 1] = y
      BY <1>1, <3>1
    <3> QED
      BY <1>3, <3>2
  <2> QED
    BY <1>6, <2>1, <2>2
<1> QED
  BY <1>1, <1>5, <1>6 DEF t

LEMMA InitRegions == LoaderInit => RegionsInv
<1> SUFFICES ASSUME LoaderInit PROVE RegionsInv
  OBVIOUS
<1>1. load = IDLE /\ DOMAIN regions = {} /\ modules = {}
  BY DEF LoaderInit
<1> QED
  BY <1>1 DEF RegionsInv, LoadOK, Mine, Theirs, RightsAsLinked

(* A step that goes on with the same regions.                              *)
LEMMA ContinueKeeps ==
  ASSUME RegionsInv, load # IDLE, UNCHANGED <<regions, modules>>,
         LoadShape', load'.pc \in {"sections", "contents", "symbols", "relocations"},
         load'.i \in Nat, load'.regions = load.regions
  PROVE  RegionsInv'
<1>1. load' # IDLE
  <2>1. IDLE.pc = "idle"
    BY DEF IDLE
  <2> QED
    BY <2>1
<1>2. Held' = Held /\ Mine' = Mine /\ Theirs' = Theirs
  BY <1>1 DEF Held, Mine, Theirs
<1>3. LoadOK'
  BY <1>2 DEF RegionsInv, LoadOK
<1>4. RightsAsLinked'
  <2>1. /\ \A m \in modules : \A r \in m.regions :
             regions[r.base] = [write |-> m.file.sections[r.section].write, exec |-> m.file.sections[r.section].exec]
        /\ \A r \in ToSet(load.regions) : regions[r.base] = RW
    BY DEF RegionsInv, RightsAsLinked
  <2> QED
    BY <2>1 DEF RightsAsLinked
<1> QED
  BY <1>2, <1>3, <1>4 DEF RegionsInv

(* auto_free_module unmaps what the call has mapped and nothing else.      *)
LEMMA FailGivesBack ==
  ASSUME RegionsInv, load # IDLE, NEW r, Fail(r)
  PROVE  RegionsInv'
<1>1. /\ load' = IDLE /\ modules' = modules
      /\ regions' = [b \in (DOMAIN regions) \ auto_free_module(load.regions) |-> regions[b]]
  BY DEF Fail
<1>2. \A b : b \in auto_free_module(load.regions) <=> b \in Mine
  BY DEF auto_free_module, Mine, Held, ToSet
<1>3. /\ \A b : b \in DOMAIN regions' <=> b \in Theirs
      /\ \A b \in Theirs : regions'[b] = regions[b]
  BY <1>1, <1>2 DEF RegionsInv
<1>4. Mine' = {} /\ Theirs' = Theirs
  BY <1>1 DEF Mine, Theirs
<1>5. DOMAIN regions' = Theirs
  BY <1>3
<1>6. RightsAsLinked'
  <2> SUFFICES ASSUME NEW m \in modules, NEW q \in m.regions
               PROVE  regions'[q.base] = [write |-> m.file.sections[q.section].write, exec |-> m.file.sections[q.section].exec]
    BY <1>1 DEF RightsAsLinked
  <2>1. q.base \in Theirs
    BY DEF Theirs
  <2>2. regions[q.base] = [write |-> m.file.sections[q.section].write, exec |-> m.file.sections[q.section].exec]
    BY DEF RegionsInv, RightsAsLinked
  <2> QED
    BY <1>3, <2>1, <2>2
<1> QED
  BY <1>1, <1>4, <1>5, <1>6 DEF RegionsInv, LoadOK

LEMMA AssertKeeps ==
  ASSUME RegionsInv, UNCHANGED <<load, regions, modules>>
  PROVE  RegionsInv'
BY DEF RegionsInv, LoadOK, LoadShape, Held, Mine, Theirs, RightsAsLinked

LEMMA MapStep ==
  ASSUME RegionsInv, map_section
  PROVE  RegionsInv'
<1>1. load # IDLE /\ load.pc = "sections"
  <2>1. load.pc = "sections"
    BY DEF map_section
  <2> QED
    BY <2>1 DEF IDLE
<1>2. CASE Fail("VM")
  BY <1>1, <1>2, FailGivesBack
<1>3. ASSUME NEW base \in BASE, base \notin DOMAIN regions,
             regions' = [b \in {base} \cup DOMAIN regions |-> IF b = base THEN RW ELSE regions[b]],
             load' = [load EXCEPT !.pc = "contents", !.regions = <<[base |-> base, section |-> load.i]>> \o @],
             modules' = modules
      PROVE  RegionsInv'
  <2> DEFINE new == [base |-> base, section |-> load.i]
  <2>1. LoadShape /\ load.i \in Nat /\ load.regions \in Seq(Placement) /\ \A q, r \in Held : q.base = r.base => q = r
    BY <1>1 DEF RegionsInv, LoadOK
  <2>2. new \in Placement /\ new.base = base
    BY <2>1 DEF Placement
  <2>3. /\ LoadShape' /\ load'.pc = "contents" /\ load'.i = load.i /\ load'.regions = <<new>> \o load.regions
        /\ load' # IDLE
    BY <1>3, <2>1 DEF LoadShape, IDLE
  <2> HIDE DEF new
  <2>4. load'.regions \in Seq(Placement) /\ \A y : y \in Held' <=> y = new \/ y \in Held
    BY <2>1, <2>2, <2>3, ToSetOfPushed DEF Held
  <2>5. base \notin Mine /\ base \notin Theirs
    BY <1>3 DEF RegionsInv
  <2>6. \A r \in Held : r.base # base
    BY <1>1, <2>5 DEF Mine
  <2>7. LoadOK'
    BY <2>1, <2>2, <2>3, <2>4, <2>6 DEF LoadOK
  <2>8. \A b : b \in Mine' <=> b = base \/ b \in Mine
    BY <1>1, <2>2, <2>3, <2>4 DEF Mine
  <2>9. Theirs' = Theirs
    BY <1>3 DEF Theirs
  <2>10. DOMAIN regions' = Mine' \cup Theirs'
    BY <1>3, <2>8, <2>9 DEF RegionsInv
  <2>11. Mine' \cap Theirs' = {}
    BY <2>5, <2>8, <2>9 DEF RegionsInv
  <2>12. RightsAsLinked'
    <3>1. ASSUME NEW m \in modules, NEW r \in m.regions
          PROVE  regions'[r.base] = [write |-> m.file.sections[r.section].write, exec |-> m.file.sections[r.section].exec]
      <4>1. r.base \in Theirs /\ r.base \in DOMAIN regions
        BY DEF Theirs, RegionsInv
      <4>2. regions[r.base] = [write |-> m.file.sections[r.section].write, exec |-> m.file.sections[r.section].exec]
        BY DEF RegionsInv, RightsAsLinked
      <4> QED
        BY <1>3, <2>5, <4>1, <4>2
    <3>2. ASSUME NEW r \in Held' PROVE regions'[r.base] = RW
      <4>1. CASE r = new
        BY <1>3, <2>2, <4>1
      <4>2. CASE r \in Held
        <5>1. r.base # base /\ r.base \in DOMAIN regions
          BY <1>1, <2>6, <4>2 DEF RegionsInv, Mine
        <5>2. regions[r.base] = RW
          BY <1>1, <4>2 DEF RegionsInv, RightsAsLinked, Held
        <5> QED
          BY <1>3, <5>1, <5>2
      <4> QED
        BY <2>4, <4>1, <4>2
    <3> QED
      BY <1>3, <3>1, <3>2 DEF RightsAsLinked, Held
  <2> QED
    BY <2>7, <2>10, <2>11, <2>12 DEF RegionsInv
<1>4. \/ Fail("VM")
      \/ \E base \in BASE \ DOMAIN regions :
           /\ regions' = [b \in {base} \cup DOMAIN regions |-> IF b = base THEN RW ELSE regions[b]]
           /\ load' = [load EXCEPT !.pc = "contents", !.regions = <<[base |-> base, section |-> load.i]>> \o @]
           /\ modules' = modules
  BY DEF map_section
<1> QED
  BY <1>2, <1>3, <1>4

LEMMA FinishStep ==
  ASSUME RegionsInv, finish_module
  PROVE  RegionsInv'
<1>1. load # IDLE
  BY DEF finish_module, IDLE
<1> DEFINE R(r) == [write |-> load.file.sections[r.section].write, exec |-> load.file.sections[r.section].exec]
<1>2. PICK m : m.file = load.file /\ m.regions = Held /\ modules' = modules \cup {m}
  BY DEF finish_module, Held
<1>3. /\ load' = IDLE /\ DOMAIN regions' = DOMAIN regions
      /\ \A b \in DOMAIN regions : ~(\E r \in Held : r.base = b) => regions'[b] = regions[b]
      /\ \A b \in DOMAIN regions : (\E r \in Held : r.base = b) => regions'[b] = R(CHOOSE r \in Held : r.base = b)
  BY DEF finish_module, Held, ProtectionOf
<1>4. \A b : b \in Mine <=> \E r \in Held : r.base = b
  BY <1>1 DEF Mine
<1>5. ASSUME NEW r \in Held PROVE regions'[r.base] = R(r)
  <2>1. r.base \in DOMAIN regions
    BY <1>4 DEF RegionsInv
  <2>2. (CHOOSE q \in Held : q.base = r.base) = r
    BY <1>1 DEF RegionsInv, LoadOK
  <2> QED
    BY <1>3, <2>1, <2>2
<1>6. \A b : b \in Theirs' <=> b \in Theirs \/ b \in Mine
  BY <1>2, <1>4 DEF Theirs
<1>7. Mine' = {} /\ LoadOK'
  BY <1>3 DEF Mine, LoadOK
<1>8. DOMAIN regions' = Mine' \cup Theirs'
  BY <1>3, <1>6, <1>7 DEF RegionsInv
<1>9. RightsAsLinked'
  <2>1. ASSUME NEW k \in modules, NEW r \in k.regions
        PROVE  regions'[r.base] = [write |-> k.file.sections[r.section].write, exec |-> k.file.sections[r.section].exec]
    <3>1. r.base \in Theirs /\ r.base \in DOMAIN regions /\ r.base \notin Mine
      BY DEF Theirs, RegionsInv
    <3>2. regions[r.base] = [write |-> k.file.sections[r.section].write, exec |-> k.file.sections[r.section].exec]
      BY DEF RegionsInv, RightsAsLinked
    <3> QED
      BY <1>3, <1>4, <3>1, <3>2
  <2>2. ASSUME NEW r \in m.regions
        PROVE  regions'[r.base] = [write |-> m.file.sections[r.section].write, exec |-> m.file.sections[r.section].exec]
    BY <1>2, <1>5
  <2> QED
    BY <1>2, <1>3, <2>1, <2>2 DEF RightsAsLinked
<1> QED
  BY <1>7, <1>8, <1>9 DEF RegionsInv

LEMMA StepRegions == RegionsInv /\ [Next]_vars => RegionsInv'
<1> SUFFICES ASSUME RegionsInv, [Next]_vars PROVE RegionsInv'
  OBVIOUS
<1>1. CASE UNCHANGED <<load, regions, modules>>
  BY <1>1, AssertKeeps
<1>2. CASE UNCHANGED loaderVars
  BY <1>1, <1>2 DEF loaderVars
<1>3. ASSUME NEW file \in ModuleFile, module_load(file) PROVE RegionsInv'
  <2>1. load = IDLE /\ UNCHANGED <<regions, modules>>
    BY <1>3 DEF module_load
  <2>2. CASE load' = load
    BY <1>1, <2>1, <2>2
  <2>3. CASE load' = [pc |-> "sections", file |-> file, i |-> 1, regions |-> <<>>,
                      address |-> [s \in DOMAIN file.sections |-> 0], symtab |-> UNDEF, values |-> <<>>]
    <3>1. /\ LoadShape' /\ load'.pc = "sections" /\ load'.i = 1 /\ load'.regions = <<>> /\ load' # IDLE
      BY <2>3 DEF LoadShape, IDLE
    <3>2. Held' = {} /\ load'.regions \in Seq(Placement)
      BY <3>1 DEF Held, ToSet
    <3>3. LoadOK'
      BY <3>1, <3>2 DEF LoadOK
    <3>4. Mine' = {} /\ Mine = {} /\ Theirs' = Theirs
      BY <2>1, <3>2 DEF Mine, Theirs
    <3>5. RightsAsLinked'
      BY <2>1, <3>2 DEF RegionsInv, RightsAsLinked, Held
    <3> QED
      BY <2>1, <3>3, <3>4, <3>5 DEF RegionsInv
  <2> QED
    BY <1>3, <2>2, <2>3 DEF module_load
<1>4. CASE map_section
  BY <1>4, MapStep
<1>5. CASE finish_module
  BY <1>5, FinishStep
<1>6. ASSUME NEW r, load # IDLE, Fail(r) PROVE RegionsInv'
  BY <1>6, FailGivesBack
<1>7. ASSUME AssertFails PROVE RegionsInv'
  BY <1>1, <1>7 DEF AssertFails, linkVars
<1>8. load # IDLE => LoadShape /\ load.pc \in {"sections", "contents", "symbols", "relocations"} /\ load.i \in Nat
  BY DEF RegionsInv, LoadOK
<1>9. /\ \A l : Continue(l) => load' = l /\ UNCHANGED <<regions, modules>>
      /\ IDLE.pc = "idle"
  BY DEF Continue, IDLE
<1>10. CASE read_contents
  <2>1. load # IDLE
    BY <1>9, <1>10 DEF read_contents
  <2>2. CASE load' = [NextSection EXCEPT !.pc = "sections", !.address[load.i] = load.regions[1].base]
    <3>1. LoadShape' /\ load'.pc = "sections" /\ load'.i = load.i + 1 /\ load'.regions = load.regions
      BY <1>8, <2>1, <2>2 DEF NextSection, LoadShape
    <3>2. CASE UNCHANGED <<regions, modules>>
      BY <1>8, <2>1, <3>1, <3>2, ContinueKeeps
    <3> QED
      BY <1>6, <1>9, <1>10, <2>1, <3>2 DEF read_contents
  <2> QED
    BY <1>6, <1>9, <1>10, <2>1, <2>2 DEF read_contents
<1>11. CASE load # IDLE /\ Continue(NextSection)
  <2>1. LoadShape' /\ load'.pc = load.pc /\ load'.i = load.i + 1 /\ load'.regions = load.regions
    BY <1>8, <1>9, <1>11 DEF NextSection, LoadShape
  <2> QED
    BY <1>8, <1>9, <1>11, <2>1, ContinueKeeps
<1>12. CASE note_section
  <2>1. load # IDLE
    BY <1>9, <1>12 DEF note_section
  <2>2. CASE Continue([NextSection EXCEPT !.symtab = load.i])
    <3>1. LoadShape' /\ load'.pc = load.pc /\ load'.i = load.i + 1 /\ load'.regions = load.regions
      <4>1. load' = [NextSection EXCEPT !.symtab = load.i]
        BY <2>2 DEF Continue
      <4> QED
        BY <1>8, <2>1, <4>1 DEF NextSection, LoadShape
    <3> QED
      BY <1>8, <1>9, <2>1, <2>2, <3>1, ContinueKeeps
  <2> QED
    BY <1>6, <1>11, <1>12, <2>1, <2>2 DEF note_section
<1>13. CASE read_symtab
  <2>1. load # IDLE
    BY <1>9, <1>13 DEF read_symtab
  <2>2. CASE Continue([load EXCEPT !.pc = "symbols", !.i = 1,
                                   !.values = [k \in DOMAIN load.file.symbols |-> load.file.symbols[k].value]])
    <3>1. LoadShape' /\ load'.pc = "symbols" /\ load'.i = 1 /\ load'.regions = load.regions
      <4>1. load' = [load EXCEPT !.pc = "symbols", !.i = 1,
                                 !.values = [k \in DOMAIN load.file.symbols |-> load.file.symbols[k].value]]
        BY <2>2 DEF Continue
      <4> QED
        BY <1>8, <2>1, <4>1 DEF LoadShape
    <3> QED
      BY <1>9, <2>1, <2>2, <3>1, ContinueKeeps
  <2> QED
    BY <1>6, <1>13, <2>1, <2>2 DEF read_symtab
<1>14. CASE resolve_symbol
  <2>1. load # IDLE
    BY <1>9, <1>14 DEF resolve_symbol
  <2>2. ASSUME NEW v, Continue([NextSection EXCEPT !.values[load.i] = v]) PROVE RegionsInv'
    <3>1. LoadShape' /\ load'.pc = load.pc /\ load'.i = load.i + 1 /\ load'.regions = load.regions
      <4>1. load' = [NextSection EXCEPT !.values[load.i] = v]
        BY <2>2 DEF Continue
      <4> QED
        BY <1>8, <2>1, <4>1 DEF NextSection, LoadShape
    <3> QED
      BY <1>8, <1>9, <2>1, <2>2, <3>1, ContinueKeeps
  <2> QED
    BY <1>6, <1>7, <1>14, <2>1, <2>2 DEF resolve_symbol
<1>15. CASE symbols_resolved
  <2>1. load # IDLE /\ Continue([load EXCEPT !.pc = "relocations", !.i = 1])
    BY <1>9, <1>15 DEF symbols_resolved
  <2>2. LoadShape' /\ load'.pc = "relocations" /\ load'.i = 1 /\ load'.regions = load.regions
    <3>1. load' = [load EXCEPT !.pc = "relocations", !.i = 1]
      BY <2>1 DEF Continue
    <3> QED
      BY <1>8, <2>1, <3>1 DEF LoadShape
  <2> QED
    BY <1>9, <2>1, <2>2, ContinueKeeps
<1>16. CASE relocate_section
  <2>1. load # IDLE
    BY <1>9, <1>16 DEF relocate_section
  <2>2. CASE load' = NextSection /\ UNCHANGED <<regions, modules>>
    <3>1. LoadShape' /\ load'.pc = load.pc /\ load'.i = load.i + 1 /\ load'.regions = load.regions
      BY <1>8, <2>1, <2>2 DEF NextSection, LoadShape
    <3> QED
      BY <1>8, <2>1, <2>2, <3>1, ContinueKeeps
  <2> QED
    BY <1>6, <1>7, <1>11, <1>16, <2>1, <2>2 DEF relocate_section
<1>17. CASE kernel_symbols_load \/ ProgramStep
  BY <1>1, <1>17 DEF kernel_symbols_load, ProgramStep, read_init, load_init, elf_lookup_interpreter,
                     read_interpreter, load_interpreter, start_program, linkVars
<1> QED
  BY <1>2, <1>3, <1>4, <1>5, <1>10, <1>12, <1>13, <1>14, <1>15, <1>16, <1>17
  DEF Next, vars, LoaderNext, ModuleStep

(* Whichever read, mapping, symbol or relocation of module_load fails, the *)
(* regions that are mapped are exactly those of the modules that are       *)
(* loaded and of the one being loaded (module.c).                          *)
THEOREM RegionsStayOwned == Spec => []RegionsOwned
<1>1. Init => RegionsInv
  BY InitRegions DEF Init
<1>2. RegionsInv /\ [Next]_vars => RegionsInv'
  BY StepRegions
<1>3. RegionsInv => RegionsOwned
  BY DEF RegionsInv, RegionsOwned, Mine, Theirs, Held
<1> QED
  BY <1>1, <1>2, <1>3, PTL DEF Spec

(* The regions of a loaded module keep the rights of their sections while  *)
(* other modules are loaded and fail, and nothing is executable before     *)
(* module_load has relocated it (module.c).                                *)
THEOREM RightsStayAsLinked == Spec => []RightsAsLinked
<1>1. Init => RegionsInv
  BY InitRegions DEF Init
<1>2. RegionsInv /\ [Next]_vars => RegionsInv'
  BY StepRegions
<1>3. RegionsInv => RightsAsLinked
  BY DEF RegionsInv
<1> QED
  BY <1>1, <1>2, <1>3, PTL DEF Spec
===========================================================================
