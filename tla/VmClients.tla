----------------------------- MODULE VmClients ------------------------------
(* Virtual memory and those who use it: the memory system calls and page    *)
(* faults of one process with one thread, the ELF loader and the System V   *)
(* stack, which fill its address space, and MMIO, uACPI, kernel modules and *)
(* load buffers in the global address space.  Each call is one transition.  *)
EXTENDS Vm

CONSTANTS LENGTHS,      \* lengths asked for
          PHYS          \* physical addresses of devices

VARIABLES vm,           \* the state Vm's operators work on
          asked,        \* ghost: per page, the attributes its owner asked for
          dirty,        \* ghost: pages of the process written since they were mapped
          owned,        \* mappings the kernel's parts hold in the global address space
          fault         \* the page of vm_fault.in_flight, or NONE

vars == <<vm, asked, dirty, owned, fault>>

Attributes(type, prot, cache, dyn, zero, phys) ==
  [base |-> 0, length |-> 0, type |-> type, prot |-> prot, cache |-> cache,
   dyn |-> dyn, zero |-> zero, phys |-> phys]

(* What a region says about one of its pages. *)
About(r, q) == [clone_to(r, q, 1) EXCEPT !.base = 0, !.length = 0]
At(as, q) == LET r == addr_to_region(vm, as, q) IN IF r = NONE THEN NONE ELSE About(r, q)

Init ==
  /\ vm = EmptyVm
  /\ asked = [as \in Space |-> [p \in Pages(as) |-> NONE]]
  /\ dirty = {} /\ owned = {} /\ fault = NONE

----------------------------------------------------------------------------
(* A panic or a failed assertion stops the kernel in the middle of a call. *)
Outcome(s) == IF s.panic THEN [vm EXCEPT !.panic = TRUE] ELSE s

(* A call that maps, and the mapping its caller then believes in. *)
Map(as, p, length, fixed, region) ==
  /\ \E m \in {map_common(vm, as, p, length, fixed, region)} :
       /\ vm' = Outcome(m.vm)
       /\ asked' = IF m.base = NONE \/ m.vm.panic THEN asked
                   ELSE [asked EXCEPT ![as] = [q \in DOMAIN @ |->
                           IF q \in Range2(m.base, length)
                           THEN About([region EXCEPT !.base = m.base, !.length = length], q) ELSE @[q]]]
       /\ owned' = IF m.base = NONE \/ m.vm.panic \/ as = USER THEN owned
                   ELSE owned \union {[base |-> m.base, length |-> length, type |-> region.type]}
  /\ UNCHANGED <<dirty, fault>>

(* A call that unmaps or rewrites, whatever the range, and what its caller  *)
(* then believes.                                                           *)
Rewrite(as, p, length, how) ==
  /\ \E garbage \in IF how.type = "DELETE" THEN Pages(as) ELSE {0} :
       vm' = Outcome(rewrite_common(vm, as, p, length, how, garbage))
  /\ asked' = IF vm'.panic THEN asked
              ELSE [asked EXCEPT ![as] = [q \in DOMAIN @ |->
                      IF q \in Range2(p, length) /\ @[q] # NONE THEN Rewritten(how, @[q]) ELSE @[q]]]
  /\ dirty' = IF as = USER /\ how.type = "DELETE" /\ ~vm'.panic THEN dirty \ Range2(p, length) ELSE dirty
  /\ UNCHANGED fault

DELETE == [type |-> "DELETE"]
PROTECTION(prot) == [type |-> "PROTECTION", prot |-> prot]

----------------------------------------------------------------------------
(* The process, and the loader before it starts; its one thread waits for   *)
(* a fault in flight.                                                       *)
syscall_mem_anon_allocate(size) ==
  fault = NONE /\ Map(USER, 0, size, FALSE, Attributes(ANON, RW, "STANDARD", FALSE, TRUE, 0))

syscall_mem_anon_free(pointer, size) ==
  fault = NONE /\ pointer # 0 /\ Rewrite(USER, pointer, size, DELETE) /\ UNCHANGED owned

elf_load(p, length, prot) ==
  fault = NONE /\ Map(USER, p, length, TRUE, Attributes(ANON, prot, "STANDARD", TRUE, TRUE, 0))

x86_64_sysv_stack_setup(length) ==
  fault = NONE /\ Map(USER, 0, length, FALSE, Attributes(ANON, RW, "STANDARD", TRUE, FALSE, 0))

vm_rewrite_prot(p, length, prot) ==
  fault = NONE /\ Rewrite(USER, p, length, PROTECTION(prot)) /\ UNCHANGED owned

(* syscall_buffer_out, the segments of elf_load, the words of the stack. *)
syscall_buffer_out(p, length) ==
  /\ fault = NONE
  /\ vm' = vm_copy_to(vm, USER, p, length)
  /\ dirty' = dirty \union Range2(p, CopyCount(vm, USER, p, length))
  /\ UNCHANGED <<asked, owned, fault>>

Write(p) ==
  /\ fault = NONE
  /\ arch_ptm_physical(vm.pt[USER], p) /\ "W" \in Granted(vm.pt[USER], p)
  /\ vm' = [vm EXCEPT !.pt[USER].leaf[p].frame = "written"]
  /\ dirty' = dirty \union {p}
  /\ UNCHANGED <<asked, owned, fault>>

(* A page that is not there: the interrupt notes the address, the deferred  *)
(* work backs the page; a page nobody can back stops the kernel.            *)
vm_fault(p) ==
  /\ fault = NONE /\ ~arch_ptm_physical(vm.pt[USER], p)
  /\ fault' = p
  /\ UNCHANGED <<vm, asked, dirty, owned>>

vm_fault_soft ==
  /\ fault # NONE
  /\ vm' = IF Fixable(vm, USER, fault) THEN address_space_fix_page(vm, USER, fault)
           ELSE [vm EXCEPT !.panic = TRUE]
  /\ fault' = NONE
  /\ UNCHANGED <<asked, dirty, owned>>

----------------------------------------------------------------------------
(* The kernel's own mappings. *)
mmio_map(address, length) ==
  Map(GLOBAL, 0, length, FALSE, Attributes(DIRECT, RW, "NONE", FALSE, FALSE, address))

module_load(length) ==
  Map(GLOBAL, 0, length, FALSE, Attributes(ANON, RW, "STANDARD", FALSE, FALSE, 0))

module_protect(m, prot) ==
  m.type = ANON /\ Rewrite(GLOBAL, m.base, m.length, PROTECTION(prot)) /\ UNCHANGED owned

mmio_unmap(m) == Rewrite(GLOBAL, m.base, m.length, DELETE) /\ owned' = owned \ {m}

Next ==
  /\ ~vm.panic
  /\ \/ \E n \in LENGTHS : \/ syscall_mem_anon_allocate(n)
                           \/ x86_64_sysv_stack_setup(n)
                           \/ module_load(n)
                           \/ \E a \in PHYS : mmio_map(a, n)
     \/ \E p \in Pages(USER), n \in LENGTHS :
          \/ syscall_mem_anon_free(p, n)
          \/ elf_load(p, n, RX)
          \/ \E prot \in {RW, RX} : vm_rewrite_prot(p, n, prot)
          \/ syscall_buffer_out(p, n)
     \/ \E p \in Pages(USER) : Write(p) \/ vm_fault(p)
     \/ vm_fault_soft
     \/ \E m \in owned : mmio_unmap(m) \/ module_protect(m, RX)

Spec == Init /\ [][Next]_vars

----------------------------------------------------------------------------
(* The tree is no longer one that vm.c can work with: a range that ended    *)
(* inside a later region or right before one, or a refill that freed the    *)
(* region being split.                                                      *)
TreeBroken == vm.amiss \intersect {"empty", "unset", "freed"} # {}

(* The regions of an address space are never empty, stay in its bounds, do  *)
(* not overlap, and no two neighbours could be one region: splitting and    *)
(* joining in region_insert and rewrite_common leave the shortest           *)
(* description.                                                             *)
RegionsWellFormed ==
  \A as \in Space : \A r \in vm.regions[as] :
    /\ r.length > 0 /\ r.base >= START /\ End(r) <= Top[as]
    /\ \A o \in vm.regions[as] \ {r} :
         (End(r) <= o.base \/ End(o) <= r.base) /\ ~regions_mergeable(r, o)

(* Every page has exactly the attributes its owner last asked for: a call   *)
(* of vm_map, vm_unmap or vm_rewrite changes its own range and nothing      *)
(* beside it.  In the global address space the pages of the region pool     *)
(* come on top.                                                             *)
MapAsAsked ==
  /\ \A p \in Pages(USER) : At(USER, p) = asked[USER][p]
  /\ LET extra == {p \in Pages(GLOBAL) : asked[GLOBAL][p] = NONE /\ At(GLOBAL, p) # NONE}
     IN /\ \A p \in Pages(GLOBAL) : asked[GLOBAL][p] # NONE => At(GLOBAL, p) = asked[GLOBAL][p]
        /\ Cardinality(extra) = vm.grown

(* What the processor sees agrees with the regions: a translation exists    *)
(* only inside a region, always in one that is not backed on demand, to the *)
(* device address or to anonymous memory, with exactly the rights and the   *)
(* cache mode of the region, through every level of the tables.  It ends    *)
(* with a broken tree or a page of the pool that the tree has forgotten.    *)
TranslationsMatch ==
  TreeBroken \/ "forgotten" \in vm.amiss \/ \A as \in Space : \A p \in Pages(as) :
    LET pt == vm.pt[as]
        r == addr_to_region(vm, as, p)
    IN IF arch_ptm_physical(pt, p)
       THEN /\ r # NONE
            /\ Granted(pt, p) = r.prot
            /\ pt.leaf[p].bits = cache_to_x86_flags(r.cache, FALSE)
            /\ IF r.type = DIRECT THEN pt.leaf[p].frame = r.phys + (p - r.base)
               ELSE pt.leaf[p].frame \in {"fresh", "written"}
       ELSE r = NONE \/ r.dyn

(* What a process wrote stays until the page is unmapped, whatever faults,  *)
(* copies and rewrites follow, and a page it maps anew never shows what was *)
(* written there before; an unmap that reached behind its range has taken   *)
(* such pages away.                                                         *)
DataKept ==
  TreeBroken \/ "behind" \in vm.amiss \/ \A p \in Pages(USER) :
    IF p \in dirty THEN vm.pt[USER].leaf[p] # ABSENT /\ vm.pt[USER].leaf[p].frame = "written"
    ELSE vm.pt[USER].leaf[p] # ABSENT => vm.pt[USER].leaf[p].frame = "fresh"

(* Every vm_region_t of every pool page is in the pool or describes exactly *)
(* one region: none is lost by a join, a split or a failed mapping, and     *)
(* none is in two places.                                                   *)
StructsConserved ==
  vm.pool + Cardinality(vm.regions[USER]) + Cardinality(vm.regions[GLOBAL]) = PER_PAGE * vm.grown

(* Every split, join and failure of vm.c leaves the shortest description    *)
(* of the address spaces and loses no vm_region_t, for every range and with *)
(* the pool running empty at any point, short of the three cases of         *)
(* TreeBroken; a range that ends in a hole and a forgotten page of the pool *)
(* are no exception.                                                        *)
RegionsAgree == TreeBroken \/ (RegionsWellFormed /\ StructsConserved)

(* find_hole returns the lowest fit exactly when there is one, and          *)
(* memory_exists, on which the copies of the system calls rely, holds       *)
(* exactly for ranges every page of which can be served.                    *)
LookupsAgree ==
  \A as \in Space :
    LET mapped == {q \in Pages(as) : addr_to_region(vm, as, q) # NONE}
    IN \A n \in LENGTHS :
         LET Fit == {p \in START .. (Top[as] - n) : Range2(p, n) \intersect mapped = {}}
         IN /\ find_hole(vm, as, 0, n) = IF Fit = {} THEN NONE ELSE Min(Fit)
            /\ \A p \in START .. (Top[as] - n) :
                 IF Range2(p, n) \subseteq mapped
                 THEN memory_exists(vm, as, p, n) /\ CopyCount(vm, as, p, n) = n
                 ELSE ~memory_exists(vm, as, p, n)

(* An address space is what its callers asked for, page by page, unless     *)
(* rewrite_common has met one of the five situations it mishandles; and the *)
(* look-ups of vm.c answer from what is there as long as the tree is whole. *)
SpacesAsAsked == /\ vm.amiss = {} => MapAsAsked
                 /\ TreeBroken \/ LookupsAgree
============================================================================
