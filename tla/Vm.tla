--------------------------------- MODULE Vm ---------------------------------
(* The regions of an address space (memory/vm.c) over the page tables.      *)
(* Addresses are page numbers.  A region is a record; the tree of an        *)
(* address space is the set of its regions, and a nearest search takes the  *)
(* extreme of the regions that qualify (RbTree shows that rb_search does).  *)
(* The structs come from a pool that is refilled by mapping a page into the *)
(* global address space, which takes a struct of that page itself.  Every   *)
(* entry point holds the lock of its address space throughout, and is one   *)
(* transition.                                                              *)
EXTENDS Ptm, SequencesExt

CONSTANTS GLOBAL,       \* g_vm_global_address_space, an element of Space
          USER,         \* the address space of the one process
          PER_PAGE,     \* vm_region_t structs a page holds
          NONE          \* nullptr

ASSUME VmAssumption == /\ Space = {GLOBAL, USER} /\ GLOBAL # USER
                       /\ PER_PAGE \in Nat /\ PER_PAGE > 2

RW == {"W"}
RX == {"X"}
RWX == {"W", "X"}
ANON == "ANON"
DIRECT == "DIRECT"
START == 1

End(r) == r.base + r.length
InBounds(as, p) == p >= START /\ p <= Top[as]
SEGMENT_IN_BOUNDS(as, p, length) == InBounds(as, p) /\ Top[as] - p >= length

(* The state the functions pass on: the regions of each address space, its  *)
(* page tables, the structs in the pool, the pages the pool has grown by,   *)
(* whether the kernel has stopped, and a history of where rewrite_common    *)
(* has gone wrong:                                                          *)
(*   "behind"     a region that begins behind the range was rewritten;      *)
(*   "empty"      a region that begins where the range ends was split into  *)
(*                nothing and the whole of it;                              *)
(*   "unset"      a region was cut with split_base unset;                   *)
(*   "forgotten"  a refill extended the region being split, and the page of *)
(*                the pool was dropped with what was cut off;               *)
(*   "freed"      a refill freed the region being split.                    *)
EmptyVm == [regions |-> [as \in Space |-> {}], pt |-> [as \in Space |-> EmptyTables(as)],
            pool |-> 0, grown |-> 0, panic |-> FALSE, amiss |-> {}]

Amiss(s, kind) == [s EXCEPT !.amiss = @ \union {kind}]

(* rb_search of the regions by base. *)
Lowest(S) == IF S = {} THEN NONE ELSE CHOOSE r \in S : \A o \in S : r.base <= o.base
Highest(S) == IF S = {} THEN NONE ELSE CHOOSE r \in S : \A o \in S : r.base >= o.base
AtOrBelow(s, as, p) == Highest({r \in s.regions[as] : r.base <= p})
Below(s, as, p) == Highest({r \in s.regions[as] : r.base < p})
AtOrAbove(s, as, p) == Lowest({r \in s.regions[as] : r.base >= p})
Above(s, as, p) == Lowest({r \in s.regions[as] : r.base > p})

----------------------------------------------------------------------------
(* Looking things up. *)
find_region(s, as, p, length) ==
  LET r == Below(s, as, p + length)
  IN IF r = NONE \/ End(r) <= p THEN NONE ELSE r

(* The first fit: the hint itself, else the lowest address at which the     *)
(* scan from the start, jumping behind each region in the way, fits.        *)
find_hole(s, as, p, length) ==
  LET Fits(q) == SEGMENT_IN_BOUNDS(as, q, length) /\ find_region(s, as, q, length) = NONE
      step[q \in Nat] ==
        IF ~SEGMENT_IN_BOUNDS(as, q, length) THEN NONE
        ELSE IF Fits(q) THEN q
        ELSE step[End(find_region(s, as, q, length))]
  IN IF Fits(p) THEN p ELSE step[START]

addr_to_region(s, as, p) ==
  LET r == AtOrBelow(s, as, p)
  IN IF ~InBounds(as, p) \/ r = NONE THEN NONE ELSE IF p < End(r) THEN r ELSE NONE

(* Walk down from the end of the range, region by region. *)
memory_exists(s, as, p, length) ==
  LET covered[top \in Nat] ==
        \/ top <= p
        \/ LET r == Below(s, as, top) IN r # NONE /\ End(r) >= top /\ covered[r.base]
  IN InBounds(as, p) /\ InBounds(as, p + length) /\ covered[p + length]

----------------------------------------------------------------------------
(* Backing and unbacking pages. *)
FreshFrame(r, q) == IF r.type = DIRECT THEN r.phys + (q - r.base) ELSE "fresh"

region_map(s, as, r, p, length) ==
  [s EXCEPT !.pt[as] = arch_ptm_map(@, p, length, r.prot, r.cache,
                                    [q \in Range2(p, length) |-> FreshFrame(r, q)])]

region_unmap(s, as, p, length) == [s EXCEPT !.pt[as] = arch_ptm_unmap(@, p, length)]

----------------------------------------------------------------------------
(* The set of regions. *)
(* Mutant: the backing of the two regions is not compared. *)
mergeable_any_backing(l, r) ==
  /\ l.type = r.type /\ End(l) = r.base
  /\ l.prot = r.prot /\ l.cache = r.cache /\ l.zero = r.zero

regions_mergeable(l, r) ==
  /\ l.type = r.type /\ End(l) = r.base
  /\ l.prot = r.prot /\ l.cache = r.cache /\ l.dyn = r.dyn /\ l.zero = r.zero
  /\ l.type = DIRECT => l.phys + l.length = r.phys

(* `new` takes the place of itself and of the neighbours it fits; each of   *)
(* their structs returns to the pool.                                       *)
Absorb(s, as, new, gone) ==
  [s EXCEPT !.regions[as] = (@ \ gone) \union
              {[Lowest(gone \union {new}) EXCEPT
                  !.length = new.length + MapThenSumSet(LAMBDA o : o.length, gone)]},
            !.pool = @ + Cardinality(gone)]

(* Mutant: a region does not join its left neighbour. *)
region_insert_right_only(s, as, region) ==
  Absorb(s, as, region, {o \in {Above(s, as, region.base)} \ {NONE} : regions_mergeable(region, o)})

(* Insert, absorbing the right neighbour and being absorbed by the left one *)
(* where they fit together.                                                 *)
region_insert(s, as, region) ==
  Absorb(s, as, region,
         {o \in {Above(s, as, region.base)} \ {NONE} : regions_mergeable(region, o)}
         \union {o \in {Below(s, as, region.base)} \ {NONE} : regions_mergeable(o, region)})

PoolRegion(p) == [base |-> p, length |-> 1, type |-> ANON, prot |-> RW, cache |-> "STANDARD",
                  dyn |-> FALSE, zero |-> FALSE, phys |-> 0]

(* Take a struct from the pool; an empty pool first maps a page in the      *)
(* global address space, describes it by its own first struct and pools     *)
(* the others, or panics when there is no free page.                        *)
region_alloc(s) ==
  LET Refill(p) ==
        [region_insert(region_map(s, GLOBAL, PoolRegion(p), p, 1), GLOBAL, PoolRegion(p)) EXCEPT
           !.pool = @ + (PER_PAGE - 1) - 1, !.grown = @ + 1]
      RefillAt(p) == IF p = NONE THEN [s EXCEPT !.panic = TRUE] ELSE Refill(p)
  IN IF s.pool > 0 THEN [s EXCEPT !.pool = @ - 1] ELSE RefillAt(find_hole(s, GLOBAL, 0, 1))

region_free(s) == [s EXCEPT !.pool = @ + 1]

(* The assertion on a direct region holds: no device is at address 0 and    *)
(* only anonymous regions are cut with split_base unset.                    *)
clone_to(from, base, length) ==
  [from EXCEPT !.base = base, !.length = length,
               !.phys = IF from.type = DIRECT THEN @ + (base - from.base) ELSE @]

----------------------------------------------------------------------------
(* vm_map_anon and vm_map_direct.  `p` is the hint, rounded up to a page;   *)
(* the result is the address of the mapping or NONE.                        *)
map_common(s, as, p, length, fixed, region) ==
  LET Backed(t, r) == IF r.dyn THEN t ELSE region_map(t, as, r, r.base, length)
      Insert(t, r) == [vm |-> region_insert(Backed(t, r), as, r), base |-> r.base]
      Place(t, hole) ==
        IF hole = NONE \/ (fixed /\ hole # p) THEN [vm |-> region_free(t), base |-> NONE]
        ELSE Insert(t, [region EXCEPT !.base = hole, !.length = length])
      Search(t) == Place(t, find_hole(t, as, p, length))
  IN Search(region_alloc(s))

(* What a rewrite makes of a region (vm_rewrite_cache has no caller). *)
Rewritten(how, r) ==
  IF how.type = "DELETE" THEN NONE ELSE [r EXCEPT !.prot = how.prot]

(* What split_region describes after a struct was allocated: a refill of    *)
(* the pool may have extended it, or joined it to its left and freed it.    *)
SplitRegion(s, as, r) == Lowest({o \in s.regions[as] : o.base = r.base})

(* What sticks out of the range is kept: the right part, `cut` pages that   *)
(* were measured when split_region was `r`, in a region of its own at       *)
(* `tail`, the left part in split_region.                                   *)
Split(s, as, r, base, tail, cut) ==
  LET left == IF base > r.base THEN {[r EXCEPT !.length = base - r.base]} ELSE {}
      right == IF cut > 0 THEN {clone_to(r, tail, cut)} ELSE {}
      Keep(t, now) == [t EXCEPT !.regions[as] = (@ \ {now}) \union left \union right,
                                !.pool = IF left = {} THEN @ + 1 ELSE @]
      Cut(t, now) == IF now = NONE THEN Amiss(t, "freed")
                     ELSE IF now # r THEN Amiss(Keep(t, now), "forgotten") ELSE Keep(t, now)
      Now(t) == Cut(t, SplitRegion(t, as, r))
  IN Now(IF cut > 0 THEN region_alloc(s) ELSE s)

(* One region of rewrite_common: its part from `base`, `length` pages long, *)
(* is unmapped or gets a struct of its own.  Nothing is said of what        *)
(* follows once split_region has been freed: it is removed from the tree    *)
(* and put into the pool again.                                             *)
Carve(s, as, r, base, length, tail, how) ==
  LET Insert(t, part) ==
        [region_insert(t, as, part) EXCEPT
           !.pt[as] = arch_ptm_rewrite(@, base, length, part.prot, part.cache)]
      Put(t, part) == IF part = NONE \/ "freed" \in t.amiss THEN t ELSE Insert(t, part)
      Divide(t, now) ==
        IF now = NONE THEN Amiss(t, "freed")
        ELSE Put(Split(t, as, now, base, tail, End(now) - (base + length)),
                 Rewritten(how, clone_to(r, base, length)))
      Own(t) == Divide(t, SplitRegion(t, as, r))
  IN Own(IF how.type = "DELETE" THEN region_unmap(s, as, base, length) ELSE region_alloc(s))

(* The region that contains the first address. *)
RewriteFirst(s, as, p, length, how) ==
  LET r == AtOrBelow(s, as, p)
      n == Min({End(r) - p, length})
      done == how.type # "DELETE" /\ Rewritten(how, r) = r
  IN IF r = NONE THEN [vm |-> s, at |-> p]
     ELSE IF End(r) <= p THEN [vm |-> s, at |-> p]
     ELSE [vm |-> IF done THEN s ELSE Carve(s, as, r, p, n, p + n, how), at |-> p + n]

(* One of the regions that begin behind it.  A length below zero wraps and  *)
(* is cut to the region's; unmapping the first part of a region continues   *)
(* with split_base unset: `garbage` is what it then holds.                  *)
RewriteOne(s, as, r, end, how, garbage) ==
  LET n == IF end < r.base THEN r.length ELSE Min({end - r.base, r.length})
      delete == how.type = "DELETE"
      Noted(t) == IF end < r.base THEN Amiss(t, "behind")
                  ELSE IF delete /\ n < r.length THEN Amiss(t, "unset")
                  ELSE IF n = 0 THEN Amiss(t, "empty") ELSE t
  IN IF ~delete /\ Rewritten(how, r) = r THEN s
     ELSE Noted(Carve(s, as, r, r.base, n, (IF delete THEN garbage ELSE r.base) + n, how))

(* The loop goes on from the end the region had before it was split. *)
RECURSIVE RewriteRest(_, _, _, _, _, _)
RewriteRest(s, as, at, end, how, garbage) ==
  LET r == AtOrAbove(s, as, at)
  IN IF at >= end \/ r = NONE \/ "freed" \in s.amiss THEN s
     ELSE RewriteRest(RewriteOne(s, as, r, end, how, garbage), as, End(r), end, how, garbage)

(* The range is asserted to be in the bounds of the address space. *)
rewrite_common(s, as, p, length, how, garbage) ==
  LET Rest(first) == RewriteRest(first.vm, as, first.at, p + length, how, garbage)
  IN IF ~SEGMENT_IN_BOUNDS(as, p, length) THEN [s EXCEPT !.panic = TRUE]
     ELSE Rest(RewriteFirst(s, as, p, length, how))

(* address_space_fix_page: back one page of a dynamically backed region. *)
Fixable(s, as, p) == LET r == addr_to_region(s, as, p) IN r # NONE /\ r.dyn
address_space_fix_page(s, as, p) == region_map(s, as, addr_to_region(s, as, p), p, 1)

(* vm_copy_to: how many pages are copied, and the pages this backs. *)
CopyCount(s, as, p, length) ==
  LET Served(q) == arch_ptm_physical(s.pt[as], q) \/ Fixable(s, as, q)
  IN IF ~memory_exists(s, as, p, length) THEN 0
     ELSE Cardinality({q \in Range2(p, length) : \A o \in Range2(p, q - p + 1) : Served(o)})

vm_copy_to(s, as, p, length) ==
  LET S == Range2(p, CopyCount(s, as, p, length))
      Back(t, q) == IF arch_ptm_physical(t.pt[as], q) THEN t ELSE address_space_fix_page(t, as, q)
      t == FoldLeft(Back, s, SetToSeq(S))
  IN [t EXCEPT !.pt[as].leaf = [q \in DOMAIN @ |-> IF q \in S /\ @[q].frame = "fresh"
                                                   THEN [@[q] EXCEPT !.frame = "written"] ELSE @[q]]]
============================================================================
