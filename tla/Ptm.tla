-------------------------------- MODULE Ptm ---------------------------------
(* The page tables of arch/x86_64/ptm.c.  Addresses are page numbers; the   *)
(* levels above the leaf behave alike and are one level here, whose entry   *)
(* covers TABLE pages.  A level-1 entry is a leaf; rights are what it       *)
(* grants besides reading, which x86_64 cannot deny.  User and kernel       *)
(* privilege and the global flag are the same for all of an address space   *)
(* and left out.  Mappings are of 4K pages: no large page is mapped.        *)
(* Every function holds pt_lock from its first read to its shootdown, so it *)
(* is one transition (TlbShootdown models the shootdown itself).            *)
EXTENDS Integers, FiniteSets, TLC

CONSTANTS Space,        \* address spaces
          Top,          \* [Space -> Nat]: pages 1 .. Top[as] - 1 can be mapped
          TABLE,        \* pages one upper entry covers (512 per level)
          ABSENT        \* an entry without ENTRY_FLAG_PRESENT

ASSUME PtmAssumption == TABLE \in Nat \ {0} /\ Top \in [Space -> Nat \ {0}]

Pages(as) == 0 .. Top[as]
TableOf(p) == p \div TABLE
Range2(p, length) == p .. (p + length - 1)

(* PAT3, PAT6 and PAT0.  The PAT flag of a leaf sits elsewhere than that of *)
(* a large page, whose place is bit 12 of a leaf's physical address.        *)
cache_to_x86_flags(cache, large) ==
  CASE cache = "STANDARD" -> {}
    [] cache = "NONE" -> {"PCD", "PWT"}
    [] cache = "WRITE_COMBINE" -> {"PCD", IF large THEN "ADDRESS_BIT" ELSE "PAT"}

(* arch_ptm_address_space_create and the ptm target: no translation yet. *)
EmptyTables(as) ==
  [leaf |-> [p \in Pages(as) |-> ABSENT], upper |-> [t \in {TableOf(p) : p \in Pages(as)} |-> ABSENT]]

Rights(entry) == IF entry = ABSENT THEN {} ELSE entry

(* Mutant: a table that exists keeps the rights it was created with. *)
map_page_keeps_rights(pt, leaves, prot) ==
  [leaf |-> leaves @@ pt.leaf,
   upper |-> [t \in DOMAIN pt.upper |->
               IF pt.upper[t] = ABSENT /\ \E q \in DOMAIN leaves : TableOf(q) = t THEN prot ELSE pt.upper[t]]]

(* map_page for every page of leaves: the tables on the way are created or  *)
(* widened to what the page needs, never narrowed; the leaf is exact.       *)
map_page(pt, leaves, prot) ==
  [leaf |-> leaves @@ pt.leaf,
   upper |-> [t \in DOMAIN pt.upper |->
               IF \E q \in DOMAIN leaves : TableOf(q) = t THEN Rights(pt.upper[t]) \union prot ELSE pt.upper[t]]]

arch_ptm_map(pt, p, length, prot, cache, frames) ==
  map_page(pt, [q \in Range2(p, length) |-> [frame |-> frames[q], prot |-> prot,
                                             bits |-> cache_to_x86_flags(cache, FALSE)]], prot)

(* The leaves the loops of arch_ptm_unmap and arch_ptm_rewrite reach: an    *)
(* absent table is skipped by adding its size to the current address.       *)
Reached(pt, p, length) ==
  LET Present(i) == pt.upper[TableOf(p + i)] # ABSENT
      at[i \in Nat] ==
        \/ i = 0
        \/ i > 0 /\ at[i - 1] /\ Present(i - 1)
        \/ i >= TABLE /\ at[i - TABLE] /\ ~Present(i - TABLE)
  IN {p + i : i \in {k \in 0 .. (length - 1) : at[k] /\ Present(k)}}

(* Mutant: the last page of the range is left alone. *)
arch_ptm_unmap_short(pt, p, length) ==
  [pt EXCEPT !.leaf = [q \in DOMAIN @ |-> IF q \in Reached(pt, p, length - 1) THEN ABSENT ELSE @[q]]]

arch_ptm_unmap(pt, p, length) ==
  [pt EXCEPT !.leaf = [q \in DOMAIN @ |-> IF q \in Reached(pt, p, length) THEN ABSENT ELSE @[q]]]

(* Cache bits are added to those of the entry, in the place of a large      *)
(* page: the level that is compared here starts at 1, the comparison at 0.  *)
arch_ptm_rewrite(pt, p, length, prot, cache) ==
  LET S == Reached(pt, p, length)
  IN [leaf |-> [q \in DOMAIN pt.leaf |->
                 IF q \in S /\ pt.leaf[q] # ABSENT
                 THEN [pt.leaf[q] EXCEPT !.prot = prot, !.bits = @ \union cache_to_x86_flags(cache, TRUE)]
                 ELSE pt.leaf[q]],
      upper |-> [t \in DOMAIN pt.upper |->
                  IF \E q \in S : TableOf(q) = t THEN pt.upper[t] \union prot ELSE pt.upper[t]]]

(* arch_ptm_physical and the page walk of the processor. *)
arch_ptm_physical(pt, p) == pt.leaf[p] # ABSENT
Granted(pt, p) == pt.leaf[p].prot \intersect Rights(pt.upper[TableOf(p)])
============================================================================
