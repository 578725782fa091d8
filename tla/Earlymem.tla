------------------------------ MODULE Earlymem ------------------------------
(* The page allocator of the first part of boot (memory/earlymem.c).  A     *)
(* region keeps its header and a bitmap in its own first pages.  Pages are  *)
(* numbered; `used` is the set of offsets whose bit is set.  Nobody calls   *)
(* earlymem_free_page.                                                      *)
EXTENDS Integers, FiniteSets, SequencesExt

CONSTANTS PAGE,     \* ARCH_PAGE_GRANULARITY in bytes
          HEADER,   \* sizeof(earlymem_region_t)
          BITS,     \* bits of a byte of the bitmap
          NONE

ASSUME EarlymemAssumption == PAGE \in Nat \ {0} /\ HEADER \in Nat \ {0} /\ BITS \in Nat \ {0}

DIV_CEIL(a, b) == (a + b - 1) \div b

EmptyEarlymem == [regions |-> <<>>, page |-> NONE, offset |-> 0]

(* BITMAP_SIZE rounds down.  The pages marked as used are those of as many  *)
(* bytes, without the header; the bits of the last length % BITS pages are  *)
(* not cleared, and read as set for the pages of `junk`.                    *)
BITMAP_SIZE(length) == length \div BITS
MarkedPages(length) == DIV_CEIL(BITMAP_SIZE(length), PAGE)
Uncleared(length) == (BITMAP_SIZE(length) * BITS)..(length - 1)

earlymem_region_add(em, base, length, junk) ==
  LET used == 0..(MarkedPages(length) - 1) \union {i \in Uncleared(length) : base + i \in junk}
  IN [em EXCEPT !.regions = <<[base |-> base, length |-> length, hint |-> 0, used |-> used]>> \o @]

earlymem_region_isfree(region, offset) == offset \notin region.used

(* The free offsets of a region from `from` on, and the first region with   *)
(* one from its from[k] on.                                                 *)
FreeFrom(region, from) == {i \in from..(region.length - 1) : earlymem_region_isfree(region, i)}
FirstWith(em, from) ==
  LET some == {k \in DOMAIN em.regions : FreeFrom(em.regions[k], from[k]) # {}}
  IN IF some = {} THEN NONE ELSE CHOOSE k \in some : \A j \in some : k <= j

(* Every region is searched from its hint, then every region from its       *)
(* start; a region searched in vain keeps its last page as the hint.        *)
earlymem_alloc_page(em) ==
  LET hinted == FirstWith(em, [r \in DOMAIN em.regions |-> em.regions[r].hint])
      k == IF hinted # NONE THEN hinted ELSE FirstWith(em, [r \in DOMAIN em.regions |-> 0])
      i == LET free == FreeFrom(em.regions[k], IF hinted # NONE THEN em.regions[k].hint ELSE 0)
           IN CHOOSE i \in free : \A j \in free : i <= j
      Searched(j) == [em.regions[j] EXCEPT !.hint = em.regions[j].length - 1]
  IN IF k = NONE THEN [em |-> em, page |-> NONE]
     ELSE [em |-> [em EXCEPT !.regions = [j \in DOMAIN @ |->
                     IF j = k THEN [@[j] EXCEPT !.used = @ \union {i}, !.hint = i]
                     ELSE IF j < k \/ hinted = NONE THEN Searched(j) ELSE @[j]]],
           page |-> em.regions[k].base + i]

(* Blocks of a page, until the next one does not fit.  The offset of a      *)
(* block is part of its address.                                            *)
earlymem_alloc(em, size) ==
  LET full == em.offset = 0 \/ PAGE - em.offset < size
      fresh == IF full THEN earlymem_alloc_page(em) ELSE [em |-> em, page |-> em.page]
      offset == IF full THEN 0 ELSE em.offset
  IN [em |-> [fresh.em EXCEPT !.page = fresh.page, !.offset = offset + size],
      page |-> fresh.page, offset |-> offset]

(* The bytes the header and the bitmap really take, in pages. *)
MetadataPages(length) == DIV_CEIL(HEADER + DIV_CEIL(length, BITS), PAGE)
============================================================================
