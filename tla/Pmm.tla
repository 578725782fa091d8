-------------------------------- MODULE Pmm --------------------------------
(***************************************************************************)
(* The buddy allocator of physical pages, memory/pmm.c, and the handover   *)
(* of memory to it at boot (init.c).                                       *)
(*                                                                         *)
(* A page is named by its frame number, a block by its first page.         *)
(* Grain of atomicity: only the free lists are protected by zone->lock, so *)
(* the locked sections of pmm_alloc and pmm_free are one action each, and  *)
(* what the code does before or after them without the lock - setting      *)
(* block->order and block->free, loading and storing free_page_count - are *)
(* actions of their own.                                                   *)
(*                                                                         *)
(* Two histories record the races that this leaves to concurrent callers:  *)
(* a merge with a buddy that is on no list, being between its pop and its  *)
(* mark or between its mark and its push (raced), after which the lists    *)
(* are damaged and nothing is claimed; and a store to free_page_count over *)
(* one that came after the load (lost), after which the count is wrong.    *)
(*                                                                         *)
(* Abstractions: zone->lists[k] is a set, since which block of a list is   *)
(* popped matters to no property; PMM_FLAG_ZERO is left out.               *)
(***************************************************************************)
EXTENDS Integers, FiniteSets, FiniteSetsExt

CONSTANTS
  Actor,            \* callers of pmm_alloc and pmm_free
  PMM_MAX_ORDER,
  LOW_END,          \* first frame of g_pmm_zone_normal
  RegionBase, RegionEnd,  \* the memory map entry, in frames
  Reserved,         \* frames that earlymem handed out before the PMM existed
  NoBlock

Zone == {"low", "normal"}
ZoneStart(z) == IF z = "low" THEN 1 ELSE LOW_END
ZoneEnd(z) == IF z = "low" THEN LOW_END ELSE RegionEnd

Larger(a, b) == IF a > b THEN a ELSE b
Smaller(a, b) == IF a < b THEN a ELSE b

(* The part of the region that falls into a zone.                          *)
First(z) == Larger(RegionBase, ZoneStart(z))
Beyond(z) == Smaller(RegionEnd, ZoneEnd(z))
PagesIn(z) == First(z)..(Beyond(z) - 1)
Page == PagesIn("low") \cup PagesIn("normal")
Order == 0..PMM_MAX_ORDER

ASSUME RegionAssumption ==
  /\ PMM_MAX_ORDER \in 0..64 /\ LOW_END \in Nat /\ RegionBase \in Nat /\ RegionEnd \in Nat
  /\ Reserved \subseteq Page /\ NoBlock \notin Page

VARIABLES
  order, free,        \* of the pmm_block_t of every page
  lists,              \* zone->lists
  free_page_count,    \* zone->free_page_count
  held,               \* blocks that callers own: first page and pages asked for
  pc, blk, seen,      \* of a call: where it is, its block, the count it loaded
  booting,            \* the loop of init.c has not freed every page yet
  raced, lost         \* histories: a merge, a count has gone wrong

vars == <<order, free, lists, free_page_count, held, pc, blk, seen, booting, raced, lost>>
---------------------------------------------------------------------------
(* pmm_region_add.  A block starting at page p with the pages up to end    *)
(* still to carve gets the largest order that fits, is aligned, and is at  *)
(* most PMM_MAX_ORDER.                                                     *)
CarveOrder(p, end) == Max({ k \in Order : p + 2^k <= end /\ p % 2^k = 0 })

(* The first page of the block that p was carved into.                     *)
Carve(z) ==
  LET start[p \in PagesIn(z)] ==
        IF p = First(z) THEN p
        ELSE LET q == start[p - 1] IN
             IF p < q + 2^CarveOrder(q, Beyond(z)) THEN q ELSE p
  IN start

(* pmm_free picks the zone by address.                                     *)
ZoneOf(p) == IF p >= LOW_END THEN "normal" ELSE "low"

max_order ==
  [p \in Page |-> LET z == ZoneOf(p) IN CarveOrder(Carve(z)[p], Beyond(z))]

(* pagecount_to_order: 64 less the leading zeroes of pages - 1.            *)
BitLength(x) == CHOOSE b \in 1..64 : 2^(b - 1) <= x /\ x < 2^b
(* Mutant: rounds down.                                                    *)
pagecount_to_order_floor(pages) == BitLength(pages) - 1
pagecount_to_order(pages) == IF pages = 1 THEN 0 ELSE BitLength(pages - 1)

(* The block of order k around page p, and the other half of the block of  *)
(* order k + 1: BLOCK_PADDR(block) ^ size.                                 *)
Head(p, k) == p - (p % 2^k)
Buddy(p, k) == LET h == Head(p, k) IN IF h % 2^(k + 1) = 0 THEN h + 2^k ELSE h - 2^k
Pages(p, k) == p..(p + 2^k - 1)

(* At boot every page of the region is a block of order 0 that is not      *)
(* free; the loop of init.c owns those earlymem has not handed out.        *)
Init ==
  /\ order = [p \in Page |-> 0]
  /\ free = [p \in Page |-> FALSE]
  /\ lists = [z \in Zone |-> [k \in Order |-> {}]]
  /\ free_page_count = [z \in Zone |-> 0]
  /\ held = { [page |-> p, pages |-> 1] : p \in Page \ Reserved }
  /\ pc = [a \in Actor |-> "idle"]
  /\ blk = [a \in Actor |-> NoBlock]
  /\ seen = [a \in Actor |-> 0]
  /\ booting = TRUE
  /\ raced = FALSE /\ lost = FALSE
---------------------------------------------------------------------------
Goto(a, label) == pc' = [pc EXCEPT ![a] = label]

(* The order pmm_alloc finds a block at: the least non-empty list.  When   *)
(* there is none pmm_alloc panics, and the system stops.                   *)
AvlOrders(z, k) == { v \in k..PMM_MAX_ORDER : lists[z][v] # {} }

(* Under zone->lock in pmm_alloc: pop block b of order v and push back the *)
(* upper half of it until what is left has order k.                        *)
Split(z, b, v, k) ==
  /\ lists' = [lists EXCEPT ![z] = [j \in Order |->
       (lists[z][j] \ (IF j = v THEN {b} ELSE {})) \cup (IF j \in k..(v - 1) THEN {b + 2^j} ELSE {})]]
  /\ order' = [p \in Page |-> IF \E j \in k..(v - 1) : p = b + 2^j
                              THEN CHOOSE j \in k..(v - 1) : p = b + 2^j ELSE order[p]]
  /\ free' = [p \in Page |-> free[p] \/ \E j \in k..(v - 1) : p = b + 2^j]

(* pmm_alloc_pages(pages), with pmm_alloc(k) as the case pages = 2^k.      *)
AllocTake(a) ==
  /\ ~booting /\ pc[a] = "idle"
  /\ \E pages \in 1..(2^PMM_MAX_ORDER), z \in Zone :
       LET k == pagecount_to_order(pages) IN
       /\ AvlOrders(z, k) # {}
       /\ LET v == Min(AvlOrders(z, k)) IN
          \E b \in lists[z][v] : /\ Split(z, b, v, k)
                                 /\ blk' = [blk EXCEPT ![a] = [page |-> b, pages |-> pages]]
  /\ Goto(a, "alloc_mark")
  /\ UNCHANGED <<free_page_count, held, seen, booting, raced, lost>>

(* The lock is released; order and free are two bit-fields of one byte.    *)
AllocMark(a) ==
  /\ pc[a] = "alloc_mark"
  /\ order' = [order EXCEPT ![blk[a].page] = pagecount_to_order(blk[a].pages)]
  /\ free' = [free EXCEPT ![blk[a].page] = FALSE]
  /\ Goto(a, "alloc_load")
  /\ UNCHANGED <<lists, free_page_count, held, blk, seen, booting, raced, lost>>

(* The count of the block's zone has changed since the call loaded it.     *)
Overwrites(a) == free_page_count[ZoneOf(blk[a].page)] # seen[a]

(* free_page_count -= pages: an unlocked load and store, in two steps.     *)
AllocLoad(a) ==
  /\ pc[a] = "alloc_load"
  /\ seen' = [seen EXCEPT ![a] = free_page_count[ZoneOf(blk[a].page)]]
  /\ Goto(a, "alloc_store")
  /\ UNCHANGED <<order, free, lists, free_page_count, held, blk, booting, raced, lost>>

AllocStore(a) ==
  /\ pc[a] = "alloc_store"
  /\ free_page_count' = [free_page_count EXCEPT ![ZoneOf(blk[a].page)] =
                           seen[a] - 2^pagecount_to_order(blk[a].pages)]
  /\ lost' = (lost \/ Overwrites(a))
  /\ held' = held \cup {blk[a]}
  /\ blk' = [blk EXCEPT ![a] = NoBlock]
  /\ seen' = [seen EXCEPT ![a] = 0]
  /\ Goto(a, "idle")
  /\ UNCHANGED <<order, free, lists, booting, raced>>
---------------------------------------------------------------------------
(* pmm_free of a block its caller owns.  While booting there is one thread *)
(* and it frees the pages of the region in ascending order.                *)
FreeLoad(a) ==
  /\ pc[a] = "idle"
  /\ booting => \A b \in Actor : pc[b] = "idle"
  /\ \E b \in held :
       /\ booting => \A c \in held : b.page <= c.page
       /\ blk' = [blk EXCEPT ![a] = b]
       /\ held' = held \ {b}
       /\ seen' = [seen EXCEPT ![a] = free_page_count[ZoneOf(b.page)]]
  /\ Goto(a, "free_store")
  /\ UNCHANGED <<order, free, lists, free_page_count, booting, raced, lost>>

FreeStore(a) ==
  /\ pc[a] = "free_store"
  /\ free_page_count' = [free_page_count EXCEPT ![ZoneOf(blk[a].page)] =
                           seen[a] + 2^order[blk[a].page]]
  /\ lost' = (lost \/ Overwrites(a))
  /\ seen' = [seen EXCEPT ![a] = 0]
  /\ Goto(a, "free_mark")
  /\ UNCHANGED <<order, free, lists, held, blk, booting, raced>>

FreeMark(a) ==
  /\ pc[a] = "free_mark"
  /\ free' = [free EXCEPT ![blk[a].page] = TRUE]
  /\ Goto(a, "free_merge")
  /\ UNCHANGED <<order, lists, free_page_count, held, blk, seen, booting, raced, lost>>

(* Mutant: merges a free buddy that is split, too.                         *)
MergeableAnyOrder(p, k) ==
  LET b == Buddy(p, k) IN free[b] /\ order[b] # max_order[b]

(* The buddy of the block of order k around p can be merged with it.       *)
Mergeable(p, k) ==
  LET b == Buddy(p, k) IN free[b] /\ order[b] # max_order[b] /\ order[b] = k

(* Mutant: merges one level and stops.                                     *)
MergedOrderOnce(p) ==
  IF order[p] < max_order[p] /\ Mergeable(p, order[p]) THEN order[p] + 1 ELSE order[p]

(* The order at which the merge loop stops.                                *)
MergedOrder(p) ==
  Min({ k \in order[p]..PMM_MAX_ORDER : k >= max_order[p] \/ ~Mergeable(p, k) })

(* The loop merges a buddy that another call has popped and not marked, or *)
(* marked and not pushed: it is free, of the right order, and on no list.  *)
MergesUnlisted(a) ==
  LET p == blk[a].page IN
  \E c \in Actor, j \in order[p]..(MergedOrder(p) - 1) :
    pc[c] \in {"alloc_mark", "free_merge"} /\ blk[c].page = Buddy(p, j)

(* The merge loop, which takes each buddy off its list and raises the      *)
(* order of both halves, and the final push, under zone->lock.             *)
FreeMerge(a) ==
  LET p == blk[a].page
      z == ZoneOf(p)
      k == order[p]
      v == MergedOrder(p)
      Raised(q) == { j \in k..(v - 1) : q \in {Head(p, j), Buddy(p, j)} }
  IN
  /\ pc[a] = "free_merge"
  /\ lists' = [lists EXCEPT ![z] = [j \in Order |->
       (lists[z][j] \ (IF j \in k..(v - 1) THEN {Buddy(p, j)} ELSE {}))
         \cup (IF j = v THEN {Head(p, v)} ELSE {})]]
  /\ order' = [q \in Page |-> IF Raised(q) # {} THEN Max(Raised(q)) + 1 ELSE order[q]]
  /\ blk' = [blk EXCEPT ![a] = NoBlock]
  /\ booting' = (booting /\ held # {})
  /\ raced' = (raced \/ MergesUnlisted(a))
  /\ Goto(a, "idle")
  /\ UNCHANGED <<free, free_page_count, held, seen, lost>>

Next ==
  \E a \in Actor :
    \/ AllocTake(a) \/ AllocMark(a) \/ AllocLoad(a) \/ AllocStore(a)
    \/ FreeLoad(a) \/ FreeStore(a) \/ FreeMark(a) \/ FreeMerge(a)

Spec == Init /\ [][Next]_vars
---------------------------------------------------------------------------
(* Properties.                                                             *)

Block == [page : Page, pages : 1..(2^PMM_MAX_ORDER)]

TypeOK ==
  /\ order \in [Page -> Order] /\ free \in [Page -> BOOLEAN]
  /\ lists \in [Zone -> [Order -> SUBSET Page]]
  /\ free_page_count \in [Zone -> Int]
  /\ held \subseteq Block
  /\ pc \in [Actor -> {"idle", "alloc_mark", "alloc_load", "alloc_store",
                       "free_store", "free_mark", "free_merge"}]
  /\ blk \in [Actor -> Block \cup {NoBlock}]
  /\ seen \in [Actor -> Int]
  /\ booting \in BOOLEAN /\ raced \in BOOLEAN /\ lost \in BOOLEAN

(* The blocks that belong to callers: those they hold and those pmm_alloc  *)
(* has popped for them.                                                    *)
Allocating == { a \in Actor : pc[a] \in {"alloc_mark", "alloc_load", "alloc_store"} }
Freeing == { a \in Actor : pc[a] \in {"free_store", "free_mark", "free_merge"} }
Taken == held \cup { blk[a] : a \in Allocating }

PagesOf(b) == Pages(b.page, pagecount_to_order(b.pages))
OwnedPages == Reserved \cup UNION { PagesOf(b) : b \in Taken }
Listed == UNION { UNION { Pages(p, k) : p \in lists[z][k] } : z \in Zone, k \in Order }
PoolPages == Listed \cup UNION { PagesOf(blk[a]) : a \in Freeing }

(* pmm.h says of list_node "unallocated = used by pmm": no page of a block *)
(* on a free list belongs to a caller, and the block on lists[k] says of   *)
(* itself that it is free and of order k.                                  *)
ListedIsUnallocated ==
  /\ Listed \cap OwnedPages = {}
  /\ \A z \in Zone, k \in Order : \A p \in lists[z][k] : free[p] /\ order[p] = k

(* A block is disturbed by nothing while its caller holds it, so pmm_free  *)
(* gives back exactly the pages pmm_alloc handed out, and pmm_alloc_pages  *)
(* hands out the smallest block that fits the request.                     *)
HeldIntact ==
  \A b \in held :
    /\ ~free[b.page] /\ b.page % 2^order[b.page] = 0
    /\ b.pages <= 2^order[b.page] /\ b.pages > 2^order[b.page] \div 2
    /\ \A c \in held : b # c => PagesOf(b) \cap PagesOf(c) = {}

(* The blocks of the callers and those of the free lists stay apart        *)
(* through every split of pmm_alloc and every merge of pmm_free, unless a  *)
(* merge has met a block that was on no list.                              *)
BlocksIntact == raced \/ (ListedIsUnallocated /\ HeldIntact)

(* Memory does not stay fragmented: two halves of a block are never both   *)
(* on a free list, whatever the order in which they were freed.            *)
Coalesced ==
  \A z \in Zone, k \in Order : \A p \in lists[z][k] :
    k < max_order[p] => Buddy(p, k) \notin lists[z][k]

(* With no call under way free_page_count is the number of pages on the    *)
(* free lists of the zone.                                                 *)
CountExact ==
  (\A a \in Actor : pc[a] = "idle") =>
    \A z \in Zone : free_page_count[z] = Cardinality(Listed \cap PagesIn(z))

(* The free lists hold what is free in the largest blocks there are, and   *)
(* free_page_count counts it, up to the races recorded.                    *)
FreeListsExact == raced \/ (TypeOK /\ Coalesced /\ (lost \/ CountExact))

Alloc == INSTANCE Allocator WITH Resource <- Page, owned <- OwnedPages, pool <- PoolPages

(* The PMM implements the abstract allocator: a step of pmm_alloc or       *)
(* pmm_free takes the pages of one block out of the pool, puts them back,  *)
(* or changes nothing a caller can see, until a merge has raced.           *)
ImplementsAllocator ==
  Alloc!Init /\ [][raced' \/ Alloc!Allocate \/ Alloc!Free]_<<OwnedPages, PoolPages>>
===========================================================================
