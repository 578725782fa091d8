-------------------------------- MODULE Boot --------------------------------
(* From the boot loader to the scheduler (init.c, arch/x86_64/init.c): the  *)
(* boot processor takes memory from earlymem, hands what is left to the     *)
(* PMM, runs the init targets stage by stage and brings up the other CPUs   *)
(* one after the other; each of them runs the stages again with the shared  *)
(* table of targets.                                                        *)
EXTENDS Earlymem, InitTargets

CONSTANTS
  CPU,              \* indices of boot_info->cpus
  BootInfo,         \* what the loader and the linker may present: the CPUs, which
                    \* of them boots, the table of targets, the page tables each
                    \* mapping makes, the memory map ([base, length, usable] in
                    \* pages, disjoint), and the pages whose bit of a bitmap
                    \* happens to be set in memory nobody has cleared
  PAGE_DB,          \* pages the page database takes
  SEGMENTS,         \* segments of the kernel
  REGION_SIZE,      \* sizeof(vm_region_t) in bytes
  PmmPages,         \* pages a target takes from the PMM
  TablePages        \* page tables a target makes

ASSUME BootAssumption ==
  /\ CPU \subseteq Nat
  /\ PAGE_DB \in Nat /\ SEGMENTS \in Nat /\ REGION_SIZE \in 1..PAGE
  /\ \A b \in BootInfo :
       /\ b.bsp \in CPU /\ ~b.cpus[b.bsp].failed
       /\ \A c, d \in CPU : c # d => b.cpus[c].seqid # b.cpus[d].seqid
       /\ \A c \in CPU : b.cpus[c].seqid \in Nat
       /\ b.order \in Seq(Target) /\ ToSet(b.order) = Target

VARIABLES
  info,
  pos, visits, asked, \* of every CPU: the step of its program, the visits to
                \* make, the pages a step or a target still asks for
  completed, g_init_stage_current,
  g_init_ap_cpu_id, g_init_ap_finished,
  todo, waiting, woken, \* the loop of arch_init_smp, and the CPUs it has woken
  gs,           \* the cpu_t a CPU uses
  setup,        \* the targets whose work a cpu_t records
  ran,          \* the targets each CPU has run, in order
  em, holder,   \* earlymem, and who holds each page
  blocks,       \* the blocks earlymem_alloc gave out
  pmm,          \* the free pages of the PMM, NONE before it exists
  panicked

cpu_vars == <<pos, visits, asked, gs, setup, ran>>
target_vars == <<completed, g_init_stage_current>>
smp_vars == <<g_init_ap_cpu_id, g_init_ap_finished, todo, waiting, woken>>
memory_vars == <<em, holder, blocks, pmm>>
vars == <<info, cpu_vars, target_vars, smp_vars, memory_vars, panicked>>

EARLY_BSP == -1     \* g_early_bsp; the others are indices of g_cpu_list
Times(n, x) == [i \in 1..n |-> x]
Step(k) == [op |-> "stage", stage |-> k]
At(op) == [op |-> op]
Map(i, needs) == [op |-> "map", index |-> i, needs |-> needs]

(* init() and init_ap(), step by step. *)
InitMemory ==
  << Step(0), At("count"), At("regions"), Step(1), Map(1, <<>>), Map(2, Times(PAGE_DB, "page_db")) >>
  \o [i \in 1..SEGMENTS |-> Map(2 + i, <<"block">>)]
  \o << Map(3 + SEGMENTS, <<>>), At("handover") >>
InitCpus == << Step(2), At("locals"), Step(3), Step(4), Step(5), Step(6), At("smp"), At("handoff") >>
init == InitMemory \o InitCpus
init_ap == << At("parked"), Step(0), Step(1), Step(2), Step(3), Step(4), Step(5), Step(6),
              At("finish"), At("handoff") >>

UsableRegions == SelectSeq(info.map, LAMBDA e : e.usable)
Usable == UNION {e.base..(e.base + e.length - 1) : e \in ToSet(UsableRegions)}

(* A page with the header or the bitmap of a region has another holder: the *)
(* model ends there, with the allocator's lists lost.                       *)
Overwritten == \E p \in Usable : "metadata" \in ToSet(holder[p]) /\ Len(holder[p]) > 1
Running == ~panicked /\ ~Overwritten

IsAp(c) == c # info.bsp
Program(c) == IF IsAp(c) THEN init_ap ELSE init
Now(c) == Program(c)[pos[c]]
Runs(c, op) == Running /\ visits[c] = <<>> /\ asked[c] = <<>> /\ Now(c).op = op
Advance(c) == pos' = [pos EXCEPT ![c] = @ + 1]
Working == {c \in CPU : ~info.cpus[c].failed}
Seqid(c) == info.cpus[c].seqid

Init ==
  /\ info \in BootInfo
  /\ pos = [c \in CPU |-> 1] /\ visits = [c \in CPU |-> <<>>] /\ asked = visits
  /\ completed = [t \in Target |-> FALSE] /\ g_init_stage_current = 0
  /\ g_init_ap_cpu_id = 0 /\ g_init_ap_finished = FALSE
  /\ todo = Working \ {info.bsp} /\ waiting = FALSE /\ woken = {}
  /\ gs = [c \in CPU |-> IF c = info.bsp THEN EARLY_BSP ELSE NONE]
  /\ setup = [s \in {EARLY_BSP} |-> {}]
  /\ ran = [c \in CPU |-> <<>>]
  /\ em = EmptyEarlymem /\ holder = [p \in Usable |-> <<>>] /\ blocks = {} /\ pmm = NONE
  /\ panicked = FALSE

Panic == panicked' = TRUE /\ UNCHANGED <<info, cpu_vars, target_vars, smp_vars, memory_vars>>

----------------------------------------------------------------------------
(* Memory.  A step asks for pages one after the other. *)
Hold(page, tag) == holder' = [holder EXCEPT ![page] = Append(@, tag)]
OutOfMemory == panicked' = TRUE /\ UNCHANGED <<holder, blocks, pmm>>

(* earlymem_alloc_page for the page database or, since g_earlymem_active is *)
(* never cleared, alloc_page of ptm.c for a page table at any time.         *)
TakePage(tag) ==
  \E r \in {earlymem_alloc_page(em)} :
    /\ em' = r.em
    /\ \/ r.page = NONE /\ OutOfMemory
       \/ r.page # NONE /\ Hold(r.page, tag) /\ UNCHANGED <<blocks, pmm, panicked>>

(* earlymem_alloc for the region of a kernel segment. *)
TakeBlock ==
  \E r \in {earlymem_alloc(em, REGION_SIZE)} :
    /\ em' = r.em
    /\ \/ r.page = NONE /\ OutOfMemory
       \/ /\ r.page # NONE
          /\ IF r.em.regions # em.regions THEN Hold(r.page, "blocks") ELSE UNCHANGED holder
          /\ blocks' = blocks \union {[page |-> r.page, offset |-> r.offset]}
          /\ UNCHANGED <<pmm, panicked>>

(* pmm_alloc_page: any free page. *)
TakePmm ==
  /\ \/ pmm = {} /\ OutOfMemory
     \/ \E page \in pmm : pmm' = pmm \ {page} /\ Hold(page, "pmm") /\ UNCHANGED <<blocks, panicked>>
  /\ UNCHANGED em

Take(c) ==
  /\ Running /\ asked[c] # <<>>
  /\ asked' = [asked EXCEPT ![c] = Tail(@)]
  /\ CASE Head(asked[c]) = "table" -> TakePage(IF pmm = NONE THEN "early_table" ELSE "table")
       [] Head(asked[c]) = "page_db" -> TakePage("page_db")
       [] Head(asked[c]) = "block" -> TakeBlock
       [] Head(asked[c]) = "pmm" -> TakePmm
  /\ UNCHANGED <<info, pos, visits, gs, setup, ran, target_vars, smp_vars>>

Ask(c, requests) == asked' = [asked EXCEPT ![c] = requests]

earlymem_init ==
  LET Meta(e) == e.base..(e.base + MetadataPages(e.length) - 1)
  IN /\ Runs(info.bsp, "regions") /\ Advance(info.bsp)
     /\ em' = FoldLeft(LAMBDA m, e : earlymem_region_add(m, e.base, e.length, info.junk), em, UsableRegions)
     /\ holder' = [p \in Usable |-> IF \E e \in ToSet(UsableRegions) : p \in Meta(e)
                                    THEN <<"metadata">> ELSE <<>>]
     /\ UNCHANGED <<info, visits, asked, gs, setup, ran, target_vars, smp_vars, blocks, pmm, panicked>>

(* The HHDM, the page database, each segment of the kernel with its region  *)
(* and the framebuffer are mapped, which makes page tables.                 *)
map_early ==
  /\ Runs(info.bsp, "map") /\ Advance(info.bsp)
  /\ Ask(info.bsp, Now(info.bsp).needs \o Times(info.tables[Now(info.bsp).index], "table"))
  /\ UNCHANGED <<info, visits, gs, setup, ran, target_vars, smp_vars, memory_vars, panicked>>

(* Mutant: every page of a region goes to the PMM. *)
FreeOfAll(regions) ==
  UNION {{r.base + i : i \in 0..(r.length - 1)} : r \in ToSet(regions)}

(* The pages init() passes to pmm_free. *)
FreeOf(regions) ==
  UNION {{r.base + i : i \in {i \in 0..(r.length - 1) : earlymem_region_isfree(r, i)}} : r \in ToSet(regions)}

handover ==
  /\ Runs(info.bsp, "handover") /\ Advance(info.bsp)
  /\ pmm' = FreeOf(em.regions)
  /\ UNCHANGED <<info, visits, asked, gs, setup, ran, target_vars, smp_vars, em, holder, blocks, panicked>>

----------------------------------------------------------------------------
(* CPUs and targets. *)

(* The check of the sequential ids: the working CPUs must be 0 to n - 1. *)
count_cpus ==
  /\ Runs(info.bsp, "count")
  /\ LET highest == CHOOSE s \in {Seqid(c) : c \in Working} : \A c \in Working : s >= Seqid(c)
     IN IF Cardinality(Working) - 1 # highest THEN Panic
        ELSE Advance(info.bsp) /\ UNCHANGED <<info, visits, asked, gs, setup, ran, target_vars, smp_vars,
                                              memory_vars, panicked>>

(* init_run_stage: the stage never goes back, or the kernel panics. *)
EnterStage(c) ==
  /\ Runs(c, "stage") /\ Advance(c)
  /\ panicked' = (Now(c).stage < g_init_stage_current)
  /\ g_init_stage_current' = Now(c).stage
  /\ visits' = [visits EXCEPT ![c] = init_run_stage(info.order, Now(c).stage)]
  /\ UNCHANGED <<info, asked, gs, setup, ran, completed, smp_vars, memory_vars>>

Completed(t) == [completed EXCEPT ![t] = TRUE]

(* The end of run_target for the next target of the stage. *)
Visit(c) ==
  LET t == Head(visits[c])
  IN /\ Running /\ visits[c] # <<>> /\ asked[c] = <<>>
     /\ visits' = [visits EXCEPT ![c] = Tail(@)]
     /\ \/ /\ ~DO_TARGET(t, IsAp(c)) \/ completed[t]
           /\ UNCHANGED <<completed, ran, setup, asked>>
        \/ /\ DO_TARGET(t, IsAp(c)) /\ ~completed[t]
           /\ completed' = Completed(t)
           /\ ran' = [ran EXCEPT ![c] = Append(@, t)]
           /\ setup' = [setup EXCEPT ![gs[c]] = @ \union {t}]
           /\ Ask(c, Times(TablePages[t], "table") \o Times(PmmPages[t], "pmm"))
     /\ UNCHANGED <<info, pos, gs, g_init_stage_current, smp_vars, memory_vars, panicked>>

(* The boot processor keeps what its early cpu_t recorded. *)
LocalsFor(s) == IF s = Seqid(info.bsp) THEN setup[EARLY_BSP] ELSE {}

arch_init_cpu_locals ==
  /\ Runs(info.bsp, "locals") /\ Advance(info.bsp)
  /\ setup' = [s \in DOMAIN setup \union {Seqid(c) : c \in Working} |->
                 IF s = EARLY_BSP THEN setup[s] ELSE LocalsFor(s)]
  /\ gs' = [gs EXCEPT ![info.bsp] = Seqid(info.bsp)]
  /\ UNCHANGED <<info, visits, asked, ran, target_vars, smp_vars, memory_vars, panicked>>

----------------------------------------------------------------------------
(* arch_init_smp. *)

FinishedAtStart == FALSE

start_ap ==
  /\ Runs(info.bsp, "smp") /\ ~waiting /\ todo # {}
  /\ LET c == CHOOSE c \in todo : \A d \in todo : c <= d
     IN /\ completed' = init_reset_ap(completed) /\ g_init_stage_current' = 0
        /\ g_init_ap_cpu_id' = Seqid(c) /\ g_init_ap_finished' = FinishedAtStart
        /\ woken' = woken \union {c} /\ todo' = todo \ {c} /\ waiting' = TRUE
  /\ UNCHANGED <<info, cpu_vars, memory_vars, panicked>>

await_ap ==
  /\ Runs(info.bsp, "smp") /\ waiting /\ g_init_ap_finished
  /\ waiting' = FALSE
  /\ UNCHANGED <<info, cpu_vars, target_vars, g_init_ap_cpu_id, g_init_ap_finished, todo, woken,
                 memory_vars, panicked>>

smp_done ==
  /\ Runs(info.bsp, "smp") /\ ~waiting /\ todo = {} /\ Advance(info.bsp)
  /\ UNCHANGED <<info, visits, asked, gs, setup, ran, target_vars, smp_vars, memory_vars, panicked>>

(* A woken CPU takes the cpu_t the boot processor named. *)
enter_ap(c) ==
  /\ Runs(c, "parked") /\ c \in woken /\ Advance(c)
  /\ gs' = [gs EXCEPT ![c] = g_init_ap_cpu_id]
  /\ UNCHANGED <<info, visits, asked, setup, ran, target_vars, smp_vars, memory_vars, panicked>>

(* Mutant: the boot processor is not told. *)
finish_ap_silent(c) ==
  /\ Runs(c, "finish") /\ Advance(c)
  /\ UNCHANGED <<info, visits, asked, gs, setup, ran, target_vars, smp_vars, memory_vars, panicked>>

finish_ap(c) ==
  /\ Runs(c, "finish") /\ Advance(c)
  /\ g_init_ap_finished' = TRUE
  /\ UNCHANGED <<info, visits, asked, gs, setup, ran, target_vars, g_init_ap_cpu_id, todo, waiting, woken,
                 memory_vars, panicked>>

Up(c) == asked[c] = <<>> /\ Now(c).op = "handoff"
Booted == ~Running \/ \A c \in Working : Up(c)

BspStep == \/ count_cpus \/ earlymem_init \/ map_early \/ handover \/ arch_init_cpu_locals
           \/ start_ap \/ await_ap \/ smp_done
CpuStep(c) == EnterStage(c) \/ Visit(c) \/ Take(c) \/ enter_ap(c) \/ finish_ap(c)

Next == BspStep \/ \E c \in CPU : CpuStep(c)

(* Every CPU that runs keeps running: there is no scheduler yet, and only   *)
(* await_ap waits, in a loop.                                               *)
Spec == Init /\ [][Next]_vars /\ WF_vars(BspStep) /\ \A c \in CPU : WF_vars(CpuStep(c))

----------------------------------------------------------------------------
(* The pages of headers and bitmaps that no bit protects: a region shorter  *)
(* than one byte of bitmap marks nothing, and the header pushes the end of  *)
(* a bitmap that nearly fills its pages into one more.                      *)
Exposed == UNION {{e.base + i : i \in MarkedPages(e.length)..(MetadataPages(e.length) - 1)} :
                    e \in ToSet(UsableRegions)}
UnclearedPages == UNION {{e.base + i : i \in Uncleared(e.length)} : e \in ToSet(UsableRegions)}

(* Before the PMM exists, earlymem gives no page to two holders and none of *)
(* the headers and bitmaps but the exposed ones, and earlymem_alloc cuts    *)
(* its pages into blocks that do not overlap or leave the page.             *)
EarlyPagesApart ==
  /\ pmm = NONE => \A p \in Usable \ Exposed : Len(holder[p]) <= 1
  /\ \A b \in blocks : /\ b.offset + REGION_SIZE <= PAGE
                       /\ \A d \in blocks \ {b} : d.page = b.page =>
                            b.offset + REGION_SIZE <= d.offset \/ d.offset + REGION_SIZE <= b.offset

(* The handover of init() gives the PMM no page that is in use, exposed     *)
(* ones apart, and every usable page that earlymem has left, but for pages  *)
(* at the end of a region whose bit nobody cleared.                         *)
HandoverExact ==
  pmm # NONE => \A p \in Usable \ Exposed :
    LET given == p \in pmm \/ "pmm" \in ToSet(holder[p])
        early == ToSet(holder[p]) \intersect {"metadata", "early_table", "page_db", "blocks"} # {}
    IN /\ ~(given /\ early)
       /\ given \/ early \/ (p \in UnclearedPages /\ p \in info.junk)

(* On every memory map and whatever memory holds at boot, early memory has  *)
(* one holder for each page and hands the rest to the PMM, except for the   *)
(* pages that earlymem_region_add leaves exposed or uncleared.              *)
EarlyMemoryKept == EarlyPagesApart /\ HandoverExact

(* While a CPU comes up nobody else works on the shared table of targets:   *)
(* the boot processor waits in arch_init_smp and no other CPU is between    *)
(* its wake-up and its answer; and no CPU finds the stage beyond its own,   *)
(* which init_run_stage asserts.                                            *)
ComingUp(c) == IsAp(c) /\ pos[c] > 1 /\ ~Up(c)
OneAtATime ==
  ~panicked => \A c \in CPU :
    /\ ComingUp(c) => Now(info.bsp).op = "smp" /\ waiting /\ \A d \in CPU \ {c} : ~ComingUp(d)
    /\ Runs(c, "stage") => Now(c).stage >= g_init_stage_current

(* A CPU runs a target at most once, and only one its scope covers.         *)
ScopesKept ==
  \A c \in CPU : /\ Cardinality(ToSet(ran[c])) = Len(ran[c])
                 /\ \A t \in ToSet(ran[c]) : DO_TARGET(t, IsAp(c))

(* Whatever table the linker builds, a target runs behind every target it   *)
(* depends on: on the same CPU, or on the boot processor for those that     *)
(* only the boot processor runs.                                            *)
DependenciesFirst ==
  \A c \in CPU : \A i \in DOMAIN ran[c] : \A d \in Found(ran[c][i]) :
    IF DO_TARGET(d, IsAp(c)) THEN \E j \in 1..(i - 1) : ran[c][j] = d
    ELSE \E j \in DOMAIN ran[info.bsp] : ran[info.bsp][j] = d

(* On the table of targets that all CPUs share, every CPU runs each target *)
(* of its scope once, behind those it depends on, with no other CPU in     *)
(* between.                                                                *)
TargetsInOrder == OneAtATime /\ ScopesKept /\ DependenciesFirst

(* A CPU that reaches the scheduler has a cpu_t of its own, and every       *)
(* target of its scope has been run for that cpu_t, although the boot       *)
(* processor changed its cpu_t half way and the flags are shared.           *)
SetUpAtHandoff ==
  \A c \in CPU : Up(c) =>
    /\ gs[c] = Seqid(c)
    /\ setup[gs[c]] = {t \in Target : DO_TARGET(t, IsAp(c))}

(* Every working CPU reaches the scheduler, unless the kernel panics or an  *)
(* exposed page of early memory has been handed out.                        *)
AllComeUp == <>Booted
============================================================================
