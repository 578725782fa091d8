# A TLA+ model of the Cronus kernel

Cronus is the kernel of ElysiumOS: a monolithic, preemptive, multi-processor
kernel for x86_64 written in C. This directory holds TLA+ modules for the parts
of it that are hard to test (allocators, virtual memory, the scheduler and its
locks, deferred work under nested interrupts, timers, TLB shootdown, boot, file
systems, device enumeration and program loading), TLC configurations that check
them on small instances, and TLAPS proofs for ten of them: slab allocator,
physical memory manager, TLB shootdown, scheduler, mutex, the counters and
deferred work of a CPU, events, lists, boot and drivers.
`PROJECT.json` relates every definition to the lines it models, and lists the
runs, mutants, hazards and theorems.

    tlc -config MCSlab.cfg MCSlab      # one run
    tlapm SlabProofs.tla               # the proofs

## 1. Inventory

| Component | State | Operations | What is hard | What makes it correct |
|---|---|---|---|---|
| Slab allocator `memory/slab.c` | slabs with freelists, partial/full lists, depot of magazines, two magazines per CPU | `slab_cache_create`, `slab_allocate`, `slab_free` | three kinds of locks, objects moving between four places, `goto` loops under a lock | an object is in one place, none is lost, the loops end |
| PMM `memory/pmm.c` | per page order/free/max_order, per zone free lists and a count | `pmm_region_add`, `pmm_alloc`, `pmm_free` | fields written outside the lock, merging in any order of frees, zone and alignment edges | held blocks are disjoint, free memory is coalesced |
| TLB shootdown `arch/x86_64/tlb.c` | published range, status per CPU, count of answers | shootdown, IPI handler | IPIs late or repeated, CPUs masked or booting, everyone waiting for everyone | nothing stale when it returns, and it returns |
| Scheduler `sched/`, `arch/x86_64/sched.c` | run queue per CPU, thread states, processes' threads, reaper's queues | schedule, yield (pick, switch, drop), create, exit, reap | steps of other CPUs between pick, switch and drop | a thread is in one place, a ready one runs, a process outlives its threads |
| Mutex `common/lock/mutex.c` | state, wait queue | acquire (try, spin, block), release (hand over) | the window between queueing and blocking | one owner, no lost wake-up |
| Preemption, deferred work, spinlocks, interrupt entry `sched/sched.c`, `sys/dw.c`, `common/lock/spinlock.c`, `arch/x86_64/interrupt.c` | counters and flags of a CPU, its list of work | inc/dec, disable/enable, queue/process, three kinds of sections, the handler | interrupts nested anywhere, yields inside all of it | counters balance, work is atomic and never meets a held lock, nothing is forgotten |
| Events `sys/event.c`, `arch/x86_64/event.c` | ordered events, spare structs, one-shot timer | queue, process | re-arming, counts that wrap or are cut off, structs an interrupt cannot free | an event that waits has a timer, and is delivered |
| Virtual memory `memory/vm.c` | regions in a tree per address space, pool of region structs | map, unmap, rewrite, fault, copy | splitting and joining regions, a pool that is refilled through itself | regions agree with a map page by page, data stays |
| Page tables `arch/x86_64/ptm.c` | multi-level tables | map, rewrite, unmap, translate | rights conjoined over levels, skipping absent tables | translations agree with the regions |
| Libraries `lib/rb.c`, `lib/list.c` | trees, lists | insert, remove, search | pointer surgery | ordered set, sequence |
| Early memory `memory/earlymem.c`, heap `memory/heap.c` | bitmaps; size classes | allocate, realloc | bitmap inside the memory it describes, handover to the PMM | no page has two holders |
| Init targets `sys/init.c` | completed flags shared by all CPUs | run a stage, reset for the next CPU | dependencies, scopes | dependencies first, each target once per CPU |
| Boot, SMP bring-up `init.c`, `arch/x86_64/init.c` | `cpu_t` in use, CPU being started, its answer | boot, start a CPU, enter the scheduler | the boot processor changes its `cpu_t`, CPUs share the table of targets | one CPU at a time, every one set up, all come up |
| VFS, tmpfs, rdsk `fs/` | mounts, vnodes, files | mount, lookup, create, read, write, truncate, list | `..` across mounts, vnodes made on demand, listings during changes | paths denote nodes, reads return what was written |
| PCI `dev/pci.c` | list of devices, configuration space | enumerate, read BARs | recursion through buses and functions, ownership of structs | every function listed once |
| uACPI glue, vectors, I/O APIC `dev/uacpi.c`, `arch/x86_64/interrupt.c`, `dev/ioapic.c` | vectors, redirection entries, handlers | install, uninstall, raise | vectors reused while a line still names them | vectors keep their owners, and a stale route leads to no other part of the kernel |
| Modules, symbols, ELF `sys/module.c`, `sys/kernel_symbol.c`, `abi/sysv/` | symbol table, regions of modules, the first program | load, link, look up, start | failures at every step, order of linking and protecting | nothing is left over, relocations and rights are right |
| System calls, controllers, graphics, logging, strings | little or none | | device I/O, conversions | |

Interactions: everything allocates from the slabs or the PMM, under spinlocks
that raise `preempt_counter` and `deferred_work_status` of the CPU. Interrupt
handlers queue deferred work; it runs when the last of these counters goes down,
and the timer's work asks for a yield, which happens when `preempt_counter` goes
down. `sched_yield` itself takes such locks and queues the next timer event.
Page table changes end in a shootdown, which needs every CPU to take an
interrupt. `vm.c` keeps regions in red-black trees and backs them through the
page tables; system calls, the loaders, MMIO and uACPI are its clients. Early
memory serves boot until `init()` hands the rest to the PMM; then the init
targets set up everything else, on every CPU. `PROJECT.json` lists the hazards
with their lines.

## 2. Modules

| Module | Models | Used by |
|---|---|---|
| `Allocator` | what an allocator promises: resources move between the owned set and the pool | refined by `Slab` and `Pmm` |
| `Slab` | `memory/slab.c` | `MCSlab`, `SlabProofs` |
| `SlabProofs`, `PmmProofs`, `SchedProofs` (scheduler and mutex), `CpuLocalProofs`, `ServiceProofs` (lists, events, TLB shootdowns), `VfsProofs`, `BootProofs`, `DriversProofs` | theorems (section 5) | |
| `Pmm` | `memory/pmm.c`, the handover in `init.c` | `MCPmm`, `PmmProofs` |
| `TlbShootdown` | `arch/x86_64/tlb.c` | `MCTlbShootdown`, `ServiceProofs` |
| `Sched` | `sched/sched.c`, `sched/reaper.c`, `arch/x86_64/sched.c` | `MCSched`, `Mutex`, `SchedProofs` |
| `Mutex` | `common/lock/mutex.c`, composed with `Sched` | `MCMutex`, `SchedProofs` |
| `CpuLocal` | counters, deferred work, locks, interrupts and yields of one CPU | `MCCpuLocal`, `CpuLocalProofs` |
| `RbTree`, `List` | `lib/rb.c`, `lib/list.c` | `MCContainers`, `ServiceProofs` |
| `Events` | `sys/event.c`, the timer of `arch/x86_64/event.c` | `MCEvents`, `ServiceProofs` |
| `Ptm` | `arch/x86_64/ptm.c` | `Vm` |
| `Vm` | `memory/vm.c` as operators on the state of all address spaces | `VmClients` |
| `VmClients` | `Vm` with its clients: system calls, faults, loaders, MMIO, uACPI, load buffers | `MCVm` |
| `Vnode`, `Tmpfs`, `Rdsk` | vnodes, `fs/tmpfs.c` with `heap_realloc`, `fs/rdsk.c` | `Vfs` |
| `Vfs` | `fs/vfs.c` over both file systems | `MCVfs`, `VfsProofs` |
| `Earlymem`, `InitTargets` | `memory/earlymem.c`, `sys/init.c` | `Boot` |
| `Boot` | `init.c`, `arch/x86_64/init.c`: all CPUs from the loader to the scheduler | `MCBoot`, `BootProofs` |
| `Pci` | `dev/pci.c` | `Uacpi` |
| `Uacpi` | interrupt lines and PCI handles of `dev/uacpi.c`, vectors, I/O APIC | `Drivers` |
| `Loader` | `sys/module.c`, `sys/kernel_symbol.c`, `abi/sysv/elf.c`, the start of the first program | `Drivers` |
| `Drivers` | the three together, in the order of the init stages | `MCDrivers`, `DriversProofs` |

A definition whose comment begins with "Mutant" is a deliberately wrong variant
of the one after it; substituted for it, it makes the property named in
`PROJECT.json` fail. It shows that the property can fail.

Most invariants are conjunctions of named parts (`ObjectsAccounted` is
`OnePlace` and `NoLeak`); the comment on each part says what it states.

### Slab

Variables are the fields of `slab_cache_t` and of its CPU caches; `made` is the
set of slabs the PMM has provided, `allocated` the objects callers own. The
sections under `slabs_lock` and `magazines_lock` are one action, and every turn
of the `alloc:` and `free:` loops is one, with `cc->lock` a variable. Lists are
sets where no property depends on the head. The refinement to `Allocator` maps
`owned` to `allocated` and `pool` to what a later `slab_allocate` can still
reach, so both a double allocation and a leak break it. A caller may free any
object that any caller owns, on any CPU.

### Pmm

Pages are frame numbers. `order` and `free` are the fields of every page's
block, `lists` the free lists. The locked parts of `pmm_alloc` and `pmm_free`
are one action each (`AllocTake` splits, `FreeMerge` merges); what the code does
outside the lock (`AllocMark`, `AllocLoad`, `AllocStore`, `FreeLoad`,
`FreeStore`, `FreeMark`) are actions of their own. `booting` is the loop in
`init.c` that hands every unreserved page over with `pmm_free`. Two histories
record the collisions of overlapping calls: `raced`, a merge that took a buddy
another call had popped and not yet marked, or marked and not yet listed, and
`lost`, a store to `free_page_count` over another's. Nothing but the properties
reads them.

### TlbShootdown

A range is named by the CPU that changes it. `stale[c]` is what CPU `c` may
still have cached. The thread on a CPU (`pc`) and its IPI handler (`handler`)
are separate; a pending interrupt is taken before the next step of the thread.
An IPI may travel for any time after `x86_64_lapic_ipi` returns, past the end of
the shootdown it was sent for too. The history `miscounted` records that a handler
answered the shootdown its own CPU had published.

### Sched and Mutex

`sched_yield` runs with interrupts masked in three steps, pick, switch and drop,
between which other CPUs run. `Mutex` extends `Sched` with one mutex; its
critical sections are actions, except that of `mutex_release`, which schedules a
thread onto another CPU in the middle. Its threads are on any number of CPUs; the
history `raced` records a release that woke a thread still on its CPU, between
`mutex.c:29` and the switch that `mutex.c:30` asks for. Assertions are compiled out of production
builds, so the models go on past them and state them as properties. The kernel
itself starts one user thread per process so far; `Sched` lets a process have
several, which `create_thread` and the drop are written for.

### CpuLocal

Every thread has a stack of the functions it is in, and every access to the
CPU's counters, flags and list is a step, so that an interrupt can come between
any two while interrupts are enabled. `dw_process`, the sections under the three
kinds of spinlocks, `sched_yield` and the soft part of the interrupt handler are
such functions. The hard part is one action, as interrupts are masked. Which
thread is next is left open (that is `Sched`); the first start of a thread
(`common_thread_init`, which enables interrupts before it queues its event) is
not modelled.

### RbTree and List

Both follow the C code pointer by pointer: a container is a record of the fields
of the struct and of the links of its nodes, and every function is an operator
from containers to containers. `order` and `items` are the sequences they stand
for. The other modules use a sequence or a set where the code has a list or a
tree; these runs are what justifies it. `RbTree` uses recursive operators for
the loops, so it is for TLC only.

### Events

Times are relative to now. `timer` is what is left of the armed count; the
product and the division of `arch_event_timer_arm` keep a width (`WIDTH`) and the
register its limit (`MAX_TICKS`). `Tick` lets time pass at any point between two
calls, `TakeInterrupt` and `events_process` are the interrupt. `event_cancel` has
no caller and no handle to be called with, and is left out.

### Ptm, Vm and VmClients

Addresses are page numbers. The levels above the leaf are one level whose entry
covers `TABLE` pages; rights are conjoined over both. `Vm` has an operator for
every function of `vm.c`; `VmClients` has the state and one action per client
operation, whole operations since each holds the lock of its address space.
Ghosts: `asked` (what the owner of each page last asked for) and `dirty` (what
was written). The pool of region structs is counted, and its refill maps a page
into the global address space with a struct of that page itself, in the middle of
another operation if need be. Any range is mapped, unmapped or rewritten, and an
unset `split_base` is any value. The history `vm.amiss` records the five ways in
which `rewrite_common` goes wrong (`Vm.tla` names them, section 4 shows them).

### Vfs

A path is a sequence of components, empty ones included; a vnode is named by
file system, type, index and the number of the copy, so that a vnode made twice
shows. tmpfs files are sequences of bytes; what `heap_realloc` copies from behind
the old buffer is `JUNK`. `reader` is a caller in the middle of a listing.

### Boot

Every CPU walks through its program of steps; the boot processor's includes the
allocations of early memory, the handover and the loop that starts CPUs. The
completed flags of the targets are shared, as in the code; `cpu_t` objects carry
what the targets have set up in them. `BootInfo` leaves the loader's tables open:
order of the targets, order of CPUs, CPUs that fail, page tables each mapping
makes, the memory map, and what memory held before (`junk`, the bits of a bitmap
that `mem_set` does not reach). `Exposed` are the pages of a region's header and
bitmap that `earlymem_region_add` does not mark; when one of them is handed out
the header of a live region is overwritten, and the model ends.

### Pci, Uacpi, Loader and Drivers

`frames` is the call stack of the enumeration, with a bound `DEPTH` (the size of
the kernel stack). Registers have `WIDTH` bits. `Uacpi` has the table of vectors,
the redirection entries and the handles given out; an interrupt that
`kernelapi_interrupt_handler` takes is a call of a null function (`fault`), as no
handler is ever registered (`uacpi.c:359`), and nothing is claimed of handlers
being called. `Loader` links a module in the steps of `module_load`, any of which
may fail. Memory is words of 32 bits, which hold `MAX32` values; a relocation writes
one or two of them, after the checks that `arch_elf_do_relocation_addend` makes
and without those it does not make.
`Drivers` interleaves them: interrupt lines at any time, modules and programs
after enumeration.

## 3. Runs

All runs pass.

| Run | Instance |
|---|---|
| `slab` | 2 CPUs, 2 callers, 5 magazines of 2 rounds, slabs of 3 and 4 objects |
| `pmm` | 10 frames over both zones, orders up to 2, one frame reserved, two callers |
| `tlb` | 3 CPUs, two initiate, any IPI may be late |
| `sched` | 2 CPUs, reaper, 2 kernel and 2 user threads, 1 process |
| `mutex` | 2 CPUs with 2 threads each, SPIN_COUNT 2 |
| `cpu_local` | a user thread and the idle thread, handlers two deep, 2 events |
| `containers` | 9 nodes with 7 different values; lists of up to 4 nodes |
| `events` | 3 requests; delays below a tick, between ticks, above the largest count and above the wrap of the product |
| `vm` | 5 pages of global and 3 of process address space, 3 structs a page, lengths 1 to 3, 2 device addresses |
| `vfs` | a disk of 3 directories and 2 files, up to 3 file systems, 4 tmpfs nodes, files of up to 2 bytes |
| `boot` | 3 CPUs in any order, failed ones among them, 24 orders of the table of 11 targets, any page tables up to one per mapping and more than fit; a memory map of 12 usable pages in regions whose bitmaps fit, and one of 23 in regions of 13, 1 and 9 pages, with any junk |
| `drivers` | 8 machines of up to 2 segments, 2 slots of 2 functions; 3 lines, 2 vectors, 3 handlers; 14 modules, 2 loads, addresses of two words of 16 values; 2 programs |

What they check, property by property:

| Property | States |
|---|---|
| `ObjectsAccounted`, `BookkeepingAgrees`, `LoopServes` | slab: an object is in one place and in reach; depot, magazines and slab lists tell the truth; the `goto` loops end |
| `BlocksIntact`, `FreeListsExact` | pmm: held and free blocks stay apart; free memory is coalesced and counted (until `raced`, `lost`) |
| `ImplementsAllocator` | slab and pmm implement `Allocator` |
| `ShootdownComplete`, `ShootdownFinishes` | tlb: nothing stale at return, every answer counted once; it returns (until `miscounted`) |
| `ThreadsAccounted`, `ProcOutlivesThreads`, `ReadyRuns` | sched: a thread is in one place; a process is reaped after its threads; ready threads run while their CPU keeps yielding |
| `OneOwner`, `WaitersKept` | mutex: mutual exclusion; no waiter is lost, the assertions of `mutex_release` hold, preemption comes back (until `raced`) |
| `AssertionsHold`, `NoSelfDeadlock`, `WorkIsAtomic`, `FaultServed` | cpu_local: counters balance over any nesting; deferred work meets no held lock, is not interrupted by other work; a fault is served before its thread runs on |
| `TreeWellFormed`, `SearchFinds`, `ListIsSequence` | containers: sorted, balanced, linked both ways; every kind of search at every boundary value; a list is a sequence in both directions |
| `EventsKept`, `EventDelivered` | events: a waiting event has a timer and its struct; it is delivered |
| `RegionsAgree`, `SpacesAsAsked`, `TranslationsMatch`, `DataKept` | vm: regions do not overlap and are joined, no struct is lost; every page is as asked and the look-ups know it; the tables grant exactly that; written data stays and is never seen by a later owner (each excuses only the kinds of `vm.amiss` that break it) |
| `TreesAgree`, `PathsResolve`, `ReadsBack`, `ListingMissesNothing` | vfs: trees and mounts agree; paths invert the tree across mounts; files keep their bytes; listings are complete |
| `EarlyMemoryKept`, `TargetsInOrder`, `SetUpAtHandoff`, `AllComeUp` | boot: no page has two holders until the handover, which is exact, but for the pages the code leaves exposed or uncleared; dependencies first, one CPU at a time; every CPU is set up on its final `cpu_t`; all come up |
| `DevicesReported`, `VectorsKept`, `RegionsOwned`, `ModulesReady` | drivers: every function listed once with its BARs; vectors keep their owners and no line leads to another part of the kernel; a failed load leaves nothing mapped; loaded modules are protected, and a link leads to its symbol except where 32 bits cannot reach it |

The bounds make the interesting cases happen. `slab`: seven objects overflow the
four CPU magazines, so the depot is used in both directions and both slabs fill
up; with five or fewer objects nothing ever reaches `magazines_full`. `pmm`: the
carved blocks are 1, 2-3, 4-7 and 8-9, so splitting and merging run over two
levels and stop at `max_order`, at the zone boundary and at a reserved buddy,
with the other caller anywhere in its call. `tlb`: a third
CPU is needed for one that is forgotten while another is counted twice. `sched`:
a queue with two threads and one that exits on the other CPU. `mutex`: three
waiters, so that the hand-over meets both a last and a further one, on its own CPU
and on the other.
`cpu_local`: two handlers are enough for one to run inside the other's work and
return into it; two events bound voluntary yields, forced ones keep the number of
events constant. `containers`: nine nodes reach every case of both repair loops.
`vm`: with three pages a region is split in three; a pool page of three structs
is used up and refilled, next to the region being split as well, and all five
kinds of `vm.amiss` are reached. `boot`: with two CPUs beside the boot processor one
follows the other; memory runs out before, at and after the handover. `drivers`:
two vectors are exhausted and reused; each module fails in another way, and of
those that load some link to symbols near enough for a 32-bit distance and some
to symbols too far.

Constraints. `vm` (`InStep`), `vfs` and `drivers` (`OneConcern`) and
`containers` (in its `Next`) look at one of several independent concerns at a
time, so that states add up and do not multiply; what is left out is only the
combination of, say, a file's contents with a third mount, or of a listing with
many vnodes of the disk in use. `pmm` (`InOrder`), `tlb` (`NotMiscounted`), `mutex`
(`NotRaced`) and `vm` (`vm.amiss = {}` in `InStep`) also end a behaviour in the
state in which a history is first set. That state is still checked; the properties
excuse what comes after it, by their own text and not by the constraint, so
dropping the constraints would only add states. (`lost` is the exception: after a
lost update the count drifts without a bound, so the run stops there, and the rest
of `FreeListsExact` and `BlocksIntact` after it is left to the proof.) Deadlock
checking is off in `slab`, `pmm`, `vm` and `boot`, since exhausted memory is a panic
and boot ends, in `mutex`, where two idle CPUs really may stop (section 4), and in
`drivers`, which ends when a bound is reached.

Fairness. `TlbShootdown`: CPUs do not stop, boot ends, and an IPI that was sent
arrives; the spinlock is not fair and nothing is assumed about who gets it.
`Sched`: a CPU finishes the yield it has begun (interrupts are masked), and nothing
else. In particular no fairness of preemption: a window in `sched_preempt_dec`
(section 4) is where the kernel loses it. `ReadyRuns` has it as its hypothesis
instead, that the thread's CPU enters `sched_yield` again and again, and is thereby a
statement about the run queues. `Events`: time passes, and a CPU takes a
pending interrupt and finishes its handler. `Boot`: a CPU that has been started
and has not failed goes on.

## 4. Where the code falls short

The model follows the code into each of the following. Where a history records it,
the property holds up to that step, so the history marks exactly where the promise
ends: take the disjunct of the history out of the property, and the constraint out
of the configuration, and TLC shows the behaviour.

* `raced` of `Pmm`, in `BlocksIntact`: `pmm_alloc` drops `zone->lock` before it
  clears `block->free`, and `pmm_free` sets `block->free` before it takes the lock;
  a `pmm_free` of the buddy merges the block that was just allocated, or that is on
  no list yet (`pmm.c:109-112`, `pmm.c:135-140`), against "unallocated = used by
  pmm" (`include/memory/pmm.h:32`). `lost`: `free_page_count` is read and written
  without the lock (`pmm.c:113`, `pmm.c:133`).
* `miscounted` of `TlbShootdown`: the initiator resets its own status too
  (`tlb.c:67`); an IPI left from an earlier shootdown makes it answer itself, so it
  is counted twice and returns while another CPU still has the range cached.
* `Sched`: nothing schedules the reaper after it has blocked (`reaper.c:52`),
  although `include/sched/reaper.h:9` offers to queue a thread onto it. Nothing is
  claimed of the dead being reaped.
* `raced` of `Mutex`: on two CPUs the waiter can be scheduled before it has
  yielded, the race `mutex.c:29` asks about. The same path yields with
  `preempt_counter` raised (`mutex.c:30`), against the assertion in `sched.c:43`, in
  every behaviour in which a thread waits: `YieldAsserts` of `Sched`, which includes
  that assertion, is therefore claimed of `Sched` and not of `Mutex`. The counter is
  the CPU's and stays raised while the waiter sleeps, so a CPU that meanwhile runs
  its idle thread is not preempted for the threads that become ready on it, the one
  that was handed the mutex among them (remove `CHECK_DEADLOCK FALSE` from
  `MCMutex.cfg` to see both CPUs stop). `PreemptBalanced` says that the counter comes
  back with the waiters.
* `MCCpuLocal.cfg` with the invariant `YieldFlagProcessed` or `WorkProcessed`: an
  interrupt in a window of one instruction (`sched.c:74-75`) or of a few
  (`dw.c:47-49`) leaves the yield flag or a work item unprocessed until the next
  lock is released or the next interrupt comes (`include/sched/sched.h:33`,
  `include/sys/dw.h:29`). As the timer is armed again only by `sched_yield`, user
  code that makes no system call keeps the CPU until then.
* `vm.amiss`: a range that ends in a hole rewrites the region behind it, since the
  length of the split wraps (`behind`, `vm.c:396`), or cuts that region into nothing
  and itself when it begins where the range ends (`empty`); an unmap that ends
  inside a later region puts the rest at an unset address (`unset`, `vm.c:415`). A
  refill of the pool for a clone (`vm.c:355`, `vm.c:362`, `vm.c:410`) maps its page
  next to the region being split, which `region_insert` then extends, so that the
  page is cut off with it (`forgotten`), or frees (`freed`). `SpacesAsAsked` holds
  until one of them is met, the others of `vm` but for the kinds they name.
* `MCVm.cfg`, `TABLE = 2`: `TranslationsMatch` fails. An absent table is skipped
  by its full span from an address that need not be aligned (`ptm.c:271`), so
  pages behind it are skipped too.
* `Exposed` and `UnclearedPages` of `Boot`, in `EarlyMemoryKept`: `BITMAP_SIZE`
  rounds down and leaves the header out (`earlymem.c:12`, `earlymem.c:39`). A region
  of fewer than eight pages marks none of its own, and its first page, with the
  header, is given to whoever asks first; a bitmap that fills its pages reaches one
  further with the header. Up to seven bits at the end are not cleared
  (`earlymem.c:38`), and pages may be lost to what memory held before.
* `MCVfs.cfg`, `STACKED = TRUE`: `PathsResolve` fails. Mounts are crossed once for
  every character of a component (`vfs.c:103`); one on the root of a mounted file
  system may be missed.
* `Boot` after the handover: `g_earlymem_active` is never cleared (`ptm.c:84`), so
  page tables still come from early memory, out of pages the PMM has been given.
  `EarlyPagesApart` is therefore about the time before; afterwards such a page
  has the holders "table" and whoever the PMM gave it to.
* `Pci`: the secondary bus is read as `readb(...) >> 8` (`pci.c:257`), which is 0:
  a bridge on bus 0 is enumerated without end. The model stops at `DEPTH`, and
  `DevicesListed` is about machines without a bridge. The device of an empty slot
  is never freed (`pci.c:275`); `DevicesKept` names these as the only ones lost.
* `Uacpi`: `g_interrupt_handlers` is never filled, as its comment says
  (`uacpi.c:359`), so every interrupt of an installed handler calls a null function.
  Uninstalling leaves the line routed (`uacpi.c:387`), and it may lead to the next
  owner of the vector. `VectorsKept` claims only that it leads nowhere else.
* `Near` of `Loader`, in `ModulesLinked`: PC32 and PLT32 relocations store four bytes
  without a check (`elf.c:37-41`, `elf.c:57`), so a link to a symbol out of their
  reach is accepted and leads astray.

Read in the code and not stated as properties: a zone that is exhausted is a
panic (`pmm.c:99`); a process is linked into two lists with one node when it is
reaped (`reaper.c:69`); anonymous frames are not freed on unmap (`vm.c:103`);
`heap_realloc` copies the larger of both sizes (`heap.c:60`); the cleanups of ELF
headers pass the size of a pointer to `heap_free` (`module.c:23`, `elf.c:25`);
`pci_write` of part of a register clobbers the rest (`pci.c:221`); uACPI is given
a `pci_device_t` where a `pcie_device_t` is read (`uacpi.c:64`); its wait for an
event returns when the counter is zero (`uacpi.c:339`); a failed mount is linked
all the same (`vfs.c:14`); a symbol of a section without contents is an assertion,
not a refusal (`module.c:151`); a program whose program headers cannot be read is
started without their address (`arch/x86_64/init.c:321`), and the path of the
interpreter is never freed (`arch/x86_64/init.c:295-314`).

## 5. Proofs

A run shows a property for one instance; the theorems below show it for every
value of the constants that satisfies the named assumptions of the component's
module. The MC modules evaluate those assumptions. Every inductive invariant was
checked by TLC on the run's instance before it was proved.

| Theorem | Property | For every |
|---|---|---|
| `SlabProofs`: `ObjectsStayAccounted`, `BookkeepingStays`, `LoopsServe`, `Refinement` | `ObjectsAccounted`, `BookkeepingAgrees`, `LoopServes`, `ImplementsAllocator` | set of CPUs, callers, slabs, objects, magazines, and `MAGAZINE_SIZE` |
| `PmmProofs`: `BlocksStayIntact`, `ListsStayExact`, `Refinement` | `BlocksIntact`, `FreeListsExact`, `ImplementsAllocator` | memory map, zone boundary, set of reserved pages, `PMM_MAX_ORDER` up to 64, finite set of callers |
| `ServiceProofs`: `ShootdownIsComplete` | `ShootdownComplete` | number of CPUs, any of which may initiate |
| `SchedProofs`: `ThreadsStayAccounted`, `ProcsOutliveThreads` | `ThreadsAccounted`, `ProcOutlivesThreads` | set of CPUs, threads, processes |
| `SchedProofs`: `MutexHasOneOwner`, `WaitersAreKept` | `OneOwner`, `WaitersKept` | set of CPUs, finite set of threads, `SPIN_COUNT` |
| `CpuLocalProofs`: `AssertionsAlwaysHold`, `NeverSelfDeadlocks`, `WorkAlwaysAtomic`, `FaultsAlwaysServed` | `AssertionsHold`, `NoSelfDeadlock`, `WorkIsAtomic`, `FaultServed` | set of threads, depth of nesting, number of interrupts and other events |
| `ServiceProofs`: `EventsAreKept` | `EventsKept` | set of requests and delays, tick, frequency, width, limit |
| `ServiceProofs`: `ListStaysSequence` | `ListIsSequence` | finite set of nodes |
| `VfsProofs`: `TreesAlwaysAgree`, `AlwaysReadsBack`, `ListingsMissNothing` | `TreesAgree`, `ReadsBack`, `ListingMissesNothing` | archive, set of names and paths, number of file systems, nodes and bytes; roots of mounts covered or not (`STACKED`) |
| `BootProofs`: `TargetsAlwaysInOrder`, `AlwaysSetUpAtHandoff` | `TargetsInOrder`, `SetUpAtHandoff` | set of CPUs, of which any may have failed and any may boot; set of targets whose dependencies have no cycle, in any order of the table; memory map and number of segments |
| `DriversProofs`: `VectorsStayKept`, `RegionsStayOwned` | `VectorsKept`, `RegionsOwned` | machine, number of vectors, lines and handles, set of modules and programs |
| `DriversProofs`: `RightsStayAsLinked` | `RightsAsLinked`, a part of `ModulesReady` | the same |

No theorem restricts who runs when: calls of the PMM overlap, IPIs are late, mutexes
are used across CPUs. Where the code's promise ends (section 4) a history says so,
and the theorem speaks of every behaviour up to that step. What is proved of these
three is a little more than a property with a disjunct: each step that does not set
the history keeps the whole invariant, so the recorded step is the only way to break
it.

### Slab

The parts of the two invariants are theorems of their own: `TypeCorrect`,
`NoDoubleAllocation` (`OnePlace`), `NothingLeaks` (`NoLeak`), `DepotIsSorted`,
`MagazinesHaveOneHome`, `SlabListsAgree`. Assumed: a slab holds at least one
object, the set of objects is finite, `slab_cache_create` gives no magazine to
two CPUs or roles, `NoObject` is no object.

None of the invariants is inductive alone. `IInv` is their conjunction with
three more: `Carrying` (who is in `slab_free` has an object), `OnlyMade`
(objects of slabs that do not exist yet are nowhere, so that a new slab's objects
are new) and `FillPhase` (nobody calls before the primaries are full, and one
being filled has room). The key dependency is between `DepotSorted` and `NoLeak`:
the secondary magazine goes to the empty list unread, and loses nothing only
because it is full or empty, and it is not full because the code has looked.
There is one lemma per action (`AllocPopStep`, `FreePushStep`, `MagazineSteps`
for the swaps and exchanges, `DirectAllocStep`, ...), each giving `IInv'` and
whether the step is an allocation, a free or a stutter of `Allocator`;
`PoolIsTheRest` turns the refinement mapping into a complement.

### Physical memory

Three layers. *Arithmetic*: `Head(p, k)` is the block of order k around p.
`BuddyIs` says that a block and its buddy are the two halves of the block of the
next order; `Parts`, that a block of order v consists of the one of order k around
p and of the buddies of p at the orders between, which is what both the split loop
and the merge loop walk along. That 2^(k+1) is twice 2^k comes from counting
subsets (`Power`), and what would be an induction over k or over pages is an
argument about the least exception (`LeastExists`). *Carving*: the blocks that
`pmm_region_add` makes are aligned, lie in one zone and cover it (`AllCarved`,
`CarvedToEnd`), so everything within `max_order` of a page is in its zone
(`Around`). *The invariant*: the properties as such are not inductive. `Blocks`
adds that the block of a call in progress is apart from all others, that blocks
are aligned and inside a carved one (`Fits`), and `NoGhosts`. The merge loop
believes `free` and `order` of the buddy it looks at, and pages inside a block
keep old values of both; `NoGhosts` says that a page that looks like a free block,
aligned to its order, is on a list. The merge keeps it because it raises the order
of both halves, so that the upper one has an order it is not aligned to. With calls
that overlap, `NoGhosts` has an exception: the block of a call that has yet to be
marked used, or to be put on its list. A merge that meets one of those is the step
`raced` records (`MergesUnlisted`), and the only one that breaks the invariant.
`Counted` says by how much `free_page_count` differs from the lists while calls are
under way, unless an update was `lost`.
`IsSplit` and `IsMerge` collect what a split and a merge do, `SplitKeeps` and
`MergeKeeps` show that they preserve `Blocks` and `Coalesced`, and there is one
lemma per action that also says which step of `Allocator` it is.

### TLB shootdown

`ShootdownComplete` holds at the moment of return, so the invariant has to say
what the count means on the way. `Done(c)` is the set of CPUs that have answered
the shootdown of `c`; `Counted` says that `complete_count` is its size, `Answers`
that its members no longer have the range cached. An old IPI could make a CPU
answer twice or to the wrong shootdown; `Quiet` excludes it for all but one: between
two shootdowns whoever an IPI may still reach has its status set and ignores it,
unless the last shootdown was its own. That CPU answers itself if it is the next to
publish, which is the step `miscounted` records; if another publishes first, its old
IPI is an answer like any other. Every other step keeps the invariant.

### Scheduler

`Home[t]` reduces "in one place" to one CPU: the queue and the three thread
pointers of its `sched_yield`. `Located` gives the state of a thread wherever it is
found, `Found` the place for each state, `Phases` what `sched_yield` knows between
pick, switch and drop, and `Queues` that nothing is linked twice. `Listed` (a
process lists exactly the threads created and not dropped) and `Gone` (a process
the reaper has lists none, and has had one) give `ProcOutlivesThreads`; without
the second half of `Gone` a process could be reaped before its first thread.
Assumed (`ThreadAssumption`, `InitialAssumption`): every thread is tied to one
CPU, no two CPUs share an idle thread, and boot queues on each CPU distinct
kernel threads of that CPU; the reaper is a kernel thread.

### Mutex

`MInv` is the scheduler's invariant, with `Found` weakened to `AllFound` (the
thread a releaser is about to schedule is in no queue), and the mutex's own:
`Counts` and `Masked` (who holds `mutex->lock` or is about to block has raised
`preempt_counter` and keeps the CPU), `Waiters` (who is in the wait queue is about
to block or has), `Wakes` (what `mutex_release` has in its hands between its two
halves). That the woken thread has left its CPU, which `Wakes` needs, is what
`raced` records the contrary of; every step that does not set it keeps `MInv`, on any
number of CPUs.

### Counters of a CPU

`preempt_counter` and `deferred_work_status` do not say who raised them, so none
of the four properties can be shown from the counters alone. `CpuInv` relates
them to the stack of the thread that runs: each counter is the number of functions
on the stack that have raised it and not yet lowered it, interrupts are enabled
exactly when no function has masked them, a lock is held exactly when a function
between its acquire and its release is there (`Agrees`). What makes this inductive
is that the stack itself is well formed: `Fits` says on which stack each function
may be called (`dw_process` only where nobody has disabled deferred work,
`sched_yield` only where nobody has raised `preempt_counter`, ...), `Stacked` that
this holds at every level. A thread that does not run stands in `sched_yield`,
where both counters are zero, so that the counters, which belong to the CPU, agree
with the next thread's stack at once. `StackSplits`, `CountAppend`,
`StackedAppend` and `AgreesAppend` reduce each step to the last one or two
functions of the stack; the depth plays no part in it.

### Events

The invariant adds that the tree is sorted (`SortedEvents`), so the event that
`event_queue` and `events_process` look at is the earliest, and holds no request
twice. `TicksBound` is the arithmetic of `arch_event_timer_arm`: neither the wrap
of the product nor the clamp of the quotient makes the count run past the delay,
but for the one tick that a shorter delay is given.

### List

`ListIsSequence` is about walks along the links. `IsList` is local: the neighbours
each node names are those it has in the sequence, head and tail are its ends, no
node occurs twice. `InsertKeeps` and `DeleteKeeps` treat all insertions as a node
in a gap and all removals as one; `AppendNode`, `PrependNode`, `InitialNode` and
`DeleteNode` show that the pointer writes of `list.c` are such. A walk is a
recursive function, which the library cannot unfold by induction; `WalkReads` shows that
the sequence solves its equation, and that every solution agrees with it, by
looking at the least index where it would not (`LeastExists`).

### File systems

`VfsInv` has three parts. `FsOK` says that the file systems are in order:
`NodesKnown` (every node has one vnode, and a tmpfs's counter is ahead of its
indices), `Trees` (parent and children name each other, and no directory has two
children of one name) and `Mounts` (a covered directory and what covers it name
each other, and a mount always leads to a later file system). `Bytes` relates each
buffer to what was written to it: same length, and equal wherever something was
written. `Reading` is the invariant behind a listing: what was there when it began
has been seen or is `Ahead` of the offset, which for a tmpfs is the rest of the
list of children and for a disk the rest of the files and of the directories.
`Reading` survives creation because nodes are added in front: what is ahead moves
away from the reader (`Shifted`), so that an entry may be shown twice but none is
passed over.

A look-up makes vnodes, and may create a node, on its way. Every operation it is
composed of is shown to keep `FsOK` and only to add (`Grows`), from `GetNode` and
`NodeMade` up to `TurnReturns`. The loop over the components and the lists of an
archive are recursive functions; `TurnsExist` and `ChainExists` show that their
equations have a solution, by looking at the least number of turns without one, or
at an entry without a list whose `next_index` has one.

Assumed: `RdskAssumption`, that the archive is of the revision `rdsk_mount` supports
(it returns an error otherwise, which `vfs_mount` ignores, `vfs.c:14`), that its
tables refer to their own entries and that `next_index` reaches the end of the list from every entry
(`rdsk_mount` checks nothing but the revision; a cycle would make `find_dir` and
`rdsk_readdir` go on for ever);
`VfsAssumption` and `NoneAssumption`, the types of the callers' paths and that
`NONE` is none of the values it stands beside. `Text` is the set of strings; it
names the literals of the model because the provers do not know that they are
strings.

### Boot

*Targets*: what `run_target` visits is a recursive function over dependencies,
which the library cannot unfold. `VisitsExist` shows that its equation has a
solution, by joining solutions on sets of targets that contain what they depend
on; in a set of targets that are in none, one depends on no other of the set and
can be added. The same argument about a minimal exception shows that the visits
of a target contain it, behind all it depends on (`Closed`). `FlattenSeq` is read
through its partial results (`PartialExists`, `FlattenHas`).

*Invariant*: `Turns` says that at most one CPU is between its wake-up and its
answer, and that the boot processor waits meanwhile; `Quiet`, that the others have
nothing to do; hence one CPU at a time is `Active` on the shared table
(`OneActive`). `FlagsMatch` is the meaning of the shared flags: for the active CPU,
and the targets of its scope, a flag says that this CPU has run the target.
`init_reset_ap` makes it true for the next CPU: it clears exactly the flags of
what that CPU has still to run. `StagesRun` (a target of an entered stage has been
run or is still to be visited) and `VisitsClosed` give `DependenciesFirst`, and
`Recorded` follows the record through the change of `cpu_t`. `BspIsThrough` says
that a target only the boot processor runs has been run before any other CPU
comes up. `MemoryKeeps` shows that none of this depends on early memory.

Assumed: `DependencyAssumption`, that dependencies have no cycle (with one,
`run_target` would recurse without end) and that none leads from a target of the
boot processor to one that only the others run (every target of the repository
is of scope `BSP` or `ALL`); `BootAssumption`, that the CPUs have different ids and
that the linker's table holds the targets.

### Drivers

`VectorsInv` adds to `VectorsOwned` that every line that was ever routed, the stale
ones too, names a vector of the normal priority, and that these are free or uACPI's
(`NormalVectors`): uninstalling leaves the redirection entry, so what keeps it
harmless is where vectors come from, not who has them now. `RegionsInv` names, for
each step of `module_load`, the regions the loader holds, so that every failing step
can be seen to release exactly those. Both are
about `Drivers`, where enumeration, lines, modules and programs interleave.

### Only model-checked

* Liveness (`ShootdownFinishes`, `ReadyRuns`, `EventDelivered`, `AllComeUp`):
  fairness and `ENABLED` are beyond the proof system.
* `RbTree`, `Vm` and `VmClients`: their loops are RECURSIVE operators, in whose
  presence the SMT backend is lost.
* `DevicesReported`: what the call stack of the enumeration still has to visit
  would have to be related to what it has listed, and the sizes of base address
  registers to powers of two. The rest of `ModulesReady`: `ModulesLinked` holds for
  relocations that stay in their sections and overlap no other (`Apart`), which
  `module_load` does not check, and involves arithmetic modulo 2^64; `SymbolsFound` for symbol tables that are sorted,
  which `kernel_symbols_load` takes on trust.
* `EarlyMemoryKept`: the bitmaps are sized by a search over page counts, and the
  regions are folded into a list; not attempted.
* `PathsResolve`: compares a look-up with the tree along a path of any length, which
  is an induction over data.

## 6. Not modelled

* Weak memory: accesses are sequentially consistent, as the code's atomics and
  x86 locks make them for what the models share.
* Large pages and their splitting (`ptm.c:109-135`): no caller maps one once the
  direct map exists.
* Operations of `vm.c` that overlap in time: each holds the lock of its address
  space, except the copies of `vm_copy_to` and `vm_copy_from`, which are atomic
  here and not there (`vm.c:486`).
* The rest of the uACPI glue (ports, tables, mutexes, events, logging), timers
  other than the local APIC's, GDT, TSS, FPU and MSR set-up: registers that are
  programmed once, or thin adapters.
* Strings, formatting, graphics, terminal, logging, sanitizer, profiler: output
  and conversions without state that another part relies on.

Components without a module are listed in `PROJECT.json` with the reason.

## 7. Plan

1. The part of `EarlyMemoryKept` before the handover.
2. `ModulesLinked` of `Loader`, for well-formed files.
