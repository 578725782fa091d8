------------------------------ MODULE CpuLocal ------------------------------
(***************************************************************************)
(* What one CPU does with its own counters: sched_preempt_inc/dec of       *)
(* sched/sched.c, the deferred work of sys/dw.c, the locks of              *)
(* common/lock/spinlock.c and x86_64_interrupt_handler, which nests.       *)
(*                                                                         *)
(* The CPU runs the thread `current`; every thread has a stack of the      *)
(* kernel functions it is in, the running one last.  A step is one access  *)
(* to the state of the CPU, and an interrupt is taken between any two      *)
(* steps while interrupts are enabled.  Work is queued by interrupt        *)
(* handlers only: the timer's queues sched_entry, the page fault's queues  *)
(* vm_fault_soft, others queue nothing.  The scheduler's choice of a       *)
(* thread is in module Sched; here it is any thread.                       *)
(***************************************************************************)
EXTENDS Naturals, Sequences, FiniteSets

CONSTANTS
  Thread, Idle,   \* the threads of this CPU, Idle its idle thread
  MAX_NEST,       \* bound: interrupt handlers inside one another
  MAX_EVENTS      \* bound: events outstanding when a thread yields by itself

ASSUME Idle \in Thread

VARIABLES
  current,                \* arch.current_thread
  stack,                  \* stack[t]: the functions thread t is in
  interrupts,             \* the interrupt flag of the CPU
  preempt_counter,        \* sched.status.preempt_counter
  yield_immediately,      \* sched.status.yield_immediately
  deferred_work_status,   \* flags.deferred_work_status
  in_interrupt_soft,      \* flags.in_interrupt_soft
  dw_items,               \* the deferred work queued on the CPU
  events,                 \* how many sched_entry events wait for the timer
  held                    \* the locks that are held

flags == <<preempt_counter, yield_immediately, deferred_work_status, in_interrupt_soft>>
vars == <<current, stack, interrupts, flags, dw_items, events, held>>

(* A function on a stack: where it is, and the interrupt state it restores *)
(* when it returns.                                                        *)
Frame(label, state) == [pc |-> label, restores |-> state]
Base == Frame("user", TRUE)

Top == stack[current][Len(stack[current])]
At(label) == Top.pc = label
Below == SubSeq(stack[current], 1, Len(stack[current]) - 1)

Goto(label) == stack' = [stack EXCEPT ![current] = Below \o <<[Top EXCEPT !.pc = label]>>]
Call(label, callee) ==
  stack' = [stack EXCEPT ![current] = Below \o <<[Top EXCEPT !.pc = label], Frame(callee, FALSE)>>]
Return == stack' = [stack EXCEPT ![current] = Below]

(* The thread runs user code; the idle thread waits for an interrupt.  The *)
(* other threads are in sched_yield.                                       *)
Init ==
  /\ current \in Thread \ {Idle}
  /\ stack = [t \in Thread |-> IF t = current THEN <<Base>> ELSE <<Base, Frame("resume", TRUE)>>]
  /\ interrupts = TRUE
  /\ preempt_counter = 0 /\ yield_immediately = FALSE
  /\ deferred_work_status = 0 /\ in_interrupt_soft = FALSE
  /\ dw_items = <<>>
  /\ events = 1
  /\ held = {}
---------------------------------------------------------------------------
(* The counters.                                                           *)

PreemptInc(label, next) ==
  /\ At(label) /\ Goto(next)
  /\ preempt_counter' = preempt_counter + 1
  /\ UNCHANGED <<current, interrupts, yield_immediately, deferred_work_status,
                 in_interrupt_soft, dw_items, events, held>>

(* sched_preempt_dec reads the count and, if it is the last, exchanges     *)
(* yield_immediately with false ...                                        *)
DecExchange ==
  /\ At("dec")
  /\ \/ /\ preempt_counter = 1
        /\ Goto(IF yield_immediately THEN "dec_yield" ELSE "dec_return")
        /\ yield_immediately' = FALSE
     \/ preempt_counter # 1 /\ Goto("dec_return") /\ UNCHANGED yield_immediately
  /\ UNCHANGED <<current, interrupts, preempt_counter, deferred_work_status,
                 in_interrupt_soft, dw_items, events, held>>

(* ... and decrements the counter, then yields or returns.                 *)
Dec ==
  /\ \/ At("dec_yield") /\ Goto("yield")
     \/ At("dec_return") /\ Return
  /\ preempt_counter' = preempt_counter - 1
  /\ UNCHANGED <<current, interrupts, yield_immediately, deferred_work_status,
                 in_interrupt_soft, dw_items, events, held>>

(* Mutant: deferred work is enabled and not processed.                     *)
dw_status_enable_only(label, next) ==
  /\ At(label) /\ Goto(next)
  /\ deferred_work_status' = deferred_work_status - 1
  /\ UNCHANGED <<current, preempt_counter, yield_immediately, dw_items, events, held>>

(* dw_status_enable: whoever makes the status zero processes the work.     *)
dw_status_enable(label, next) ==
  /\ At(label)
  /\ IF deferred_work_status = 1 THEN Call(next, "process") ELSE Goto(next)
  /\ deferred_work_status' = deferred_work_status - 1
  /\ UNCHANGED <<current, preempt_counter, yield_immediately, dw_items, events, held>>
---------------------------------------------------------------------------
(* dw_process.                                                             *)

(* Mutant: works with the status left at zero.                             *)
ProcessBeginOpen ==
  /\ At("process") /\ Goto("scan")
  /\ UNCHANGED <<current, interrupts, flags, dw_items, events, held>>

ProcessBegin ==
  /\ At("process") /\ Goto("scan")
  /\ deferred_work_status' = deferred_work_status + 1
  /\ UNCHANGED <<current, interrupts, preempt_counter, yield_immediately,
                 in_interrupt_soft, dw_items, events, held>>

(* Between the look at the list and the pop only interrupt handlers run,   *)
(* and they add work; the pop has interrupts masked.                       *)
ProcessCheck ==
  /\ At("check")
  /\ \/ dw_items = <<>> /\ Call("scan_done", "dec") /\ UNCHANGED dw_items
     \/ dw_items # <<>> /\ Call(Head(dw_items), "dec") /\ dw_items' = Tail(dw_items)
  /\ UNCHANGED <<current, interrupts, flags, events, held>>

(* The functions.  sched_entry raises the flag and its item is freed in    *)
(* the slab, under a lock; vm_fault_soft maps a page, under locks.         *)
RunItem ==
  /\ \/ At("sched_entry") /\ yield_immediately' = TRUE
     \/ At("vm_fault_soft") /\ UNCHANGED yield_immediately
  /\ Call("scan", "inc")
  /\ UNCHANGED <<current, interrupts, preempt_counter, deferred_work_status,
                 in_interrupt_soft, dw_items, events, held>>

(* Mutant: returns with deferred work disabled.                            *)
ProcessDoneDisabled ==
  /\ At("scan_done") /\ Return
  /\ UNCHANGED <<current, interrupts, flags, dw_items, events, held>>

(* The list was empty: enable deferred work without another look.          *)
ProcessDone ==
  /\ At("scan_done") /\ Return
  /\ deferred_work_status' = deferred_work_status - 1
  /\ UNCHANGED <<current, interrupts, preempt_counter, yield_immediately,
                 in_interrupt_soft, dw_items, events, held>>

dw_process ==
  \/ ProcessBegin \/ PreemptInc("scan", "check") \/ ProcessCheck \/ RunItem \/ ProcessDone
---------------------------------------------------------------------------
(* Locks: "nodw" is taken by threads and by deferred work, "plain" by      *)
(* threads only.                                                           *)

(* Mutant: spinlock_acquire_nodw leaves deferred work enabled.             *)
StatusDisableNot ==
  /\ At("disable") /\ Goto("acquire")
  /\ UNCHANGED <<current, interrupts, flags, dw_items, events, held>>

StatusDisable ==
  /\ At("disable") /\ Goto("acquire")
  /\ deferred_work_status' = deferred_work_status + 1
  /\ UNCHANGED <<current, interrupts, preempt_counter, yield_immediately,
                 in_interrupt_soft, dw_items, events, held>>

Acquire(label, next, lock) ==
  /\ At(label) /\ lock \notin held /\ Goto(next)
  /\ held' = held \cup {lock}
  /\ UNCHANGED <<current, interrupts, flags, dw_items, events>>

Release(label, next, lock) ==
  /\ At(label) /\ Goto(next)
  /\ held' = held \ {lock}
  /\ UNCHANGED <<current, interrupts, flags, dw_items, events>>

(* spinlock_acquire_nodw ... spinlock_release_nodw.                        *)
NodwSection ==
  \/ PreemptInc("inc", "disable") \/ StatusDisable
  \/ Acquire("acquire", "release", "nodw") \/ Release("release", "enable", "nodw")
  \/ dw_status_enable("enable", "dec") /\ UNCHANGED <<interrupts, in_interrupt_soft>>

(* spinlock_acquire ... spinlock_release.                                  *)
PlainSection ==
  \/ PreemptInc("plain_inc", "plain_acquire")
  \/ Acquire("plain_acquire", "plain_release", "plain")
  \/ Release("plain_release", "dec", "plain")

(* spinlock_acquire_noint ... spinlock_release_noint: the same with        *)
(* interrupts masked around it.                                            *)
NointSection ==
  /\ \/ /\ At("mask") /\ interrupts' = FALSE
        /\ stack' = [stack EXCEPT ![current] =
                       Below \o <<Frame("unmask", interrupts), Frame("inc", FALSE)>>]
     \/ At("unmask") /\ interrupts' = Top.restores /\ Return
  /\ UNCHANGED <<current, flags, dw_items, events, held>>
---------------------------------------------------------------------------
(* sched_yield.  The sections under locks are those of sched_thread_next,  *)
(* sched_thread_schedule (for a thread that stays ready) and, in           *)
(* event_queue, of the slab: the item's and those of other events.         *)

YieldMask ==
  /\ At("yield")
  /\ interrupts' = FALSE
  /\ stack' = [stack EXCEPT ![current] =
                 Below \o <<Frame("switch", interrupts), Frame("inc", FALSE)>>]
  /\ UNCHANGED <<current, flags, dw_items, events, held>>

(* The idle thread stays when there is no other; any thread that is not    *)
(* running is in sched_yield, after the switch.                            *)
YieldSwitch ==
  /\ At("switch")
  /\ \/ \E t \in Thread \ {current} : current' = t /\ Goto("resume")
     \/ current = Idle /\ Goto("event") /\ UNCHANGED current
  /\ UNCHANGED <<interrupts, flags, dw_items, events, held>>

YieldDrop ==
  /\ At("resume")
  /\ Goto("event") \/ Call("event", "inc")
  /\ UNCHANGED <<current, interrupts, flags, dw_items, events, held>>

(* arch_sched_preempt queues the next sched_entry.                         *)
YieldEvent ==
  /\ \/ (At("event") \/ At("event_more")) /\ Call("event_more", "inc")
        /\ UNCHANGED <<interrupts, events>>
     \/ At("event_more") /\ Return /\ events' = events + 1 /\ interrupts' = Top.restores
  /\ UNCHANGED <<current, flags, dw_items, held>>

sched_yield == YieldMask \/ YieldSwitch \/ YieldDrop \/ YieldEvent
---------------------------------------------------------------------------
(* x86_64_interrupt_handler.                                               *)

HandlersOn(t) == Cardinality({ i \in DOMAIN stack[t] : stack[t][i].pc \in {"soft", "soft_done", "iret"} })

(* The hard part, with interrupts masked: queue the items.                 *)
Interrupt(items) ==
  /\ preempt_counter' = preempt_counter + 1
  /\ deferred_work_status' = deferred_work_status + 1
  /\ in_interrupt_soft' = TRUE
  /\ dw_items' = items \o dw_items
  /\ stack' = [stack EXCEPT ![current] = Append(@, Frame("soft", interrupts))]
  /\ interrupts' = TRUE
  /\ UNCHANGED <<current, yield_immediately, held>>

(* The timer: events_process queues the sched_entry of every event that is *)
(* due.  Others, such as the TLB shootdown's, queue nothing.               *)
TakeInterrupt ==
  /\ interrupts /\ HandlersOn(current) < MAX_NEST
  /\ \/ \E n \in 1..events :
          Interrupt([i \in 1..n |-> "sched_entry"]) /\ events' = events - n
     \/ Interrupt(<<>>) /\ UNCHANGED events

(* A page fault of user code: vm_fault queues the thread's item.           *)
PageFault ==
  /\ At("user") /\ current # Idle
  /\ Interrupt(<<"vm_fault_soft">>)
  /\ UNCHANGED events

(* The soft part, with interrupts enabled, is dw_status_enable; then mask, *)
(* clear the flag, sched_preempt_dec and return.                           *)
InterruptExit ==
  \/ dw_status_enable("soft", "soft_done") /\ UNCHANGED <<interrupts, in_interrupt_soft>>
  \/ /\ At("soft_done") /\ Call("iret", "dec")
     /\ interrupts' = FALSE /\ in_interrupt_soft' = FALSE
     /\ UNCHANGED <<current, preempt_counter, yield_immediately, deferred_work_status,
                    dw_items, events, held>>
  \/ At("iret") /\ Return /\ interrupts' = Top.restores
     /\ UNCHANGED <<current, flags, dw_items, events, held>>
---------------------------------------------------------------------------
(* What system calls do, with interrupts enabled: sections under the three *)
(* kinds of locks, and yielding.                                           *)
SystemCall ==
  /\ At("user") /\ current # Idle
  /\ \/ \E entry \in {"inc", "plain_inc", "mask"} : Call("user", entry)
     \/ events < MAX_EVENTS /\ Call("user", "yield")
  /\ UNCHANGED <<current, interrupts, flags, dw_items, events, held>>

Next ==
  \/ DecExchange \/ Dec \/ dw_process
  \/ NodwSection \/ PlainSection \/ NointSection
  \/ sched_yield
  \/ TakeInterrupt \/ PageFault \/ InterruptExit
  \/ SystemCall

Spec == Init /\ [][Next]_vars
---------------------------------------------------------------------------
(* Properties.                                                             *)

Label == {"user", "dec", "dec_yield", "dec_return", "process", "scan", "check", "scan_done",
          "sched_entry", "vm_fault_soft", "inc", "disable", "acquire", "release", "enable",
          "plain_inc", "plain_acquire", "plain_release", "mask", "unmask", "yield", "switch",
          "resume", "event", "event_more", "soft", "soft_done", "iret"}

TypeOK ==
  /\ current \in Thread
  /\ stack \in [Thread -> Seq([pc : Label, restores : BOOLEAN])]
  /\ interrupts \in BOOLEAN /\ yield_immediately \in BOOLEAN /\ in_interrupt_soft \in BOOLEAN
  /\ preempt_counter \in Nat /\ deferred_work_status \in Nat /\ events \in Nat
  /\ dw_items \in Seq({"sched_entry", "vm_fault_soft"})
  /\ held \subseteq {"nodw", "plain"}

(* The assertions of sched_yield hold wherever it is called from: a        *)
(* section's end, the end of an interrupt handler, a system call, or       *)
(* another sched_yield whose own locks found work to do.                   *)
YieldAsserts ==
  At("yield") => preempt_counter = 0 /\ deferred_work_status = 0 /\ ~in_interrupt_soft

(* The assertion at the end of x86_64_interrupt_handler, and its like for  *)
(* system calls: user code runs with preemption and deferred work enabled  *)
(* and interrupts on, after whatever nesting of handlers, work and yields. *)
UserRunsOpen ==
  At("user") => preempt_counter = 0 /\ deferred_work_status = 0 /\ interrupts

(* The assertions of sched_yield and of the way back to user code hold     *)
(* under any nesting of interrupts, deferred work and lock sections.       *)
AssertionsHold == TypeOK /\ YieldAsserts /\ UserRunsOpen

(* A CPU never waits for a lock that it holds itself: deferred work that   *)
(* an interrupt brings in does not meet a lock of the code it interrupted, *)
(* nor a thread one of a thread that was switched away.                    *)
NoSelfDeadlock ==
  (At("acquire") => "nodw" \notin held) /\ (At("plain_acquire") => "plain" \notin held)

(* Deferred work is never interrupted by deferred work, and is finished    *)
(* before the CPU goes on to another thread.                               *)
Working(t) == { i \in DOMAIN stack[t] :
                  stack[t][i].pc \in {"scan", "check", "sched_entry", "vm_fault_soft"} }
WorkIsAtomic ==
  /\ Cardinality(Working(current)) <= 1
  /\ \A t \in Thread \ {current} : Working(t) = {}

(* A page fault has been served when the code that faulted runs again: its *)
(* item is not left on the list, where a second fault of the thread would  *)
(* queue it again (the assertion that no fault is in flight).              *)
FaultServed ==
  At("user") => \A i \in DOMAIN dw_items : dw_items[i] # "vm_fault_soft"

(* What sched.h says of sched_preempt_dec: when the counter reaches zero   *)
(* yield_immediately has been processed.                                   *)
YieldFlagProcessed == At("user") => ~yield_immediately

(* What dw.h says of dw_status_enable: deferred work is enabled when the   *)
(* status reaches zero; then none is left waiting.                         *)
WorkProcessed == At("user") => dw_items = <<>>
===========================================================================
