--------------------------- MODULE TlbShootdown ---------------------------
(***************************************************************************)
(* The TLB shootdown protocol of arch/x86_64/tlb.c.  A CPU that changed    *)
(* page table entries makes every CPU drop its cached translations: it     *)
(* publishes the range, interrupts the others until each has set its       *)
(* g_shootdown_status, and waits until all have completed.                 *)
(*                                                                         *)
(* A range is named by the CPU whose thread is changing it (the caller     *)
(* holds the page table lock of the address space, so nobody else changes  *)
(* it meanwhile).  Sections under g_status_lock are one action; they run   *)
(* with interrupts masked.  An interrupt is taken at an instruction        *)
(* boundary: while one is pending and interrupts are enabled the CPU's     *)
(* next step is the handler.  An IPI may still be on its way when the      *)
(* sender goes on, even after the shootdown it was sent for.               *)
(*                                                                         *)
(* Nothing in tlb.c keeps such an IPI from the CPU that meanwhile started  *)
(* a shootdown of its own: its status is clear, it invalidates and counts  *)
(* itself a second time.  miscounted records that this happened; what      *)
(* tlb.h promises holds in every behaviour in which it did not.            *)
(***************************************************************************)
EXTENDS Integers, FiniteSets

CONSTANTS
  CpuCount,       \* g_cpu_count
  Initiator       \* CPUs whose threads change page tables

Cpu == 0..(CpuCount - 1)

ASSUME CpuAssumption == CpuCount \in Nat \ {0} /\ Initiator \subseteq Cpu

VARIABLES
  threaded,       \* flags.threaded; interrupts are off until it is set
  pc,             \* what the thread on each CPU is doing
  handler,        \* what tlb_shootdown_handler on each CPU is doing
  range,          \* the address and length the handler has copied, 0 outside it
  stale,          \* per CPU: the changed ranges it may still have cached
  shootdown_lock, \* the holder of g_shootdown_lock, or CpuCount
  address,        \* g_shootdown_address and g_shootdown_length
  status,         \* g_shootdown_status
  complete_count, \* g_shootdown_complete_count
  cursor,         \* i of the loop that sends the IPIs, 0 outside it
  sent, irr,      \* per CPU: an IPI is on its way, is pending at the LAPIC
  miscounted      \* history: a CPU has answered a shootdown of its own

ipiVars == <<sent, irr>>
handlerVars == <<handler, range>>
shared == <<shootdown_lock, address, status, complete_count>>
vars == <<threaded, pc, handlerVars, stale, shared, cursor, ipiVars, miscounted>>

Init ==
  /\ threaded = [c \in Cpu |-> FALSE]
  /\ pc = [c \in Cpu |-> "run"]
  /\ handler = [c \in Cpu |-> "none"]
  /\ range = [c \in Cpu |-> 0]
  /\ stale = [c \in Cpu |-> {}]
  /\ shootdown_lock = CpuCount
  /\ address = 0 /\ complete_count = 0
  /\ status \in [Cpu -> BOOLEAN]   \* heap_alloc does not clear it
  /\ cursor = 0
  /\ sent = [c \in Cpu |-> FALSE] /\ irr = [c \in Cpu |-> FALSE]
  /\ miscounted = FALSE
---------------------------------------------------------------------------
InterruptsOn(c) == threaded[c] /\ handler[c] = "none" /\ pc[c] # "masked"

(* The thread on c may take a step of its own.                             *)
Running(c) == handler[c] = "none" /\ ~(irr[c] /\ InterruptsOn(c))

Goto(c, label) == pc' = [pc EXCEPT ![c] = label]

(* arch_sched_handoff_cpu.                                                 *)
BecomeThreaded(c) ==
  /\ ~threaded[c] /\ pc[c] = "run"
  /\ threaded' = [threaded EXCEPT ![c] = TRUE]
  /\ UNCHANGED <<pc, handlerVars, stale, shared, cursor, ipiVars, miscounted>>

(* Any other code that masks interrupts for a while.                       *)
Mask(c) ==
  /\ Running(c) /\ threaded[c] /\ pc[c] = "run"
  /\ Goto(c, "masked")
  /\ UNCHANGED <<threaded, handlerVars, stale, shared, cursor, ipiVars, miscounted>>

Unmask(c) ==
  /\ pc[c] = "masked"
  /\ Goto(c, "run")
  /\ UNCHANGED <<threaded, handlerVars, stale, shared, cursor, ipiVars, miscounted>>

(* x86_64_tlb_shootdown after the caller changed the entries of its range, *)
(* on a CPU without threads: only the own TLB is invalidated.              *)
ShootdownEarly(c) ==
  /\ c \in Initiator /\ Running(c) /\ pc[c] = "run" /\ ~threaded[c]
  /\ stale' = [d \in Cpu |-> IF d = c THEN stale[d] \ {c} ELSE stale[d] \cup {c}]
  /\ UNCHANGED <<threaded, pc, handlerVars, shared, cursor, ipiVars, miscounted>>

(* The same on a CPU with threads, which goes on to take the lock.         *)
ShootdownEnter(c) ==
  /\ c \in Initiator /\ Running(c) /\ pc[c] = "run" /\ threaded[c]
  /\ stale' = [d \in Cpu |-> stale[d] \cup {c}]
  /\ Goto(c, "lock")
  /\ UNCHANGED <<threaded, handlerVars, shared, cursor, ipiVars, miscounted>>

AcquireShootdownLock(c) ==
  /\ Running(c) /\ pc[c] = "lock" /\ shootdown_lock = CpuCount
  /\ shootdown_lock' = c
  /\ Goto(c, "publish")
  /\ UNCHANGED <<threaded, handlerVars, stale, address, status, complete_count, cursor, ipiVars, miscounted>>

(* Under g_status_lock: publish the range and reset count and status.      *)
Publish(c) ==
  /\ Running(c) /\ pc[c] = "publish"
  /\ address' = c
  /\ complete_count' = 0
  /\ status' = [d \in Cpu |-> FALSE]
  /\ Goto(c, "invalidate")
  /\ UNCHANGED <<threaded, handlerVars, stale, shootdown_lock, cursor, ipiVars, miscounted>>

InvalidateSelf(c) ==
  /\ Running(c) /\ pc[c] = "invalidate"
  /\ stale' = [stale EXCEPT ![c] = @ \ {c}]
  /\ complete_count' = complete_count + 1
  /\ Goto(c, "wait")
  /\ UNCHANGED <<threaded, handlerVars, shootdown_lock, address, status, cursor, ipiVars, miscounted>>

(* The while condition: leave, or go through the CPUs once more.  The      *)
(* pause between two rounds is a stuttering step.                          *)
WaitCheck(c) ==
  /\ Running(c) /\ pc[c] = "wait"
  /\ Goto(c, IF complete_count = CpuCount THEN "unlock" ELSE "poll")
  /\ UNCHANGED <<threaded, handlerVars, stale, shared, cursor, ipiVars, miscounted>>

(* Mutant: the loop ends one CPU too early.                                *)
PollSkipsLast(c) ==
  /\ Running(c) /\ pc[c] = "poll"
  /\ LET end == CpuCount - 1 IN
     \/ cursor < end /\ (cursor = c \/ status[cursor]) /\ cursor' = cursor + 1 /\ Goto(c, "poll")
     \/ cursor < end /\ cursor # c /\ ~status[cursor] /\ cursor' = cursor /\ Goto(c, "ipi")
     \/ cursor = end /\ cursor' = 0 /\ Goto(c, "wait")
  /\ UNCHANGED <<threaded, handlerVars, stale, shared, ipiVars, miscounted>>

(* One iteration of the for loop: skip the own CPU and those whose status  *)
(* is set; the load of the status and the IPI are two steps.               *)
Poll(c) ==
  /\ Running(c) /\ pc[c] = "poll"
  /\ \/ cursor < CpuCount /\ (cursor = c \/ status[cursor]) /\ cursor' = cursor + 1 /\ Goto(c, "poll")
     \/ cursor < CpuCount /\ cursor # c /\ ~status[cursor] /\ cursor' = cursor /\ Goto(c, "ipi")
     \/ cursor = CpuCount /\ cursor' = 0 /\ Goto(c, "wait")
  /\ UNCHANGED <<threaded, handlerVars, stale, shared, ipiVars, miscounted>>

SendIpi(c) ==
  /\ Running(c) /\ pc[c] = "ipi"
  /\ sent' = [sent EXCEPT ![cursor] = TRUE]
  /\ cursor' = cursor + 1
  /\ Goto(c, "poll")
  /\ UNCHANGED <<threaded, handlerVars, stale, shared, irr, miscounted>>

Unlock(c) ==
  /\ Running(c) /\ pc[c] = "unlock"
  /\ shootdown_lock' = CpuCount
  /\ Goto(c, "run")
  /\ UNCHANGED <<threaded, handlerVars, stale, address, status, complete_count, cursor, ipiVars, miscounted>>
---------------------------------------------------------------------------
(* The interconnect hands an IPI to the LAPIC; one that is pending already *)
(* absorbs it.                                                             *)
DeliverIpi(c) ==
  /\ sent[c]
  /\ sent' = [sent EXCEPT ![c] = FALSE]
  /\ irr' = [irr EXCEPT ![c] = TRUE]
  /\ UNCHANGED <<threaded, pc, handlerVars, stale, shared, cursor, miscounted>>

(* The handler on c is about to answer the shootdown that c itself has     *)
(* published last.                                                         *)
AnswersItself(c) == ~status[c] /\ address = c

(* Mutant: does not look at g_shootdown_status.                            *)
HandlerEnterAlways(c) ==
  /\ irr[c] /\ InterruptsOn(c)
  /\ irr' = [irr EXCEPT ![c] = FALSE]
  /\ status' = [status EXCEPT ![c] = TRUE]
  /\ range' = [range EXCEPT ![c] = address]
  /\ handler' = [handler EXCEPT ![c] = "invalidate"]
  /\ miscounted' = (miscounted \/ AnswersItself(c))
  /\ UNCHANGED <<threaded, pc, stale, shootdown_lock, address, complete_count, cursor, sent>>

(* tlb_shootdown_handler up to the release of g_status_lock.               *)
HandlerEnter(c) ==
  /\ irr[c] /\ InterruptsOn(c)
  /\ irr' = [irr EXCEPT ![c] = FALSE]
  /\ \/ status[c] /\ UNCHANGED <<status, handlerVars>>
     \/ /\ ~status[c]
        /\ status' = [status EXCEPT ![c] = TRUE]
        /\ range' = [range EXCEPT ![c] = address]
        /\ handler' = [handler EXCEPT ![c] = "invalidate"]
  /\ miscounted' = (miscounted \/ AnswersItself(c))
  /\ UNCHANGED <<threaded, pc, stale, shootdown_lock, address, complete_count, cursor, sent>>

HandlerInvalidate(c) ==
  /\ handler[c] = "invalidate"
  /\ stale' = [stale EXCEPT ![c] = @ \ {range[c]}]
  /\ handler' = [handler EXCEPT ![c] = "count"]
  /\ UNCHANGED <<threaded, pc, range, shared, cursor, ipiVars, miscounted>>

HandlerCount(c) ==
  /\ handler[c] = "count"
  /\ complete_count' = complete_count + 1
  /\ handler' = [handler EXCEPT ![c] = "none"]
  /\ range' = [range EXCEPT ![c] = 0]
  /\ UNCHANGED <<threaded, pc, stale, shootdown_lock, address, status, cursor, ipiVars, miscounted>>

(* What a CPU does without being asked to by a caller.                     *)
Continue(c) ==
  \/ Unmask(c) \/ AcquireShootdownLock(c) \/ Publish(c) \/ InvalidateSelf(c)
  \/ WaitCheck(c) \/ Poll(c) \/ SendIpi(c) \/ Unlock(c)

Handle(c) == HandlerEnter(c) \/ HandlerInvalidate(c) \/ HandlerCount(c)

Next == \E c \in Cpu :
  \/ BecomeThreaded(c) \/ Mask(c) \/ ShootdownEarly(c) \/ ShootdownEnter(c)
  \/ Continue(c) \/ DeliverIpi(c) \/ Handle(c)

(* CPUs do not stop, boot ends, the interconnect delivers.  The spinlock   *)
(* is not fair, so nothing is assumed about who gets g_shootdown_lock.     *)
Fairness == \A c \in Cpu :
  /\ WF_vars(Continue(c)) /\ WF_vars(Handle(c))
  /\ WF_vars(DeliverIpi(c)) /\ WF_vars(BecomeThreaded(c))

Spec == Init /\ [][Next]_vars
FairSpec == Spec /\ Fairness
---------------------------------------------------------------------------
(* Properties.                                                             *)

TypeOK ==
  /\ threaded \in [Cpu -> BOOLEAN]
  /\ pc \in [Cpu -> {"run", "masked", "lock", "publish", "invalidate", "wait", "poll", "ipi", "unlock"}]
  /\ handler \in [Cpu -> {"none", "invalidate", "count"}]
  /\ range \in [Cpu -> Cpu]
  /\ stale \in [Cpu -> SUBSET Cpu]
  /\ shootdown_lock \in 0..CpuCount
  /\ address \in Cpu
  /\ status \in [Cpu -> BOOLEAN]
  /\ complete_count \in Nat
  /\ cursor \in 0..CpuCount
  /\ sent \in [Cpu -> BOOLEAN] /\ irr \in [Cpu -> BOOLEAN]
  /\ miscounted \in BOOLEAN

(* x86_64_tlb_shootdown does what tlb.h says: when it is about to return,  *)
(* no CPU has a translation of the range cached any more.                  *)
NothingStaleAtReturn ==
  \A c \in Cpu : pc[c] = "unlock" => \A d \in Cpu : c \notin stale[d]

(* While a shootdown waits, complete_count never runs ahead of the CPUs    *)
(* that have invalidated the range: nobody is counted twice, and nobody is *)
(* counted for the shootdown before.                                       *)
CountedOnce ==
  \A c \in Cpu : pc[c] \in {"wait", "poll", "ipi"} =>
    complete_count <= Cardinality({ d \in Cpu : c \notin stale[d] })

(* A shootdown counts every answer once and returns only when no CPU has   *)
(* the range cached, with IPIs that are late, repeated or merged.  The one *)
(* way to break this is a CPU that answers its own shootdown.              *)
ShootdownComplete == TypeOK /\ (miscounted \/ (CountedOnce /\ NothingStaleAtReturn))

(* A CPU that holds g_shootdown_lock gives it back: every CPU answers in   *)
(* the end, however often it was interrupted or masked interrupts.  A CPU  *)
(* that counted itself twice may wait for a count it has passed.           *)
ShootdownFinishes ==
  \A c \in Cpu : (shootdown_lock = c) ~> (shootdown_lock # c \/ miscounted)
===========================================================================
