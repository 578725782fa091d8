--------------------------- MODULE CpuLocalProofs ---------------------------
(***************************************************************************)
(* Proofs about module CpuLocal, for any threads and any depth of nested   *)
(* interrupts: the assertions of sched_yield and of the way back to user   *)
(* code hold, a CPU never waits for a lock that it holds, deferred work is *)
(* not interrupted by deferred work, and a page fault has been served when *)
(* the code that faulted runs again.                                       *)
(*                                                                         *)
(* The counters of the CPU say nothing about who raised them.  The         *)
(* invariant does: every counter is the number of functions on the stack   *)
(* that have raised it and not yet lowered it, and every function on the   *)
(* stack fits on what lies below it.                                       *)
(***************************************************************************)
EXTENDS CpuLocal, FiniteSetTheorems, SequenceTheorems, TLAPS

Frames == [pc : Label, restores : BOOLEAN]

(* Where a function has raised preempt_counter, has raised                 *)
(* deferred_work_status, has interrupts masked.                            *)
NoPreempt == {"dec", "dec_yield", "dec_return", "disable", "acquire", "release", "enable", "check",
              "plain_acquire", "plain_release", "soft", "soft_done"}
NoWork == {"scan", "check", "scan_done", "sched_entry", "vm_fault_soft",
           "acquire", "release", "enable", "soft"}
Masked == {"unmask", "switch", "resume", "event", "event_more", "iret"}

(* Where a section has the lock with deferred work disabled; the places of *)
(* dw_process; those that are reached with preemption enabled below.       *)
Locked == {"acquire", "release", "enable"}
Processing == {"process", "scan", "check", "scan_done", "sched_entry", "vm_fault_soft"}
Calm == {"dec_yield", "yield", "switch", "resume", "event", "event_more"}

None(s, places) == \A i \in 1..Len(s) : s[i].pc \notin places
Count(s, places) == Cardinality({i \in 1..Len(s) : s[i].pc \in places})

(* The function f may be called by the last of the functions B.            *)
Fits(B, f) ==
  /\ f.pc = "user" <=> Len(B) = 0
  /\ f.pc \in Calm => None(B, NoPreempt)
  /\ f.pc \in Processing =>
       None(B, NoWork) /\ Len(B) >= 1 /\ B[Len(B)].pc \in {"dec", "soft_done"}
  /\ f.pc \in {"inc", "disable", "acquire", "release", "enable"} => None(B, Locked)
  /\ f.pc \in {"plain_inc", "plain_acquire", "plain_release", "mask"} => Len(B) = 1
  /\ f.pc \in Masked => (f.restores <=> None(B, Masked))
  /\ f.pc \in {"soft", "soft_done", "iret"} => f.restores /\ None(B, Masked)

Stacked(s) == \A i \in 1..Len(s) : Fits(SubSeq(s, 1, i - 1), s[i])

(* A page fault waits on the list only while the handler that queued it,   *)
(* or the dw_process this handler called, is at work.                      *)
FaultWaits(w) == \E i \in 1..Len(w) : w[i] = "vm_fault_soft"
Serving(s) ==
  /\ Len(s) >= 2
  /\ \/ s[2].pc = "soft"
     \/ /\ s[2].pc = "soft_done" /\ Len(s) >= 3
        /\ s[3].pc \in {"process", "scan", "check", "sched_entry", "vm_fault_soft"}

(* What the CPU keeps agrees with the stack s of the thread it runs.       *)
Agrees(s, preempt, work, int, soft, items, locks) ==
  /\ preempt = Count(s, NoPreempt)
  /\ work = Count(s, NoWork)
  /\ int <=> None(s, Masked)
  /\ soft => ~None(s, {"soft", "soft_done"})
  /\ FaultWaits(items) => Serving(s)
  /\ "nodw" \in locks <=> ~None(s, {"release"})
  /\ "plain" \in locks <=> ~None(s, {"plain_release"})

CpuInv ==
  /\ TypeOK
  /\ \A t \in Thread : Len(stack[t]) >= 1 /\ Stacked(stack[t])
  /\ \A t \in Thread \ {current} : stack[t][Len(stack[t])].pc = "resume"
  /\ Agrees(stack[current], preempt_counter, deferred_work_status, interrupts,
            in_interrupt_soft, dw_items, held)
---------------------------------------------------------------------------
(* Stacks that grow by one function.                                       *)

(* A stack is its last function on top of the others.                      *)
LEMMA StackSplits ==
  ASSUME NEW s \in Seq(Frames), Len(s) >= 1
  PROVE  /\ SubSeq(s, 1, Len(s) - 1) \in Seq(Frames)
         /\ Len(SubSeq(s, 1, Len(s) - 1)) = Len(s) - 1
         /\ s[Len(s)] \in Frames
         /\ s = Append(SubSeq(s, 1, Len(s) - 1), s[Len(s)])
  <1>1. SubSeq(s, 1, Len(s) - 1) \in Seq(Frames) /\ Len(SubSeq(s, 1, Len(s) - 1)) = Len(s) - 1
    <2>1. Len(s) \in Nat
      OBVIOUS
    <2>2. 1 \in 1..(Len(s) + 1) /\ Len(s) - 1 \in (1 - 1)..Len(s)
      BY <2>1
    <2>3. (Len(s) - 1) - 1 + 1 = Len(s) - 1
      BY <2>1
    <2> QED BY <2>2, <2>3, SubSeqProperties
  <1>2. s[Len(s)] \in Frames
    <2>1. Len(s) \in Nat /\ s \in [1..Len(s) -> Frames]
      OBVIOUS
    <2>2. Len(s) \in 1..Len(s)
      BY <2>1
    <2> QED BY <2>1, <2>2
  <1>3. s = Append(SubSeq(s, 1, Len(s) - 1), s[Len(s)])
    BY <1>1, <1>2
  <1> QED BY <1>1, <1>2, <1>3

(* Joining one or two functions to a stack is appending them.              *)
LEMMA Joined ==
  ASSUME NEW s \in Seq(Frames), NEW f \in Frames
  PROVE  s \o <<f>> = Append(s, f)
  OBVIOUS

LEMMA JoinedTwo ==
  ASSUME NEW s \in Seq(Frames), NEW f \in Frames, NEW g \in Frames
  PROVE  s \o <<f, g>> = Append(Append(s, f), g)
  <1>1. s \o <<f, g>> \in Seq(Frames) /\ Append(Append(s, f), g) \in Seq(Frames)
    OBVIOUS
  <1>2. Len(s \o <<f, g>>) = Len(s) + 2 /\ Len(Append(Append(s, f), g)) = Len(s) + 2
    OBVIOUS
  <1>3. \A i \in 1..(Len(s) + 2) : (s \o <<f, g>>)[i] = Append(Append(s, f), g)[i]
    OBVIOUS
  <1> QED BY <1>1, <1>2, <1>3

LEMMA AppendFacts ==
  ASSUME NEW s \in Seq(Frames), NEW f \in Frames
  PROVE  /\ Append(s, f) \in Seq(Frames)
         /\ Len(Append(s, f)) = Len(s) + 1
         /\ Append(s, f)[Len(s) + 1] = f
         /\ \A i \in 1..Len(s) : Append(s, f)[i] = s[i]
         /\ Len(s) \in Nat
  OBVIOUS

(* No function of Append(s, f) is at one of the places if none of s is,    *)
(* and f is not.                                                           *)
LEMMA NoneAppend ==
  ASSUME NEW s \in Seq(Frames), NEW f \in Frames, NEW places
  PROVE  None(Append(s, f), places) <=> None(s, places) /\ f.pc \notin places
  BY AppendFacts DEF None

One(b) == IF b THEN 1 ELSE 0

LEMMA CountAppend ==
  ASSUME NEW s \in Seq(Frames), NEW f \in Frames, NEW places
  PROVE  /\ Count(s, places) \in Nat
         /\ Count(Append(s, f), places) = Count(s, places) + One(f.pc \in places)
  <1> DEFINE A == {i \in 1..Len(s) : s[i].pc \in places}
             B == {i \in 1..Len(Append(s, f)) : Append(s, f)[i].pc \in places}
  <1>1. IsFiniteSet(A) /\ Cardinality(A) \in Nat
    <2>1. IsFiniteSet(1..Len(s))
      BY FS_Interval, AppendFacts
    <2> QED BY <2>1, FS_Subset, FS_CardinalityType
  <1>2. CASE f.pc \in places
    <2>1. B = A \cup {Len(s) + 1}
      BY <1>2, AppendFacts
    <2>2. Len(s) + 1 \notin A
      BY AppendFacts
    <2>3. Cardinality(B) = Cardinality(A) + 1
      BY <1>1, <2>1, <2>2, FS_AddElement
    <2> QED BY <1>1, <1>2, <2>3 DEF Count, One
  <1>3. CASE f.pc \notin places
    <2>1. B = A
      BY <1>3, AppendFacts
    <2>2. One(f.pc \in places) = 0
      BY <1>3 DEF One
    <2> HIDE DEF A, B
    <2>3. Cardinality(B) = Cardinality(A) + 0
      BY <1>1, <2>1
    <2> USE DEF A, B
    <2> QED BY <1>1, <2>2, <2>3 DEF Count
  <1> QED BY <1>2, <1>3

LEMMA CountZero ==
  ASSUME NEW s \in Seq(Frames), NEW places
  PROVE  Count(s, places) = 0 <=> None(s, places)
  <1> DEFINE A == {i \in 1..Len(s) : s[i].pc \in places}
  <1>1. IsFiniteSet(A)
    BY FS_Interval, FS_Subset, AppendFacts
  <1>2. Cardinality(A) = 0 <=> A = {}
    BY <1>1, FS_EmptySet
  <1> QED BY <1>2 DEF Count, None

LEMMA FitsBelow ==
  ASSUME NEW s \in Seq(Frames), NEW f \in Frames, NEW i \in 1..Len(s)
  PROVE  SubSeq(Append(s, f), 1, i - 1) = SubSeq(s, 1, i - 1)
  OBVIOUS

LEMMA StackedAppend ==
  ASSUME NEW s \in Seq(Frames), NEW f \in Frames
  PROVE  Stacked(Append(s, f)) <=> Stacked(s) /\ Fits(s, f)
  <1>1. SubSeq(Append(s, f), 1, (Len(s) + 1) - 1) = s
    OBVIOUS
  <1>2. 1..Len(Append(s, f)) = 1..Len(s) \cup {Len(s) + 1}
    BY AppendFacts
  <1>3. \A i \in 1..Len(s) :
          Fits(SubSeq(Append(s, f), 1, i - 1), Append(s, f)[i]) <=> Fits(SubSeq(s, 1, i - 1), s[i])
    BY FitsBelow, AppendFacts
  <1>4. Fits(SubSeq(Append(s, f), 1, (Len(s) + 1) - 1), Append(s, f)[Len(s) + 1]) <=> Fits(s, f)
    BY <1>1, AppendFacts
  <1> QED BY <1>2, <1>3, <1>4 DEF Stacked

LEMMA UpToThree ==
  ASSUME NEW n \in Nat
  PROVE  n >= 3 \/ n = 2 \/ n = 1 \/ n = 0
  OBVIOUS

LEMMA ServingAppend ==
  ASSUME NEW s \in Seq(Frames), NEW f \in Frames
  PROVE  Serving(Append(s, f)) <=>
           \/ Len(s) >= 3 /\ Serving(s)
           \/ /\ Len(s) = 2
              /\ \/ s[2].pc = "soft"
                 \/ /\ s[2].pc = "soft_done"
                    /\ f.pc \in {"process", "scan", "check", "sched_entry", "vm_fault_soft"}
           \/ Len(s) = 1 /\ f.pc = "soft"
  <1> DEFINE A == Append(s, f)
             n == Len(s)
  <1>a. /\ n \in Nat /\ Len(A) = n + 1 /\ A[n + 1] = f
        /\ \A i \in 1..n : A[i] = s[i]
    BY AppendFacts
  <1>1. CASE Len(s) >= 3
    <2>1. Len(Append(s, f)) >= 3 /\ Append(s, f)[2] = s[2] /\ Append(s, f)[3] = s[3]
      BY <1>1, AppendFacts
    <2> QED BY <1>1, <2>1 DEF Serving
  <1>2. CASE Len(s) = 2
    <2> HIDE DEF A, n
    <2>0. n = 2
      BY <1>2 DEF n
    <2>1. Len(A) = 3 /\ A[2] = s[2] /\ A[3] = f
      BY <2>0, <1>a
    <2> USE DEF A
    <2> QED BY <1>2, <2>1 DEF Serving
  <1>3. CASE Len(s) = 1
    <2> HIDE DEF A, n
    <2>0. n = 1
      BY <1>3 DEF n
    <2>1. Len(A) = 2 /\ A[2] = f
      BY <2>0, <1>a
    <2> USE DEF A
    <2> QED BY <1>3, <2>1 DEF Serving
  <1>4. CASE Len(s) = 0
    <2>1. Len(Append(s, f)) = 1
      BY <1>4, AppendFacts
    <2> QED BY <1>4, <2>1 DEF Serving
  <1>5. Len(s) \in Nat
    OBVIOUS
  <1>6. Len(s) >= 3 \/ Len(s) = 2 \/ Len(s) = 1 \/ Len(s) = 0
    BY <1>5, UpToThree, Zenon
  <1> QED BY <1>1, <1>2, <1>3, <1>4, <1>6

(* A stack on which nobody has preemption disabled has nobody with         *)
(* deferred work disabled: dw_process is called by sched_preempt_dec's     *)
(* caller or by the end of an interrupt handler, before the count is       *)
(* lowered.                                                                *)
LEMMA CalmHasNoWork ==
  ASSUME NEW s \in Seq(Frames), Stacked(s), None(s, NoPreempt)
  PROVE  None(s, NoWork)
  <1>1. SUFFICES ASSUME NEW i \in 1..Len(s), s[i].pc \in NoWork PROVE FALSE
    BY DEF None
  <1>2. s[i].pc \notin NoPreempt
    BY DEF None
  <1>3. s[i].pc \in Processing
    BY <1>1, <1>2 DEF NoWork, NoPreempt, Processing
  <1> DEFINE B == SubSeq(s, 1, i - 1)
  <1>4. Len(B) >= 1 /\ B[Len(B)].pc \in {"dec", "soft_done"}
    BY <1>3 DEF Stacked, Fits
  <1>5. Len(B) = i - 1 /\ i - 1 \in 1..Len(s) /\ B[Len(B)] = s[i - 1]
    BY <1>4
  <1> QED BY <1>4, <1>5 DEF None, NoPreempt
---------------------------------------------------------------------------
(* The list of deferred work.                                              *)

LEMMA FaultWaitsJoin ==
  ASSUME NEW v \in Seq({"sched_entry", "vm_fault_soft"}), NEW w \in Seq({"sched_entry", "vm_fault_soft"})
  PROVE  /\ v \o w \in Seq({"sched_entry", "vm_fault_soft"})
         /\ FaultWaits(v \o w) => FaultWaits(v) \/ FaultWaits(w)
  <1>1. v \o w \in Seq({"sched_entry", "vm_fault_soft"})
    OBVIOUS
  <1>2. ASSUME NEW i \in 1..Len(v \o w), (v \o w)[i] = "vm_fault_soft"
        PROVE  FaultWaits(v) \/ FaultWaits(w)
    <2>1. CASE i <= Len(v)
      <3>1. i \in 1..Len(v) /\ v[i] = "vm_fault_soft"
        BY <1>2, <2>1
      <3> QED BY <3>1 DEF FaultWaits
    <2>2. CASE i > Len(v)
      <3>1. i - Len(v) \in 1..Len(w) /\ w[i - Len(v)] = "vm_fault_soft"
        BY <1>2, <2>2
      <3> QED BY <3>1 DEF FaultWaits
    <2>3. i \in Int /\ Len(v) \in Int
      OBVIOUS
    <2> QED BY <2>1, <2>2, <2>3
  <1> QED BY <1>1, <1>2 DEF FaultWaits

LEMMA FaultWaitsTail ==
  ASSUME NEW w \in Seq({"sched_entry", "vm_fault_soft"}), w # <<>>
  PROVE  /\ Tail(w) \in Seq({"sched_entry", "vm_fault_soft"})
         /\ Head(w) \in {"sched_entry", "vm_fault_soft"}
         /\ FaultWaits(Tail(w)) => FaultWaits(w)
  <1>1. /\ Tail(w) \in Seq({"sched_entry", "vm_fault_soft"})
        /\ Head(w) \in {"sched_entry", "vm_fault_soft"}
        /\ Len(Tail(w)) = Len(w) - 1 /\ Len(w) \in Nat
    OBVIOUS
  <1>2. ASSUME NEW i \in 1..Len(Tail(w)), Tail(w)[i] = "vm_fault_soft"
        PROVE  FaultWaits(w)
    <2>1. i + 1 \in 1..Len(w)
      BY <1>1
    <2>2. w[i + 1] = "vm_fault_soft"
      BY <1>1, <1>2
    <2> QED BY <2>1, <2>2 DEF FaultWaits
  <1> QED BY <1>1, <1>2 DEF FaultWaits

(* A sequence of sched_entry items brings no page fault.                   *)
LEMMA NoFaultInEntries ==
  ASSUME NEW n \in Nat
  PROVE  /\ [i \in 1..n |-> "sched_entry"] \in Seq({"sched_entry", "vm_fault_soft"})
         /\ ~FaultWaits([i \in 1..n |-> "sched_entry"])
  <1> DEFINE v == [i \in 1..n |-> "sched_entry"]
  <1>1. v \in Seq({"sched_entry", "vm_fault_soft"}) /\ Len(v) = n
    OBVIOUS
  <1>2. \A i \in 1..n : v[i] = "sched_entry"
    OBVIOUS
  <1> QED BY <1>1, <1>2 DEF FaultWaits
---------------------------------------------------------------------------
(* Steps of the running thread.                                            *)

(* What a stack says when a function is put on top of it.                  *)
AgreesOnTop(B, f, preempt, work, int, soft, items, locks) ==
  /\ preempt = Count(B, NoPreempt) + One(f.pc \in NoPreempt)
  /\ work = Count(B, NoWork) + One(f.pc \in NoWork)
  /\ int <=> None(B, Masked) /\ f.pc \notin Masked
  /\ soft => ~None(B, {"soft", "soft_done"}) \/ f.pc \in {"soft", "soft_done"}
  /\ FaultWaits(items) =>
       \/ Len(B) >= 3 /\ Serving(B)
       \/ /\ Len(B) = 2
          /\ \/ B[2].pc = "soft"
             \/ /\ B[2].pc = "soft_done"
                /\ f.pc \in {"process", "scan", "check", "sched_entry", "vm_fault_soft"}
       \/ Len(B) = 1 /\ f.pc = "soft"
  /\ "nodw" \in locks <=> ~None(B, {"release"}) \/ f.pc = "release"
  /\ "plain" \in locks <=> ~None(B, {"plain_release"}) \/ f.pc = "plain_release"

LEMMA AgreesAppend ==
  ASSUME NEW B \in Seq(Frames), NEW f \in Frames,
         NEW preempt, NEW work, NEW int, NEW soft, NEW items, NEW locks
  PROVE  Agrees(Append(B, f), preempt, work, int, soft, items, locks) <=>
           AgreesOnTop(B, f, preempt, work, int, soft, items, locks)
  <1>1. /\ Count(Append(B, f), NoPreempt) = Count(B, NoPreempt) + One(f.pc \in NoPreempt)
        /\ Count(Append(B, f), NoWork) = Count(B, NoWork) + One(f.pc \in NoWork)
    BY CountAppend
  <1>2. None(Append(B, f), Masked) <=> None(B, Masked) /\ f.pc \notin Masked
    BY NoneAppend
  <1>3. /\ None(Append(B, f), {"soft", "soft_done"})
             <=> None(B, {"soft", "soft_done"}) /\ f.pc \notin {"soft", "soft_done"}
        /\ None(Append(B, f), {"release"}) <=> None(B, {"release"}) /\ f.pc \notin {"release"}
        /\ None(Append(B, f), {"plain_release"})
             <=> None(B, {"plain_release"}) /\ f.pc \notin {"plain_release"}
    BY NoneAppend
  <1> QED BY <1>1, <1>2, <1>3, ServingAppend DEF Agrees, AgreesOnTop

(* What is below the running function, and what it has to do with it.      *)
LEMMA Running ==
  CpuInv => /\ stack[current] \in Seq(Frames)
            /\ Below \in Seq(Frames) /\ Top \in Frames
            /\ stack[current] = Append(Below, Top)
            /\ Stacked(Below) /\ Fits(Below, Top)
            /\ Len(Below) \in Nat
            /\ Len(Below) >= 1 <=> Top.pc # "user"
            /\ AgreesOnTop(Below, Top, preempt_counter, deferred_work_status, interrupts,
                           in_interrupt_soft, dw_items, held)
  <1> SUFFICES ASSUME CpuInv
               PROVE  /\ stack[current] \in Seq(Frames)
                      /\ Below \in Seq(Frames) /\ Top \in Frames
                      /\ stack[current] = Append(Below, Top)
                      /\ Stacked(Below) /\ Fits(Below, Top)
                      /\ Len(Below) \in Nat
                      /\ Len(Below) >= 1 <=> Top.pc # "user"
                      /\ AgreesOnTop(Below, Top, preempt_counter, deferred_work_status, interrupts,
                                     in_interrupt_soft, dw_items, held)
    OBVIOUS
  <1>1. stack[current] \in Seq(Frames) /\ Len(stack[current]) >= 1 /\ Stacked(stack[current])
    BY DEF CpuInv, TypeOK, Frames
  <1>2. /\ Below \in Seq(Frames) /\ Top \in Frames
        /\ stack[current] = Append(Below, Top)
    BY <1>1, StackSplits DEF Below, Top
  <1>3. Stacked(Below) /\ Fits(Below, Top)
    BY <1>1, <1>2, StackedAppend
  <1>4. Len(Below) \in Nat
    BY <1>2
  <1>5. Len(Below) >= 1 <=> Top.pc # "user"
    <2>1. Top.pc = "user" <=> Len(Below) = 0
      BY <1>3 DEF Fits
    <2> QED BY <1>4, <2>1
  <1>6. Agrees(stack[current], preempt_counter, deferred_work_status, interrupts,
               in_interrupt_soft, dw_items, held)
    BY DEF CpuInv
  <1>7. AgreesOnTop(Below, Top, preempt_counter, deferred_work_status, interrupts,
                    in_interrupt_soft, dw_items, held)
    BY <1>2, <1>6, AgreesAppend
  <1> QED BY <1>1, <1>2, <1>3, <1>4, <1>5, <1>7

(* The types of what a step of the running thread may change beside its    *)
(* stack.                                                                  *)
FlagsOK ==
  /\ interrupts \in BOOLEAN /\ yield_immediately \in BOOLEAN /\ in_interrupt_soft \in BOOLEAN
  /\ preempt_counter \in Nat /\ deferred_work_status \in Nat /\ events \in Nat
  /\ dw_items \in Seq({"sched_entry", "vm_fault_soft"})
  /\ held \subseteq {"nodw", "plain"}

LEMMA StepKeeps ==
  ASSUME CpuInv, NEW s \in Seq(Frames), Len(s) >= 1, Stacked(s), FlagsOK',
         current' = current, stack' = [stack EXCEPT ![current] = s],
         Agrees(s, preempt_counter', deferred_work_status', interrupts', in_interrupt_soft',
                dw_items', held')
  PROVE  CpuInv'
  <1>1. current \in Thread /\ stack \in [Thread -> Seq(Frames)]
    BY DEF CpuInv, TypeOK, Frames
  <1>2. /\ stack' \in [Thread -> Seq(Frames)] /\ stack'[current] = s
        /\ \A t \in Thread \ {current} : stack'[t] = stack[t]
    BY <1>1
  <1>3. TypeOK'
    BY <1>1, <1>2 DEF FlagsOK, TypeOK, Frames
  <1>4. \A t \in Thread : Len(stack'[t]) >= 1 /\ Stacked(stack'[t])
    BY <1>2 DEF CpuInv
  <1>5. \A t \in Thread \ {current'} : stack'[t][Len(stack'[t])].pc = "resume"
    BY <1>2 DEF CpuInv
  <1>6. Agrees(stack'[current'], preempt_counter', deferred_work_status', interrupts',
               in_interrupt_soft', dw_items', held')
    BY <1>2
  <1> QED BY <1>3, <1>4, <1>5, <1>6 DEF CpuInv

(* The running function goes on to another place.                          *)
Moved(label) == [Top EXCEPT !.pc = label]

LEMMA MovedFacts ==
  ASSUME CpuInv, NEW label \in Label
  PROVE  /\ Moved(label) \in Frames
         /\ Moved(label).pc = label /\ Moved(label).restores = Top.restores
  <1>1. Top \in Frames
    BY Running
  <1> QED BY <1>1 DEF Moved, Frames

LEMMA FrameFacts ==
  ASSUME NEW label \in Label, NEW state \in BOOLEAN
  PROVE  /\ Frame(label, state) \in Frames
         /\ Frame(label, state).pc = label /\ Frame(label, state).restores = state
  BY DEF Frame, Frames

LEMMA GotoKeeps ==
  ASSUME CpuInv, NEW label \in Label, Goto(label), current' = current, FlagsOK',
         Fits(Below, Moved(label)),
         AgreesOnTop(Below, Moved(label), preempt_counter', deferred_work_status', interrupts',
                     in_interrupt_soft', dw_items', held')
  PROVE  CpuInv'
  <1> DEFINE s == Append(Below, Moved(label))
  <1>1. Below \in Seq(Frames) /\ Moved(label) \in Frames /\ Stacked(Below)
    BY Running, MovedFacts
  <1>2. stack' = [stack EXCEPT ![current] = s]
    BY <1>1, Joined DEF Goto, Moved
  <1>3. s \in Seq(Frames) /\ Len(s) >= 1
    BY <1>1, AppendFacts
  <1>4. Stacked(s)
    BY <1>1, StackedAppend
  <1>5. Agrees(s, preempt_counter', deferred_work_status', interrupts', in_interrupt_soft',
               dw_items', held')
    BY <1>1, AgreesAppend
  <1> HIDE DEF s
  <1> QED BY <1>2, <1>3, <1>4, <1>5, StepKeeps

(* It leaves f in its place and calls g.                                   *)
LEMMA CallKeeps ==
  ASSUME CpuInv, NEW f \in Frames, NEW g \in Frames,
         stack' = [stack EXCEPT ![current] = Below \o <<f, g>>], current' = current, FlagsOK',
         Fits(Below, f), Fits(Append(Below, f), g),
         AgreesOnTop(Append(Below, f), g, preempt_counter', deferred_work_status', interrupts',
                     in_interrupt_soft', dw_items', held')
  PROVE  CpuInv'
  <1> DEFINE s == Append(Append(Below, f), g)
  <1>1. Below \in Seq(Frames) /\ Append(Below, f) \in Seq(Frames) /\ Stacked(Below)
    BY Running, AppendFacts
  <1>2. stack' = [stack EXCEPT ![current] = s]
    BY <1>1, JoinedTwo
  <1>3. s \in Seq(Frames) /\ Len(s) >= 1
    BY <1>1, AppendFacts
  <1>4. Stacked(s)
    BY <1>1, StackedAppend
  <1>5. Agrees(s, preempt_counter', deferred_work_status', interrupts', in_interrupt_soft',
               dw_items', held')
    BY <1>1, AgreesAppend
  <1> HIDE DEF s
  <1> QED BY <1>2, <1>3, <1>4, <1>5, StepKeeps

(* It returns.                                                             *)
LEMMA ReturnAgrees ==
  ASSUME NEW B \in Seq(Frames), NEW f \in Frames,
         f.pc \in {"dec_return", "scan_done", "unmask", "event_more", "iret"},
         NEW preempt, NEW work, NEW int, NEW soft, NEW items, NEW locks,
         AgreesOnTop(B, f, preempt, work, int, soft, items, locks),
         NEW preempt2, preempt2 = Count(B, NoPreempt),
         NEW work2, work2 = Count(B, NoWork),
         NEW int2, int2 <=> None(B, Masked)
  PROVE  Agrees(B, preempt2, work2, int2, soft, items, locks)
  <1>1. soft => ~None(B, {"soft", "soft_done"})
    BY DEF AgreesOnTop
  <1>2. FaultWaits(items) => Serving(B)
    BY DEF AgreesOnTop, Serving
  <1>3. /\ "nodw" \in locks <=> ~None(B, {"release"})
        /\ "plain" \in locks <=> ~None(B, {"plain_release"})
    BY DEF AgreesOnTop
  <1> QED BY <1>1, <1>2, <1>3 DEF Agrees

LEMMA ReturnKeeps ==
  ASSUME CpuInv, Return, current' = current, FlagsOK', Top.pc # "user",
         Agrees(Below, preempt_counter', deferred_work_status', interrupts', in_interrupt_soft',
                dw_items', held')
  PROVE  CpuInv'
  <1>1. Below \in Seq(Frames) /\ Len(Below) >= 1 /\ Stacked(Below)
    BY Running
  <1> QED BY <1>1, StepKeeps DEF Return

(* What lies below, with a function put on top of it.                      *)
LEMMA OnTop ==
  ASSUME NEW B \in Seq(Frames), NEW f \in Frames
  PROVE  /\ Append(B, f) \in Seq(Frames)
         /\ Len(Append(B, f)) = Len(B) + 1 /\ Len(B) \in Nat
         /\ Append(B, f)[Len(Append(B, f))] = f
         /\ Len(B) = 1 => Append(B, f)[2] = f
         /\ Len(B) >= 2 => Append(B, f)[2] = B[2]
         /\ None(Append(B, f), NoPreempt) <=> None(B, NoPreempt) /\ f.pc \notin NoPreempt
         /\ None(Append(B, f), NoWork) <=> None(B, NoWork) /\ f.pc \notin NoWork
         /\ None(Append(B, f), Masked) <=> None(B, Masked) /\ f.pc \notin Masked
         /\ None(Append(B, f), Locked) <=> None(B, Locked) /\ f.pc \notin Locked
         /\ None(Append(B, f), {"soft", "soft_done"})
              <=> None(B, {"soft", "soft_done"}) /\ f.pc \notin {"soft", "soft_done"}
         /\ None(Append(B, f), {"release"}) <=> None(B, {"release"}) /\ f.pc # "release"
         /\ None(Append(B, f), {"plain_release"})
              <=> None(B, {"plain_release"}) /\ f.pc # "plain_release"
         /\ Count(B, NoPreempt) \in Nat /\ Count(B, NoWork) \in Nat
         /\ Count(Append(B, f), NoPreempt) = Count(B, NoPreempt) + One(f.pc \in NoPreempt)
         /\ Count(Append(B, f), NoWork) = Count(B, NoWork) + One(f.pc \in NoWork)
         /\ Serving(Append(B, f)) <=>
              \/ Len(B) >= 3 /\ Serving(B)
              \/ /\ Len(B) = 2
                 /\ \/ B[2].pc = "soft"
                    \/ /\ B[2].pc = "soft_done"
                       /\ f.pc \in {"process", "scan", "check", "sched_entry", "vm_fault_soft"}
              \/ Len(B) = 1 /\ f.pc = "soft"
  <1> DEFINE A == Append(B, f)
             n == Len(B)
  <1>1. /\ n \in Nat /\ Len(A) = n + 1 /\ A[n + 1] = f /\ A \in Seq(Frames)
        /\ \A i \in 1..n : A[i] = B[i]
    BY AppendFacts
  <1>2. (n = 1 => A[2] = f) /\ (n >= 2 => A[2] = B[2])
    <2> HIDE DEF A, n
    <2> QED BY <1>1
  <1>3. \A places : None(A, places) <=> None(B, places) /\ f.pc \notin places
    BY NoneAppend
  <1>4. \A places : /\ Count(B, places) \in Nat
                    /\ Count(A, places) = Count(B, places) + One(f.pc \in places)
    BY CountAppend
  <1>5. /\ None(A, {"release"}) <=> None(B, {"release"}) /\ f.pc # "release"
        /\ None(A, {"plain_release"}) <=> None(B, {"plain_release"}) /\ f.pc # "plain_release"
    BY <1>3
  <1>6. /\ None(A, NoPreempt) <=> None(B, NoPreempt) /\ f.pc \notin NoPreempt
        /\ None(A, NoWork) <=> None(B, NoWork) /\ f.pc \notin NoWork
        /\ None(A, Masked) <=> None(B, Masked) /\ f.pc \notin Masked
        /\ None(A, Locked) <=> None(B, Locked) /\ f.pc \notin Locked
        /\ None(A, {"soft", "soft_done"})
             <=> None(B, {"soft", "soft_done"}) /\ f.pc \notin {"soft", "soft_done"}
    BY <1>3
  <1>7. /\ Count(B, NoPreempt) \in Nat /\ Count(B, NoWork) \in Nat
        /\ Count(A, NoPreempt) = Count(B, NoPreempt) + One(f.pc \in NoPreempt)
        /\ Count(A, NoWork) = Count(B, NoWork) + One(f.pc \in NoWork)
    BY <1>4
  <1> QED BY <1>1, <1>2, <1>5, <1>6, <1>7, ServingAppend
---------------------------------------------------------------------------
(* One lemma for each action.                                              *)

(* sched_preempt_inc, at the start of a section or of a turn of            *)
(* dw_process.                                                             *)
LEMMA PreemptIncKeeps ==
  ASSUME CpuInv, NEW label, NEW next,
         <<label, next>> \in {<<"scan", "check">>, <<"inc", "disable">>, <<"plain_inc", "plain_acquire">>},
         PreemptInc(label, next)
  PROVE  CpuInv'
  <1>1. Top.pc = label /\ Goto(next) /\ current' = current
    BY DEF PreemptInc, At
  <1>2. next \in Label
    BY DEF Label
  <1>3. FlagsOK'
    BY DEF CpuInv, TypeOK, FlagsOK, PreemptInc
  <1>4. /\ Fits(Below, Top) /\ Below \in Seq(Frames) /\ Top \in Frames
        /\ AgreesOnTop(Below, Top, preempt_counter, deferred_work_status, interrupts,
                       in_interrupt_soft, dw_items, held)
    BY Running
  <1>5. Moved(next).pc = next /\ Moved(next).restores = Top.restores
    BY <1>2, MovedFacts
  <1>6. Fits(Below, Moved(next))
    BY <1>1, <1>4, <1>5 DEF Fits, Calm, Processing, Masked
  <1>7. AgreesOnTop(Below, Moved(next), preempt_counter', deferred_work_status', interrupts',
                    in_interrupt_soft', dw_items', held')
    <2>1. CASE label = "scan" /\ next = "check"
      BY <1>1, <1>4, <1>5, <2>1, OnTop DEF AgreesOnTop, PreemptInc, NoPreempt, NoWork, Masked, One
    <2>2. CASE label = "inc" /\ next = "disable"
      BY <1>1, <1>4, <1>5, <2>2, OnTop DEF AgreesOnTop, PreemptInc, NoPreempt, NoWork, Masked, One
    <2>3. CASE label = "plain_inc" /\ next = "plain_acquire"
      BY <1>1, <1>4, <1>5, <2>3, OnTop DEF AgreesOnTop, PreemptInc, NoPreempt, NoWork, Masked, One
    <2> QED BY <2>1, <2>2, <2>3
  <1> QED BY <1>1, <1>2, <1>3, <1>6, <1>7, GotoKeeps

LEMMA DecExchangeKeeps ==
  ASSUME CpuInv, DecExchange
  PROVE  CpuInv'
  <1>1. Top.pc = "dec" /\ current' = current
    BY DEF DecExchange, At
  <1>2. FlagsOK'
    BY DEF CpuInv, TypeOK, FlagsOK, DecExchange
  <1>3. /\ Fits(Below, Top) /\ Below \in Seq(Frames) /\ Top \in Frames
        /\ AgreesOnTop(Below, Top, preempt_counter, deferred_work_status, interrupts,
                       in_interrupt_soft, dw_items, held)
    BY Running
  <1>4. ASSUME NEW next \in {"dec_yield", "dec_return"}, Goto(next),
               next = "dec_yield" => preempt_counter = 1
        PROVE  CpuInv'
    <2>1. next \in Label
      BY DEF Label
    <2>2. Moved(next).pc = next /\ Moved(next).restores = Top.restores
      BY <2>1, MovedFacts
    <2>3. next = "dec_yield" => None(Below, NoPreempt)
      <3>1. preempt_counter = Count(Below, NoPreempt) + 1 /\ Count(Below, NoPreempt) \in Nat
        BY <1>1, <1>3, OnTop DEF AgreesOnTop, NoPreempt, One
      <3> QED BY <1>3, <1>4, <3>1, CountZero
    <2>4. Fits(Below, Moved(next))
      BY <1>1, <1>3, <2>2, <2>3 DEF Fits, Calm, Processing, Masked
    <2>5. AgreesOnTop(Below, Moved(next), preempt_counter', deferred_work_status', interrupts',
                      in_interrupt_soft', dw_items', held')
      BY <1>1, <1>3, <2>2, OnTop DEF AgreesOnTop, DecExchange, NoPreempt, NoWork, Masked, One
    <2> QED BY <1>1, <1>2, <1>4, <2>1, <2>4, <2>5, GotoKeeps
  <1>5. CASE preempt_counter = 1 /\ Goto(IF yield_immediately THEN "dec_yield" ELSE "dec_return")
    <2>1. yield_immediately \in BOOLEAN
      BY DEF CpuInv, TypeOK
    <2>2. CASE yield_immediately
      BY <1>4, <1>5, <2>2
    <2>3. CASE ~yield_immediately
      BY <1>4, <1>5, <2>3
    <2> QED BY <2>2, <2>3
  <1>6. CASE Goto("dec_return")
    BY <1>4, <1>6
  <1> QED BY <1>5, <1>6 DEF DecExchange

LEMMA DecKeeps ==
  ASSUME CpuInv, Dec
  PROVE  CpuInv'
  <1>1. current' = current /\ preempt_counter' = preempt_counter - 1
    BY DEF Dec
  <1>2. /\ Fits(Below, Top) /\ Below \in Seq(Frames) /\ Top \in Frames
        /\ AgreesOnTop(Below, Top, preempt_counter, deferred_work_status, interrupts,
                       in_interrupt_soft, dw_items, held)
    BY Running
  <1>3. Top.pc \in {"dec_yield", "dec_return"}
    BY DEF Dec, At
  <1>4. preempt_counter = Count(Below, NoPreempt) + 1 /\ Count(Below, NoPreempt) \in Nat
    BY <1>2, <1>3, OnTop DEF AgreesOnTop, NoPreempt, One
  <1>5. FlagsOK'
    BY <1>4 DEF CpuInv, TypeOK, FlagsOK, Dec
  <1>6. CASE At("dec_yield") /\ Goto("yield")
    <2>1. "yield" \in Label
      BY DEF Label
    <2>2. Moved("yield").pc = "yield" /\ Moved("yield").restores = Top.restores
      BY <2>1, MovedFacts
    <2>3. Fits(Below, Moved("yield"))
      BY <1>6, <1>2, <2>2 DEF At, Fits, Calm, Processing, Masked
    <2>4. AgreesOnTop(Below, Moved("yield"), preempt_counter', deferred_work_status', interrupts',
                      in_interrupt_soft', dw_items', held')
      BY <1>6, <1>2, <1>4, <2>2, OnTop
      DEF At, AgreesOnTop, Dec, NoPreempt, NoWork, Masked, One
    <2> QED BY <1>1, <1>5, <1>6, <2>1, <2>3, <2>4, GotoKeeps
  <1>7. CASE At("dec_return") /\ Return
    <2>1. Agrees(Below, preempt_counter', deferred_work_status', interrupts', in_interrupt_soft',
                 dw_items', held')
      <3>1. One("dec_return" \in NoWork) = 0
        BY DEF NoWork, One
      <3>2. "dec_return" \notin Masked
        BY DEF Masked
      <3>3. preempt_counter' = Count(Below, NoPreempt)
        BY <1>1, <1>4
      <3>4. deferred_work_status' = Count(Below, NoWork)
        BY <1>7, <1>2, <3>1, OnTop DEF At, Dec, AgreesOnTop
      <3>5. interrupts' <=> None(Below, Masked)
        BY <1>7, <1>2, <3>2 DEF At, Dec, AgreesOnTop
      <3> QED BY <1>7, <1>2, <3>3, <3>4, <3>5, ReturnAgrees DEF At, Dec
    <2> QED BY <1>1, <1>5, <1>7, <2>1, ReturnKeeps DEF At
  <1> QED BY <1>6, <1>7 DEF Dec
---------------------------------------------------------------------------
(* Only user code is at the bottom of a stack.                             *)
LEMMA Bottom ==
  ASSUME NEW s \in Seq(Frames), Stacked(s), Len(s) = 1
  PROVE  /\ s[1].pc = "user"
         /\ \A places : "user" \notin places => None(s, places)
         /\ Count(s, NoWork) = 0 /\ Count(s, NoPreempt) = 0
  <1>1. SubSeq(s, 1, 1 - 1) = <<>>
    OBVIOUS
  <1>2. Fits(SubSeq(s, 1, 1 - 1), s[1])
    BY DEF Stacked
  <1>3. s[1].pc = "user"
    BY <1>1, <1>2 DEF Fits
  <1>4. \A places : "user" \notin places => None(s, places)
    BY <1>3 DEF None
  <1>5. "user" \notin NoWork /\ "user" \notin NoPreempt
    BY DEF NoWork, NoPreempt
  <1>6. Count(s, NoWork) = 0 /\ Count(s, NoPreempt) = 0
    BY <1>4, <1>5, CountZero
  <1> QED BY <1>3, <1>4, <1>6

(* dw_status_enable at the end of a section and of an interrupt handler.   *)
LEMMA EnableKeeps ==
  ASSUME CpuInv, NEW label, NEW next,
         <<label, next>> \in {<<"enable", "dec">>, <<"soft", "soft_done">>},
         dw_status_enable(label, next), UNCHANGED <<interrupts, in_interrupt_soft>>
  PROVE  CpuInv'
  <1>1. Top.pc = label /\ current' = current
    BY DEF dw_status_enable, At
  <1>2. next \in Label /\ "process" \in Label
    BY DEF Label
  <1>3. /\ Fits(Below, Top) /\ Below \in Seq(Frames) /\ Top \in Frames /\ Stacked(Below)
        /\ Len(Below) \in Nat
        /\ AgreesOnTop(Below, Top, preempt_counter, deferred_work_status, interrupts,
                       in_interrupt_soft, dw_items, held)
    BY Running
  <1>4. deferred_work_status = Count(Below, NoWork) + 1 /\ Count(Below, NoWork) \in Nat
    BY <1>1, <1>3, OnTop DEF AgreesOnTop, NoWork, One
  <1>5. FlagsOK'
    BY <1>4 DEF CpuInv, TypeOK, FlagsOK, dw_status_enable
  <1>6. /\ Moved(next) \in Frames
        /\ Moved(next).pc = next /\ Moved(next).restores = Top.restores
    BY <1>2, MovedFacts
  <1>7. Fits(Below, Moved(next))
    BY <1>1, <1>3, <1>6 DEF Fits, Calm, Processing, Masked
  <1>8. CASE deferred_work_status # 1 /\ Goto(next)
    <2>1. Len(Below) # 1
      BY <1>3, <1>4, <1>8, Bottom
    <2>2. AgreesOnTop(Below, Moved(next), preempt_counter', deferred_work_status', interrupts',
                      in_interrupt_soft', dw_items', held')
      <3>1. CASE label = "enable" /\ next = "dec"
        BY <1>1, <1>3, <1>4, <1>6, <2>1, <3>1, OnTop
        DEF AgreesOnTop, dw_status_enable, NoPreempt, NoWork, Masked, One
      <3>2. CASE label = "soft" /\ next = "soft_done"
        BY <1>1, <1>3, <1>4, <1>6, <2>1, <3>2, OnTop
        DEF AgreesOnTop, dw_status_enable, NoPreempt, NoWork, Masked, One
      <3> QED BY <3>1, <3>2
    <2> QED BY <1>1, <1>2, <1>5, <1>7, <1>8, <2>2, GotoKeeps
  <1>9. CASE deferred_work_status = 1 /\ Call(next, "process")
    <2> DEFINE f == Moved(next)
               g == Frame("process", FALSE)
               C == Append(Below, f)
    <2>1. g \in Frames /\ g.pc = "process"
      BY <1>2, FrameFacts
    <2>2. stack' = [stack EXCEPT ![current] = Below \o <<f, g>>]
      BY <1>9 DEF Call, Moved
    <2>3. None(Below, NoWork)
      BY <1>3, <1>4, <1>9, CountZero
    <2> HIDE DEF f, g
    <2>4. f \in Frames /\ f.pc = next
      BY <1>6 DEF f
    <2>5. Fits(C, g)
      BY <1>3, <2>1, <2>3, <2>4, OnTop DEF Fits, Calm, Processing, Masked, NoWork
    <2>6. AgreesOnTop(C, g, preempt_counter', deferred_work_status', interrupts',
                      in_interrupt_soft', dw_items', held')
      <3> HIDE DEF C
      <3>1. CASE label = "enable" /\ next = "dec"
        BY <1>1, <1>3, <1>4, <2>1, <2>4, <3>1, OnTop
        DEF C, AgreesOnTop, dw_status_enable, NoPreempt, NoWork, Masked, One
      <3>2. CASE label = "soft" /\ next = "soft_done"
        <4>1. /\ preempt_counter' = Count(C, NoPreempt) + One(g.pc \in NoPreempt)
              /\ deferred_work_status' = Count(C, NoWork) + One(g.pc \in NoWork)
          BY <1>1, <1>3, <1>4, <2>1, <2>4, <3>2, OnTop
          DEF C, AgreesOnTop, dw_status_enable, NoPreempt, NoWork, One
        <4>2. /\ interrupts' <=> None(C, Masked) /\ g.pc \notin Masked
              /\ in_interrupt_soft' => ~None(C, {"soft", "soft_done"})
              /\ "nodw" \in held' <=> ~None(C, {"release"}) \/ g.pc = "release"
              /\ "plain" \in held' <=> ~None(C, {"plain_release"}) \/ g.pc = "plain_release"
          BY <1>1, <1>3, <2>1, <2>4, <3>2, OnTop DEF C, AgreesOnTop, dw_status_enable, Masked
        <4>3. ASSUME FaultWaits(dw_items')
              PROVE  \/ Len(C) >= 3 /\ Serving(C)
                     \/ Len(C) = 2 /\ C[2].pc = "soft_done"
          <5>1. \/ Len(Below) >= 3 /\ Serving(Below)
                \/ Len(Below) = 2 /\ Below[2].pc = "soft"
                \/ Len(Below) = 1
            BY <1>1, <1>3, <3>2, <4>3 DEF AgreesOnTop, dw_status_enable
          <5>2. /\ Len(C) = Len(Below) + 1
                /\ Len(Below) = 1 => C[2] = f
                /\ Len(Below) >= 3 /\ Serving(Below) => Serving(C)
                /\ Len(Below) = 2 /\ Below[2].pc = "soft" => Serving(C)
            BY <1>3, <2>4, OnTop DEF C
          <5>3. CASE Len(Below) = 1
            BY <2>4, <3>2, <5>2, <5>3
          <5> QED BY <1>3, <5>1, <5>2, <5>3
        <4> QED BY <2>1, <4>1, <4>2, <4>3 DEF AgreesOnTop
      <3> QED BY <3>1, <3>2
    <2>7. Fits(Below, f)
      BY <1>7 DEF f
    <2> QED BY <1>1, <1>5, <2>1, <2>2, <2>4, <2>5, <2>6, <2>7, CallKeeps
  <1> QED BY <1>8, <1>9 DEF dw_status_enable
(* The same with two functions on top, so that a call can be looked at     *)
(* from what lies below its caller.                                        *)
AgreesOnTwo(B, f, g, preempt, work, int, soft, items, locks) ==
  /\ preempt = Count(B, NoPreempt) + One(f.pc \in NoPreempt) + One(g.pc \in NoPreempt)
  /\ work = Count(B, NoWork) + One(f.pc \in NoWork) + One(g.pc \in NoWork)
  /\ int <=> None(B, Masked) /\ f.pc \notin Masked /\ g.pc \notin Masked
  /\ soft => ~None(B, {"soft", "soft_done"}) \/ {f.pc, g.pc} \cap {"soft", "soft_done"} # {}
  /\ FaultWaits(items) =>
       \/ Len(B) >= 3 /\ Serving(B)
       \/ /\ Len(B) = 2
          /\ \/ B[2].pc = "soft"
             \/ /\ B[2].pc = "soft_done"
                /\ f.pc \in {"process", "scan", "check", "sched_entry", "vm_fault_soft"}
       \/ Len(B) = 1 /\ f.pc = "soft"
  /\ "nodw" \in locks <=> ~None(B, {"release"}) \/ "release" \in {f.pc, g.pc}
  /\ "plain" \in locks <=> ~None(B, {"plain_release"}) \/ "plain_release" \in {f.pc, g.pc}

LEMMA AgreesCall ==
  ASSUME NEW B \in Seq(Frames), NEW f \in Frames, NEW g \in Frames,
         NEW preempt, NEW work, NEW int, NEW soft, NEW items, NEW locks,
         AgreesOnTwo(B, f, g, preempt, work, int, soft, items, locks)
  PROVE  AgreesOnTop(Append(B, f), g, preempt, work, int, soft, items, locks)
  <1> DEFINE C == Append(B, f)
  <1>1. /\ Len(C) = Len(B) + 1 /\ Len(B) \in Nat
        /\ Len(B) = 1 => C[2] = f
        /\ None(C, Masked) <=> None(B, Masked) /\ f.pc \notin Masked
        /\ None(C, {"soft", "soft_done"})
             <=> None(B, {"soft", "soft_done"}) /\ f.pc \notin {"soft", "soft_done"}
        /\ None(C, {"release"}) <=> None(B, {"release"}) /\ f.pc # "release"
        /\ None(C, {"plain_release"}) <=> None(B, {"plain_release"}) /\ f.pc # "plain_release"
        /\ Count(C, NoPreempt) = Count(B, NoPreempt) + One(f.pc \in NoPreempt)
        /\ Count(C, NoWork) = Count(B, NoWork) + One(f.pc \in NoWork)
    BY OnTop
  <1>2. Serving(C) <=>
              \/ Len(B) >= 3 /\ Serving(B)
              \/ /\ Len(B) = 2
                 /\ \/ B[2].pc = "soft"
                    \/ /\ B[2].pc = "soft_done"
                       /\ f.pc \in {"process", "scan", "check", "sched_entry", "vm_fault_soft"}
              \/ Len(B) = 1 /\ f.pc = "soft"
    BY OnTop
  <1> HIDE DEF C
  <1>3. FaultWaits(items) => (Len(C) >= 3 /\ Serving(C)) \/ (Len(C) = 2 /\ C[2].pc = "soft")
    <2> SUFFICES ASSUME FaultWaits(items)
                 PROVE  (Len(C) >= 3 /\ Serving(C)) \/ (Len(C) = 2 /\ C[2].pc = "soft")
      OBVIOUS
    <2>1. Serving(C)
      BY <1>2 DEF AgreesOnTwo
    <2>2. Len(B) >= 2 \/ (Len(B) = 1 /\ f.pc = "soft")
      BY <1>1 DEF AgreesOnTwo
    <2> QED BY <1>1, <2>1, <2>2
  <1>4. /\ preempt = Count(C, NoPreempt) + One(g.pc \in NoPreempt)
        /\ work = Count(C, NoWork) + One(g.pc \in NoWork)
    BY <1>1 DEF AgreesOnTwo
  <1>5. /\ int <=> None(C, Masked) /\ g.pc \notin Masked
        /\ soft => ~None(C, {"soft", "soft_done"}) \/ g.pc \in {"soft", "soft_done"}
        /\ "nodw" \in locks <=> ~None(C, {"release"}) \/ g.pc = "release"
        /\ "plain" \in locks <=> ~None(C, {"plain_release"}) \/ g.pc = "plain_release"
    BY <1>1 DEF AgreesOnTwo
  <1> QED BY <1>3, <1>4, <1>5 DEF AgreesOnTop, C
---------------------------------------------------------------------------
LEMMA ProcessBeginKeeps ==
  ASSUME CpuInv, ProcessBegin
  PROVE  CpuInv'
  <1>1. Top.pc = "process" /\ Goto("scan") /\ current' = current
    BY DEF ProcessBegin, At
  <1>2. "scan" \in Label
    BY DEF Label
  <1>3. FlagsOK'
    BY DEF CpuInv, TypeOK, FlagsOK, ProcessBegin
  <1>4. /\ Fits(Below, Top) /\ Below \in Seq(Frames) /\ Top \in Frames
        /\ AgreesOnTop(Below, Top, preempt_counter, deferred_work_status, interrupts,
                       in_interrupt_soft, dw_items, held)
    BY Running
  <1>5. Moved("scan").pc = "scan" /\ Moved("scan").restores = Top.restores
    BY <1>2, MovedFacts
  <1>6. Fits(Below, Moved("scan"))
    BY <1>1, <1>4, <1>5 DEF Fits, Calm, Processing, Masked
  <1>7. AgreesOnTop(Below, Moved("scan"), preempt_counter', deferred_work_status', interrupts',
                    in_interrupt_soft', dw_items', held')
    BY <1>1, <1>4, <1>5, OnTop DEF AgreesOnTop, ProcessBegin, NoPreempt, NoWork, Masked, One
  <1> QED BY <1>1, <1>2, <1>3, <1>6, <1>7, GotoKeeps

(* The list is empty, or its first item leaves it; the lock of the list is *)
(* released either way.                                                    *)
LEMMA ProcessCheckKeeps ==
  ASSUME CpuInv, ProcessCheck
  PROVE  CpuInv'
  <1>1. Top.pc = "check" /\ current' = current
    BY DEF ProcessCheck, At
  <1>2. /\ Fits(Below, Top) /\ Below \in Seq(Frames) /\ Top \in Frames
        /\ AgreesOnTop(Below, Top, preempt_counter, deferred_work_status, interrupts,
                       in_interrupt_soft, dw_items, held)
    BY Running
  <1>3. dw_items \in Seq({"sched_entry", "vm_fault_soft"})
    BY DEF CpuInv, TypeOK
  <1>4. PICK next \in {"scan_done", "sched_entry", "vm_fault_soft"} :
          /\ Call(next, "dec")
          /\ dw_items' \in Seq({"sched_entry", "vm_fault_soft"})
          /\ FaultWaits(dw_items') => FaultWaits(dw_items) /\ next # "scan_done"
    <2>1. CASE dw_items = <<>> /\ Call("scan_done", "dec") /\ UNCHANGED dw_items
      <3>1. ~FaultWaits(dw_items')
        BY <2>1 DEF FaultWaits
      <3> QED BY <1>3, <2>1, <3>1
    <2>2. CASE dw_items # <<>> /\ Call(Head(dw_items), "dec") /\ dw_items' = Tail(dw_items)
      BY <1>3, <2>2, FaultWaitsTail
    <2> QED BY <2>1, <2>2 DEF ProcessCheck
  <1> DEFINE f == Moved(next)
             g == Frame("dec", FALSE)
  <1>5. f \in Frames /\ g \in Frames /\ f.pc = next /\ g.pc = "dec" /\ f.restores = Top.restores
    <2>1. next \in Label /\ "dec" \in Label
      BY DEF Label
    <2> QED BY <2>1, MovedFacts, FrameFacts
  <1>6. stack' = [stack EXCEPT ![current] = Below \o <<f, g>>]
    BY <1>4 DEF Call, Moved
  <1>7. FlagsOK'
    BY <1>4 DEF CpuInv, TypeOK, FlagsOK, ProcessCheck, flags
  <1> HIDE DEF f, g
  <1>8. Fits(Below, f) /\ Fits(Append(Below, f), g)
    BY <1>1, <1>2, <1>5, OnTop DEF Fits, Calm, Processing, Masked
  <1>9. AgreesOnTwo(Below, f, g, preempt_counter', deferred_work_status', interrupts',
                    in_interrupt_soft', dw_items', held')
    BY <1>1, <1>2, <1>4, <1>5, OnTop
    DEF AgreesOnTwo, AgreesOnTop, ProcessCheck, flags, NoPreempt, NoWork, Masked, One
  <1> QED BY <1>1, <1>2, <1>5, <1>6, <1>7, <1>8, <1>9, AgreesCall, CallKeeps

LEMMA RunItemKeeps ==
  ASSUME CpuInv, RunItem
  PROVE  CpuInv'
  <1>1. Top.pc \in {"sched_entry", "vm_fault_soft"} /\ current' = current /\ Call("scan", "inc")
    BY DEF RunItem, At
  <1>2. /\ Fits(Below, Top) /\ Below \in Seq(Frames) /\ Top \in Frames
        /\ AgreesOnTop(Below, Top, preempt_counter, deferred_work_status, interrupts,
                       in_interrupt_soft, dw_items, held)
    BY Running
  <1> DEFINE f == Moved("scan")
             g == Frame("inc", FALSE)
  <1>3. f \in Frames /\ g \in Frames /\ f.pc = "scan" /\ g.pc = "inc" /\ f.restores = Top.restores
    <2>1. "scan" \in Label /\ "inc" \in Label
      BY DEF Label
    <2> QED BY <2>1, MovedFacts, FrameFacts
  <1>4. stack' = [stack EXCEPT ![current] = Below \o <<f, g>>]
    BY <1>1 DEF Call, Moved
  <1>5. FlagsOK'
    BY DEF CpuInv, TypeOK, FlagsOK, RunItem
  <1> HIDE DEF f, g
  <1>6. Fits(Below, f)
    BY <1>1, <1>2, <1>3 DEF Fits, Calm, Processing, Masked
  <1>7. Fits(Append(Below, f), g)
    <2>1. None(Below, NoWork)
      BY <1>1, <1>2 DEF Fits, Processing
    <2>2. None(Below, Locked)
      BY <2>1 DEF None, NoWork, Locked
    <2> QED BY <1>2, <1>3, <2>2, OnTop DEF Fits, Calm, Processing, Masked, Locked
  <1>8. AgreesOnTwo(Below, f, g, preempt_counter', deferred_work_status', interrupts',
                    in_interrupt_soft', dw_items', held')
    BY SMTT(30), <1>1, <1>2, <1>3, OnTop
    DEF AgreesOnTwo, AgreesOnTop, RunItem, NoPreempt, NoWork, Masked, One
  <1> QED BY <1>1, <1>2, <1>3, <1>4, <1>5, <1>6, <1>7, <1>8, AgreesCall, CallKeeps

LEMMA ProcessDoneKeeps ==
  ASSUME CpuInv, ProcessDone
  PROVE  CpuInv'
  <1>1. Top.pc = "scan_done" /\ Return /\ current' = current
    BY DEF ProcessDone, At
  <1>2. /\ Below \in Seq(Frames) /\ Top \in Frames
        /\ AgreesOnTop(Below, Top, preempt_counter, deferred_work_status, interrupts,
                       in_interrupt_soft, dw_items, held)
    BY Running
  <1>3. /\ preempt_counter = Count(Below, NoPreempt)
        /\ deferred_work_status = Count(Below, NoWork) + 1 /\ Count(Below, NoWork) \in Nat
    BY <1>1, <1>2, OnTop DEF AgreesOnTop, NoPreempt, NoWork, One
  <1>4. FlagsOK'
    BY <1>3 DEF CpuInv, TypeOK, FlagsOK, ProcessDone
  <1>5. interrupts' <=> None(Below, Masked)
    BY <1>1, <1>2 DEF AgreesOnTop, ProcessDone, Masked
  <1>6. Agrees(Below, preempt_counter', deferred_work_status', interrupts', in_interrupt_soft',
               dw_items', held')
    BY <1>1, <1>2, <1>3, <1>5, ReturnAgrees DEF ProcessDone
  <1> QED BY <1>1, <1>4, <1>6, ReturnKeeps
---------------------------------------------------------------------------
LEMMA StatusDisableKeeps ==
  ASSUME CpuInv, StatusDisable
  PROVE  CpuInv'
  <1>1. Top.pc = "disable" /\ Goto("acquire") /\ current' = current
    BY DEF StatusDisable, At
  <1>2. "acquire" \in Label
    BY DEF Label
  <1>3. FlagsOK'
    BY DEF CpuInv, TypeOK, FlagsOK, StatusDisable
  <1>4. /\ Fits(Below, Top) /\ Below \in Seq(Frames) /\ Top \in Frames
        /\ AgreesOnTop(Below, Top, preempt_counter, deferred_work_status, interrupts,
                       in_interrupt_soft, dw_items, held)
    BY Running
  <1>5. Moved("acquire").pc = "acquire" /\ Moved("acquire").restores = Top.restores
    BY <1>2, MovedFacts
  <1>6. Fits(Below, Moved("acquire"))
    BY <1>1, <1>4, <1>5 DEF Fits, Calm, Processing, Masked
  <1>7. AgreesOnTop(Below, Moved("acquire"), preempt_counter', deferred_work_status', interrupts',
                    in_interrupt_soft', dw_items', held')
    BY <1>1, <1>4, <1>5, OnTop DEF AgreesOnTop, StatusDisable, NoPreempt, NoWork, Masked, One
  <1> QED BY <1>1, <1>2, <1>3, <1>6, <1>7, GotoKeeps

(* Nobody below a section has its lock: a section under "nodw" is entered  *)
(* where no other one has deferred work disabled for its lock, one under   *)
(* "plain" from user code.                                                 *)
LEMMA NoLockBelow ==
  ASSUME CpuInv
  PROVE  /\ Top.pc \in {"acquire", "release"} => None(Below, {"release"})
         /\ Top.pc \in {"plain_acquire", "plain_release"} => None(Below, {"plain_release"})
  <1>1. Fits(Below, Top) /\ Below \in Seq(Frames) /\ Stacked(Below)
    BY Running
  <1>2. Top.pc \in {"acquire", "release"} => None(Below, {"release"})
    BY <1>1 DEF Fits, None, Locked
  <1>3. Top.pc \in {"plain_acquire", "plain_release"} => None(Below, {"plain_release"})
    BY <1>1, Bottom DEF Fits
  <1> QED BY <1>2, <1>3

LEMMA AcquireKeeps ==
  ASSUME CpuInv, NEW label, NEW next, NEW lock,
         <<label, next, lock>> \in {<<"acquire", "release", "nodw">>,
                                    <<"plain_acquire", "plain_release", "plain">>},
         Acquire(label, next, lock)
  PROVE  CpuInv'
  <1>1. Top.pc = label /\ Goto(next) /\ current' = current
    BY DEF Acquire, At
  <1>2. next \in Label
    BY DEF Label
  <1>3. FlagsOK'
    BY DEF CpuInv, TypeOK, FlagsOK, Acquire, flags
  <1>4. /\ Fits(Below, Top) /\ Below \in Seq(Frames) /\ Top \in Frames
        /\ AgreesOnTop(Below, Top, preempt_counter, deferred_work_status, interrupts,
                       in_interrupt_soft, dw_items, held)
    BY Running
  <1>5. Moved(next).pc = next /\ Moved(next).restores = Top.restores
    BY <1>2, MovedFacts
  <1>6. Fits(Below, Moved(next))
    BY <1>1, <1>4, <1>5 DEF Fits, Calm, Processing, Masked
  <1>7. AgreesOnTop(Below, Moved(next), preempt_counter', deferred_work_status', interrupts',
                    in_interrupt_soft', dw_items', held')
    <2>1. CASE label = "acquire" /\ next = "release" /\ lock = "nodw"
      BY <1>1, <1>4, <1>5, <2>1, OnTop
      DEF AgreesOnTop, Acquire, flags, NoPreempt, NoWork, Masked, One
    <2>2. CASE label = "plain_acquire" /\ next = "plain_release" /\ lock = "plain"
      BY <1>1, <1>4, <1>5, <2>2, OnTop
      DEF AgreesOnTop, Acquire, flags, NoPreempt, NoWork, Masked, One
    <2> QED BY <2>1, <2>2
  <1> QED BY <1>1, <1>2, <1>3, <1>6, <1>7, GotoKeeps

LEMMA ReleaseKeeps ==
  ASSUME CpuInv, NEW label, NEW next, NEW lock,
         <<label, next, lock>> \in {<<"release", "enable", "nodw">>,
                                    <<"plain_release", "dec", "plain">>},
         Release(label, next, lock)
  PROVE  CpuInv'
  <1>1. Top.pc = label /\ Goto(next) /\ current' = current
    BY DEF Release, At
  <1>2. next \in Label
    BY DEF Label
  <1>3. FlagsOK'
    BY DEF CpuInv, TypeOK, FlagsOK, Release, flags
  <1>4. /\ Fits(Below, Top) /\ Below \in Seq(Frames) /\ Top \in Frames
        /\ AgreesOnTop(Below, Top, preempt_counter, deferred_work_status, interrupts,
                       in_interrupt_soft, dw_items, held)
    BY Running
  <1>5. Moved(next).pc = next /\ Moved(next).restores = Top.restores
    BY <1>2, MovedFacts
  <1>6. Fits(Below, Moved(next))
    BY <1>1, <1>4, <1>5 DEF Fits, Calm, Processing, Masked
  <1>7. AgreesOnTop(Below, Moved(next), preempt_counter', deferred_work_status', interrupts',
                    in_interrupt_soft', dw_items', held')
    <2>1. CASE label = "release" /\ next = "enable" /\ lock = "nodw"
      BY <1>1, <1>4, <1>5, <2>1, OnTop, NoLockBelow
      DEF AgreesOnTop, Release, flags, NoPreempt, NoWork, Masked, One
    <2>2. CASE label = "plain_release" /\ next = "dec" /\ lock = "plain"
      BY <1>1, <1>4, <1>5, <2>2, OnTop, NoLockBelow
      DEF AgreesOnTop, Release, flags, NoPreempt, NoWork, Masked, One
    <2> QED BY <2>1, <2>2
  <1> QED BY <1>1, <1>2, <1>3, <1>6, <1>7, GotoKeeps

LEMMA NointSectionKeeps ==
  ASSUME CpuInv, NointSection
  PROVE  CpuInv'
  <1>1. current' = current
    BY DEF NointSection
  <1>2. /\ Fits(Below, Top) /\ Below \in Seq(Frames) /\ Top \in Frames /\ Stacked(Below)
        /\ AgreesOnTop(Below, Top, preempt_counter, deferred_work_status, interrupts,
                       in_interrupt_soft, dw_items, held)
    BY Running
  <1>3. interrupts \in BOOLEAN /\ Top.restores \in BOOLEAN
    BY <1>2 DEF CpuInv, TypeOK, Frames
  <1>4. CASE /\ At("mask") /\ interrupts' = FALSE
             /\ stack' = [stack EXCEPT ![current] =
                            Below \o <<Frame("unmask", interrupts), Frame("inc", FALSE)>>]
    <2> DEFINE f == Frame("unmask", interrupts)
               g == Frame("inc", FALSE)
    <2>1. f \in Frames /\ g \in Frames /\ f.pc = "unmask" /\ f.restores = interrupts /\ g.pc = "inc"
      <3>1. "unmask" \in Label /\ "inc" \in Label
        BY DEF Label
      <3> QED BY <1>3, <3>1, FrameFacts
    <2>2. FlagsOK'
      BY <1>4 DEF CpuInv, TypeOK, FlagsOK, NointSection, flags
    <2> HIDE DEF f, g
    <2>3. stack' = [stack EXCEPT ![current] = Below \o <<f, g>>]
      BY <1>4 DEF f, g
    <2>4. Len(Below) = 1
      BY <1>2, <1>4 DEF Fits, At
    <2>5. Fits(Below, f)
      BY <1>2, <1>4, <2>1, <2>4 DEF Fits, At, AgreesOnTop, Calm, Processing, Masked
    <2>6. None(Below, Locked)
      BY <1>2, <2>4, Bottom DEF Locked
    <2>7. Fits(Append(Below, f), g)
      BY <1>2, <2>1, <2>6, OnTop DEF Fits, Calm, Processing, Masked, Locked
    <2>8. AgreesOnTwo(Below, f, g, preempt_counter', deferred_work_status', interrupts',
                      in_interrupt_soft', dw_items', held')
      BY <1>2, <1>4, <2>1, OnTop
      DEF At, AgreesOnTwo, AgreesOnTop, NointSection, flags, NoPreempt, NoWork, Masked, One
    <2> QED BY <1>1, <1>2, <2>1, <2>2, <2>3, <2>5, <2>7, <2>8, AgreesCall, CallKeeps
  <1>5. CASE At("unmask") /\ interrupts' = Top.restores /\ Return
    <2>1. FlagsOK'
      BY <1>3, <1>5 DEF CpuInv, TypeOK, FlagsOK, NointSection, flags
    <2>2. interrupts' <=> None(Below, Masked)
      BY <1>2, <1>5 DEF At, Fits, Masked
    <2>3. /\ preempt_counter' = Count(Below, NoPreempt)
          /\ deferred_work_status' = Count(Below, NoWork)
      BY <1>2, <1>5, OnTop DEF At, AgreesOnTop, NointSection, flags, NoPreempt, NoWork, One
    <2>4. Agrees(Below, preempt_counter', deferred_work_status', interrupts', in_interrupt_soft',
                 dw_items', held')
      BY <1>2, <1>5, <2>2, <2>3, ReturnAgrees DEF At, NointSection, flags
    <2> QED BY <1>1, <1>5, <2>1, <2>4, ReturnKeeps DEF At
  <1> QED BY <1>4, <1>5 DEF NointSection
---------------------------------------------------------------------------
(* sched_yield is called where nobody below has preemption disabled.       *)
LEMMA CalmBelow ==
  ASSUME NEW B \in Seq(Frames), NEW f \in Frames, Stacked(B), Fits(B, f), f.pc \in Calm
  PROVE  /\ None(B, NoPreempt) /\ None(B, NoWork) /\ None(B, Locked)
         /\ None(B, {"soft", "soft_done"}) /\ None(B, {"release"}) /\ None(B, {"plain_release"})
         /\ Count(B, NoPreempt) = 0 /\ Count(B, NoWork) = 0
         /\ Len(B) >= 2 => B[2].pc \notin {"soft", "soft_done"}
  <1>1. None(B, NoPreempt)
    BY DEF Fits
  <1>2. None(B, NoWork)
    BY <1>1, CalmHasNoWork
  <1>3. /\ None(B, Locked) /\ None(B, {"soft", "soft_done"})
        /\ None(B, {"release"}) /\ None(B, {"plain_release"})
    BY <1>1 DEF None, NoPreempt, Locked
  <1>4. Count(B, NoPreempt) = 0 /\ Count(B, NoWork) = 0
    BY <1>1, <1>2, CountZero
  <1>5. Len(B) >= 2 => B[2].pc \notin {"soft", "soft_done"}
    <2>1. Len(B) \in Nat
      OBVIOUS
    <2>2. Len(B) >= 2 => 2 \in 1..Len(B)
      BY <2>1
    <2> QED BY <1>1, <2>2 DEF None, NoPreempt
  <1> QED BY <1>1, <1>2, <1>3, <1>4, <1>5

LEMMA YieldMaskKeeps ==
  ASSUME CpuInv, YieldMask
  PROVE  CpuInv'
  <1>1. Top.pc = "yield" /\ current' = current /\ interrupts' = FALSE
    BY DEF YieldMask, At
  <1>2. /\ Fits(Below, Top) /\ Below \in Seq(Frames) /\ Top \in Frames /\ Stacked(Below)
        /\ AgreesOnTop(Below, Top, preempt_counter, deferred_work_status, interrupts,
                       in_interrupt_soft, dw_items, held)
    BY Running
  <1>3. interrupts \in BOOLEAN
    BY DEF CpuInv, TypeOK
  <1> DEFINE f == Frame("switch", interrupts)
             g == Frame("inc", FALSE)
  <1>4. f \in Frames /\ g \in Frames /\ f.pc = "switch" /\ f.restores = interrupts /\ g.pc = "inc"
    <2>1. "switch" \in Label /\ "inc" \in Label
      BY DEF Label
    <2> QED BY <1>3, <2>1, FrameFacts
  <1>5. FlagsOK'
    BY DEF CpuInv, TypeOK, FlagsOK, YieldMask, flags
  <1> HIDE DEF f, g
  <1>6. stack' = [stack EXCEPT ![current] = Below \o <<f, g>>]
    BY DEF f, g, YieldMask
  <1>7. None(Below, NoPreempt) /\ None(Below, Locked)
    BY <1>1, <1>2, CalmBelow DEF Calm
  <1>8. Fits(Below, f)
    BY <1>1, <1>2, <1>4, <1>7 DEF Fits, AgreesOnTop, Calm, Processing, Masked
  <1>9. Fits(Append(Below, f), g)
    BY <1>2, <1>4, <1>7, OnTop DEF Fits, Calm, Processing, Masked, Locked
  <1>10. AgreesOnTwo(Below, f, g, preempt_counter', deferred_work_status', interrupts',
                     in_interrupt_soft', dw_items', held')
    BY <1>1, <1>2, <1>4, OnTop
    DEF AgreesOnTwo, AgreesOnTop, YieldMask, flags, NoPreempt, NoWork, Masked, One
  <1> QED BY <1>1, <1>2, <1>4, <1>5, <1>6, <1>8, <1>9, <1>10, AgreesCall, CallKeeps

(* From one place of sched_yield to the next.                              *)
LEMMA YieldGotoKeeps ==
  ASSUME CpuInv, Top.pc \in {"switch", "resume"}, Goto("event"),
         UNCHANGED <<current, interrupts, flags, dw_items, events, held>>
  PROVE  CpuInv'
  <1>1. "event" \in Label
    BY DEF Label
  <1>2. FlagsOK'
    BY DEF CpuInv, TypeOK, FlagsOK, flags
  <1>3. /\ Fits(Below, Top) /\ Below \in Seq(Frames) /\ Top \in Frames
        /\ AgreesOnTop(Below, Top, preempt_counter, deferred_work_status, interrupts,
                       in_interrupt_soft, dw_items, held)
    BY Running
  <1>4. Moved("event").pc = "event" /\ Moved("event").restores = Top.restores
    BY <1>1, MovedFacts
  <1>5. Fits(Below, Moved("event"))
    BY <1>3, <1>4 DEF Fits, Calm, Processing, Masked
  <1>6. AgreesOnTop(Below, Moved("event"), preempt_counter', deferred_work_status', interrupts',
                    in_interrupt_soft', dw_items', held')
    BY <1>3, <1>4, OnTop DEF AgreesOnTop, flags, NoPreempt, NoWork, Masked, One
  <1> QED BY <1>1, <1>2, <1>5, <1>6, GotoKeeps

(* A section under a lock inside sched_yield.                              *)
LEMMA YieldCallKeeps ==
  ASSUME CpuInv, NEW next \in {"event", "event_more"},
         Top.pc \in {"resume", "event", "event_more"}, Call(next, "inc"),
         UNCHANGED <<current, interrupts, flags, dw_items, events, held>>
  PROVE  CpuInv'
  <1>1. /\ Fits(Below, Top) /\ Below \in Seq(Frames) /\ Top \in Frames /\ Stacked(Below)
        /\ AgreesOnTop(Below, Top, preempt_counter, deferred_work_status, interrupts,
                       in_interrupt_soft, dw_items, held)
    BY Running
  <1> DEFINE f == Moved(next)
             g == Frame("inc", FALSE)
  <1>2. f \in Frames /\ g \in Frames /\ f.pc = next /\ g.pc = "inc" /\ f.restores = Top.restores
    <2>1. next \in Label /\ "inc" \in Label
      BY DEF Label
    <2> QED BY <2>1, MovedFacts, FrameFacts
  <1>3. stack' = [stack EXCEPT ![current] = Below \o <<f, g>>]
    BY DEF Call, Moved
  <1>4. FlagsOK'
    BY DEF CpuInv, TypeOK, FlagsOK, flags
  <1> HIDE DEF f, g
  <1>5. None(Below, NoPreempt) /\ None(Below, Locked)
    BY <1>1, CalmBelow DEF Calm
  <1>6. Fits(Below, f)
    BY <1>1, <1>2, <1>5 DEF Fits, Calm, Processing, Masked
  <1>7. Fits(Append(Below, f), g)
    BY <1>1, <1>2, <1>5, OnTop DEF Fits, Calm, Processing, Masked, Locked
  <1>8. AgreesOnTwo(Below, f, g, preempt_counter', deferred_work_status', interrupts',
                    in_interrupt_soft', dw_items', held')
    BY <1>1, <1>2, OnTop
    DEF AgreesOnTwo, AgreesOnTop, flags, NoPreempt, NoWork, Masked, One
  <1> QED BY <1>1, <1>2, <1>3, <1>4, <1>6, <1>7, <1>8, AgreesCall, CallKeeps

(* The switch: neither the thread that is left nor the one that goes on    *)
(* has anything raised on its stack, so the counters of the CPU are right  *)
(* for both.                                                               *)
LEMMA SwitchKeeps ==
  ASSUME CpuInv, At("switch"), Goto("resume"), NEW t \in Thread \ {current}, current' = t,
         UNCHANGED <<interrupts, flags, dw_items, events, held>>
  PROVE  CpuInv'
  <1>1. /\ Fits(Below, Top) /\ Below \in Seq(Frames) /\ Top \in Frames /\ Stacked(Below)
        /\ AgreesOnTop(Below, Top, preempt_counter, deferred_work_status, interrupts,
                       in_interrupt_soft, dw_items, held)
    BY Running
  <1>2. Top.pc = "switch"
    BY DEF At
  <1>3. /\ None(Below, {"soft", "soft_done"}) /\ None(Below, {"release"}) /\ None(Below, {"plain_release"})
        /\ Count(Below, NoPreempt) = 0 /\ Count(Below, NoWork) = 0 /\ None(Below, NoPreempt)
        /\ Len(Below) >= 2 => Below[2].pc \notin {"soft", "soft_done"}
    BY <1>1, <1>2, CalmBelow DEF Calm
  <1>4. /\ preempt_counter = 0 /\ deferred_work_status = 0
        /\ ~interrupts /\ ~in_interrupt_soft /\ "nodw" \notin held /\ "plain" \notin held
    BY <1>1, <1>2, <1>3 DEF AgreesOnTop, NoPreempt, NoWork, Masked, One
  <1>5. ~FaultWaits(dw_items)
    <2>1. Len(Below) \in Nat
      BY <1>1
    <2> QED BY <1>1, <1>2, <1>3, <2>1 DEF AgreesOnTop, Serving
  <1> DEFINE s == Append(Below, Moved("resume"))
  <1>6. /\ Moved("resume") \in Frames
        /\ Moved("resume").pc = "resume" /\ Moved("resume").restores = Top.restores
    BY MovedFacts DEF Label
  <1>7. stack' = [stack EXCEPT ![current] = s]
    BY <1>1, <1>6, Joined DEF Goto, Moved
  <1>8. s \in Seq(Frames) /\ Len(s) >= 1 /\ s[Len(s)].pc = "resume"
    BY <1>1, <1>6, AppendFacts
  <1>9. Stacked(s)
    <2>1. Fits(Below, Moved("resume"))
      BY <1>1, <1>2, <1>6 DEF Fits, Calm, Processing, Masked
    <2> QED BY <1>1, <1>6, <2>1, StackedAppend
  <1> HIDE DEF s
  <1>10. current \in Thread /\ stack \in [Thread -> Seq(Frames)]
    BY DEF CpuInv, TypeOK, Frames
  <1>11. /\ stack' \in [Thread -> Seq(Frames)] /\ stack'[current] = s
         /\ \A u \in Thread \ {current} : stack'[u] = stack[u]
    BY <1>7, <1>8, <1>10
  <1>12. TypeOK'
    BY <1>11 DEF CpuInv, TypeOK, Frames, flags
  <1>13. \A u \in Thread : Len(stack'[u]) >= 1 /\ Stacked(stack'[u])
    BY <1>8, <1>9, <1>11 DEF CpuInv
  <1>14. \A u \in Thread \ {current'} : stack'[u][Len(stack'[u])].pc = "resume"
    BY <1>8, <1>11 DEF CpuInv
  <1>15. Agrees(stack'[current'], preempt_counter', deferred_work_status', interrupts',
                in_interrupt_soft', dw_items', held')
    <2> DEFINE B == SubSeq(stack[t], 1, Len(stack[t]) - 1)
               f == stack[t][Len(stack[t])]
    <2>1. stack[t] \in Seq(Frames) /\ Len(stack[t]) >= 1 /\ Stacked(stack[t]) /\ f.pc = "resume"
      BY <1>10 DEF CpuInv
    <2>2. B \in Seq(Frames) /\ f \in Frames /\ stack[t] = Append(B, f)
      BY <2>1, StackSplits
    <2> HIDE DEF B, f
    <2>3. Stacked(B) /\ Fits(B, f)
      BY <2>1, <2>2, StackedAppend
    <2>4. /\ None(B, {"soft", "soft_done"}) /\ None(B, {"release"}) /\ None(B, {"plain_release"})
          /\ Count(B, NoPreempt) = 0 /\ Count(B, NoWork) = 0
      BY <2>1, <2>2, <2>3, CalmBelow DEF Calm, f
    <2>5. f.pc = "resume"
      BY <2>1 DEF f
    <2>6. AgreesOnTop(B, f, preempt_counter', deferred_work_status', interrupts',
                      in_interrupt_soft', dw_items', held')
      BY <1>4, <1>5, <2>4, <2>5 DEF AgreesOnTop, flags, NoPreempt, NoWork, Masked, One
    <2>7. stack'[current'] = Append(B, f)
      BY <1>11, <2>2
    <2> QED BY <2>2, <2>6, <2>7, AgreesAppend
  <1> QED BY <1>12, <1>13, <1>14, <1>15 DEF CpuInv

(* The end of sched_yield: interrupts are as they were found.              *)
LEMMA YieldReturnKeeps ==
  ASSUME CpuInv, At("event_more"), Return, events' = events + 1, interrupts' = Top.restores,
         UNCHANGED <<current, flags, dw_items, held>>
  PROVE  CpuInv'
  <1>1. /\ Fits(Below, Top) /\ Below \in Seq(Frames) /\ Top \in Frames
        /\ AgreesOnTop(Below, Top, preempt_counter, deferred_work_status, interrupts,
                       in_interrupt_soft, dw_items, held)
    BY Running
  <1>2. Top.restores \in BOOLEAN
    BY <1>1 DEF Frames
  <1>3. FlagsOK'
    BY <1>2 DEF CpuInv, TypeOK, FlagsOK, flags
  <1>4. interrupts' <=> None(Below, Masked)
    BY <1>1 DEF At, Fits, Masked
  <1>5. /\ preempt_counter' = Count(Below, NoPreempt)
        /\ deferred_work_status' = Count(Below, NoWork)
    BY <1>1, OnTop DEF At, AgreesOnTop, flags, NoPreempt, NoWork, One
  <1>6. Agrees(Below, preempt_counter', deferred_work_status', interrupts', in_interrupt_soft',
               dw_items', held')
    BY <1>1, <1>4, <1>5, ReturnAgrees DEF At, flags
  <1> QED BY <1>3, <1>6, ReturnKeeps DEF At

LEMMA YieldKeeps ==
  ASSUME CpuInv, sched_yield
  PROVE  CpuInv'
  <1>1. CASE YieldMask
    BY <1>1, YieldMaskKeeps
  <1>2. CASE YieldSwitch
    <2>1. CASE \E t \in Thread \ {current} : current' = t /\ Goto("resume")
      BY <1>2, <2>1, SwitchKeeps DEF YieldSwitch
    <2>2. CASE current = Idle /\ Goto("event") /\ UNCHANGED current
      BY <1>2, <2>2, YieldGotoKeeps DEF YieldSwitch, At
    <2> QED BY <1>2, <2>1, <2>2 DEF YieldSwitch
  <1>3. CASE YieldDrop
    <2>1. CASE Goto("event")
      BY <1>3, <2>1, YieldGotoKeeps DEF YieldDrop, At
    <2>2. CASE Call("event", "inc")
      BY <1>3, <2>2, YieldCallKeeps DEF YieldDrop, At
    <2> QED BY <1>3, <2>1, <2>2 DEF YieldDrop
  <1>4. CASE YieldEvent
    <2>1. CASE /\ At("event") \/ At("event_more")
               /\ Call("event_more", "inc") /\ UNCHANGED <<interrupts, events>>
      BY <1>4, <2>1, YieldCallKeeps DEF YieldEvent, At
    <2>2. CASE At("event_more") /\ Return /\ events' = events + 1 /\ interrupts' = Top.restores
      BY <1>4, <2>2, YieldReturnKeeps DEF YieldEvent
    <2> QED BY <1>4, <2>1, <2>2 DEF YieldEvent
  <1> QED BY <1>1, <1>2, <1>3, <1>4 DEF sched_yield
---------------------------------------------------------------------------
(* An interrupt puts its handler on top of whatever runs.  Only a page     *)
(* fault of user code brings a vm_fault_soft.                              *)
LEMMA InterruptKeeps ==
  ASSUME CpuInv, NEW items \in Seq({"sched_entry", "vm_fault_soft"}), interrupts,
         FaultWaits(items) => At("user"), events' \in Nat, Interrupt(items)
  PROVE  CpuInv'
  <1> DEFINE S == stack[current]
             f == Frame("soft", interrupts)
             s == Append(S, f)
  <1>1. /\ S \in Seq(Frames) /\ Len(S) >= 1 /\ Stacked(S)
        /\ Agrees(S, preempt_counter, deferred_work_status, interrupts, in_interrupt_soft,
                  dw_items, held)
    BY DEF CpuInv, TypeOK, Frames
  <1>2. f \in Frames /\ f.pc = "soft" /\ f.restores
    <2>1. "soft" \in Label /\ interrupts \in BOOLEAN
      BY DEF Label, CpuInv, TypeOK
    <2> QED BY <2>1, FrameFacts
  <1>3. FlagsOK'
    BY FaultWaitsJoin DEF CpuInv, TypeOK, FlagsOK, Interrupt
  <1>4. current' = current /\ stack' = [stack EXCEPT ![current] = s]
    <2>1. current \in Thread /\ stack \in [Thread -> Seq(Frames)]
      BY DEF CpuInv, TypeOK, Frames
    <2> QED BY <2>1 DEF Interrupt
  <1>5. At("user") => Len(S) = 1
    <2>1. S = Append(Below, Top) /\ Below \in Seq(Frames) /\ Top \in Frames
      BY Running
    <2>2. At("user") => Len(Below) = 0
      BY Running DEF At, Fits
    <2> QED BY <2>1, <2>2, AppendFacts
  <1> HIDE DEF S, f
  <1>6. s \in Seq(Frames) /\ Len(s) >= 1
    BY <1>1, <1>2, AppendFacts
  <1>7. None(S, Masked)
    BY <1>1 DEF Agrees
  <1>8. Stacked(s)
    <2>1. Fits(S, f)
      <3>1. Len(S) # 0
        BY <1>1
      <3> QED BY <1>2, <1>7, <3>1 DEF Fits, Calm, Processing, Masked
    <2> QED BY <1>1, <1>2, <2>1, StackedAppend
  <1>9. AgreesOnTop(S, f, preempt_counter', deferred_work_status', interrupts',
                    in_interrupt_soft', dw_items', held')
    <2>1. /\ preempt_counter' = Count(S, NoPreempt) + One(f.pc \in NoPreempt)
          /\ deferred_work_status' = Count(S, NoWork) + One(f.pc \in NoWork)
      BY <1>1, <1>2 DEF Agrees, Interrupt, NoPreempt, NoWork, One
    <2>2. /\ interrupts' <=> None(S, Masked) /\ f.pc \notin Masked
          /\ in_interrupt_soft' => f.pc \in {"soft", "soft_done"}
          /\ "nodw" \in held' <=> ~None(S, {"release"}) \/ f.pc = "release"
          /\ "plain" \in held' <=> ~None(S, {"plain_release"}) \/ f.pc = "plain_release"
      BY <1>1, <1>2, <1>7 DEF Agrees, Interrupt, Masked
    <2>3. FaultWaits(dw_items') => Len(S) = 1 \/ Serving(S)
      <3>1. FaultWaits(dw_items') => FaultWaits(items) \/ FaultWaits(dw_items)
        <4>1. dw_items \in Seq({"sched_entry", "vm_fault_soft"})
          BY DEF CpuInv, TypeOK
        <4> QED BY <4>1, FaultWaitsJoin DEF Interrupt
      <3> QED BY <1>1, <1>5, <3>1 DEF Agrees
    <2>4. Serving(S) => \/ Len(S) >= 3
                        \/ Len(S) = 2 /\ S[2].pc = "soft"
      <3>1. Len(S) \in Nat
        BY <1>1
      <3>2. Len(S) >= 3 \/ Len(S) = 2 \/ Len(S) = 1 \/ Len(S) = 0
        BY <3>1, UpToThree, Zenon
      <3>3. CASE Len(S) = 2
        BY <3>3 DEF Serving
      <3>4. CASE Len(S) = 1
        BY <3>4 DEF Serving
      <3>5. CASE Len(S) = 0
        BY <3>5 DEF Serving
      <3> QED BY <3>2, <3>3, <3>4, <3>5
    <2> QED BY <1>2, <2>1, <2>2, <2>3, <2>4 DEF AgreesOnTop
  <1>10. Agrees(s, preempt_counter', deferred_work_status', interrupts', in_interrupt_soft',
                dw_items', held')
    BY <1>1, <1>2, <1>9, AgreesAppend
  <1> HIDE DEF s
  <1> QED BY <1>3, <1>4, <1>6, <1>8, <1>10, StepKeeps

LEMMA TakeInterruptKeeps ==
  ASSUME CpuInv, TakeInterrupt
  PROVE  CpuInv'
  <1>1. interrupts /\ events \in Nat
    BY DEF TakeInterrupt, CpuInv, TypeOK
  <1>2. CASE \E n \in 1..events :
               Interrupt([i \in 1..n |-> "sched_entry"]) /\ events' = events - n
    <2>1. PICK n \in 1..events :
            Interrupt([i \in 1..n |-> "sched_entry"]) /\ events' = events - n
      BY <1>2
    <2>2. n \in Nat /\ events' \in Nat
      BY <1>1, <2>1
    <2> QED BY <1>1, <2>1, <2>2, NoFaultInEntries, InterruptKeeps
  <1>3. CASE Interrupt(<<>>) /\ UNCHANGED events
    <2>1. <<>> \in Seq({"sched_entry", "vm_fault_soft"}) /\ ~FaultWaits(<<>>)
      BY DEF FaultWaits
    <2> QED BY <1>1, <1>3, <2>1, InterruptKeeps
  <1> QED BY <1>2, <1>3 DEF TakeInterrupt

LEMMA PageFaultKeeps ==
  ASSUME CpuInv, PageFault
  PROVE  CpuInv'
  <1>1. At("user") /\ Interrupt(<<"vm_fault_soft">>) /\ events' \in Nat
    BY DEF PageFault, CpuInv, TypeOK
  <1>2. interrupts
    <2>1. Top.pc = "user" /\ Len(Below) = 0
      BY <1>1, Running DEF At, Fits
    <2>2. None(Below, Masked)
      BY <2>1 DEF None
    <2> QED BY <2>1, <2>2, Running DEF AgreesOnTop, Masked
  <1>3. <<"vm_fault_soft">> \in Seq({"sched_entry", "vm_fault_soft"})
    OBVIOUS
  <1> QED BY <1>1, <1>2, <1>3, InterruptKeeps

(* The end of the handler: when it was the first on the stack, its fault   *)
(* is off the list.                                                        *)
LEMMA SoftDoneKeeps ==
  ASSUME CpuInv, At("soft_done"), Call("iret", "dec"), interrupts' = FALSE,
         in_interrupt_soft' = FALSE,
         UNCHANGED <<current, preempt_counter, yield_immediately, deferred_work_status,
                     dw_items, events, held>>
  PROVE  CpuInv'
  <1>1. /\ Fits(Below, Top) /\ Below \in Seq(Frames) /\ Top \in Frames
        /\ AgreesOnTop(Below, Top, preempt_counter, deferred_work_status, interrupts,
                       in_interrupt_soft, dw_items, held)
    BY Running
  <1> DEFINE f == Moved("iret")
             g == Frame("dec", FALSE)
  <1>2. f \in Frames /\ g \in Frames /\ f.pc = "iret" /\ g.pc = "dec" /\ f.restores = Top.restores
    <2>1. "iret" \in Label /\ "dec" \in Label
      BY DEF Label
    <2> QED BY <2>1, MovedFacts, FrameFacts
  <1>3. stack' = [stack EXCEPT ![current] = Below \o <<f, g>>]
    BY DEF Call, Moved
  <1>4. FlagsOK'
    BY DEF CpuInv, TypeOK, FlagsOK
  <1> HIDE DEF f, g
  <1>5. Fits(Below, f)
    BY <1>1, <1>2 DEF At, Fits, Calm, Processing, Masked
  <1>6. Fits(Append(Below, f), g)
    BY <1>1, <1>2, OnTop DEF Fits, Calm, Processing, Masked
  <1>7. AgreesOnTwo(Below, f, g, preempt_counter', deferred_work_status', interrupts',
                    in_interrupt_soft', dw_items', held')
    BY <1>1, <1>2, OnTop DEF At, AgreesOnTwo, AgreesOnTop, NoPreempt, NoWork, Masked, One
  <1> QED BY <1>1, <1>2, <1>3, <1>4, <1>5, <1>6, <1>7, AgreesCall, CallKeeps

LEMMA IretKeeps ==
  ASSUME CpuInv, At("iret"), Return, interrupts' = Top.restores,
         UNCHANGED <<current, flags, dw_items, events, held>>
  PROVE  CpuInv'
  <1>1. /\ Fits(Below, Top) /\ Below \in Seq(Frames) /\ Top \in Frames
        /\ AgreesOnTop(Below, Top, preempt_counter, deferred_work_status, interrupts,
                       in_interrupt_soft, dw_items, held)
    BY Running
  <1>2. Top.restores \in BOOLEAN
    BY <1>1 DEF Frames
  <1>3. FlagsOK'
    BY <1>2 DEF CpuInv, TypeOK, FlagsOK, flags
  <1>4. interrupts' <=> None(Below, Masked)
    BY <1>1 DEF At, Fits, Masked
  <1>5. /\ preempt_counter' = Count(Below, NoPreempt)
        /\ deferred_work_status' = Count(Below, NoWork)
    BY <1>1, OnTop DEF At, AgreesOnTop, flags, NoPreempt, NoWork, One
  <1>6. Agrees(Below, preempt_counter', deferred_work_status', interrupts', in_interrupt_soft',
               dw_items', held')
    BY <1>1, <1>4, <1>5, ReturnAgrees DEF At, flags
  <1> QED BY <1>3, <1>6, ReturnKeeps DEF At

LEMMA SystemCallKeeps ==
  ASSUME CpuInv, SystemCall
  PROVE  CpuInv'
  <1>1. /\ Fits(Below, Top) /\ Below \in Seq(Frames) /\ Top \in Frames
        /\ AgreesOnTop(Below, Top, preempt_counter, deferred_work_status, interrupts,
                       in_interrupt_soft, dw_items, held)
    BY Running
  <1>2. PICK entry \in {"inc", "plain_inc", "mask", "yield"} : Call("user", entry)
    BY DEF SystemCall
  <1> DEFINE f == Moved("user")
             g == Frame(entry, FALSE)
  <1>3. f \in Frames /\ g \in Frames /\ f.pc = "user" /\ g.pc = entry
    <2>1. "user" \in Label /\ entry \in Label
      BY DEF Label
    <2> QED BY <2>1, MovedFacts, FrameFacts
  <1>4. stack' = [stack EXCEPT ![current] = Below \o <<f, g>>] /\ current' = current
    BY <1>2 DEF Call, Moved, SystemCall
  <1>5. FlagsOK'
    BY DEF CpuInv, TypeOK, FlagsOK, SystemCall, flags
  <1> HIDE DEF f, g
  <1>6. Top.pc = "user" /\ Len(Below) = 0
    BY <1>1 DEF SystemCall, At, Fits
  <1>7. None(Below, NoPreempt) /\ None(Below, Locked)
    BY <1>6 DEF None
  <1>8. Fits(Below, f)
    BY <1>3, <1>6 DEF Fits, Calm, Processing, Masked
  <1>9. Fits(Append(Below, f), g)
    <2> DEFINE C == Append(Below, f)
    <2>1. /\ Len(C) = 1
          /\ None(C, NoPreempt) <=> None(Below, NoPreempt) /\ f.pc \notin NoPreempt
          /\ None(C, Locked) <=> None(Below, Locked) /\ f.pc \notin Locked
      <3>1. Len(C) = Len(Below) + 1
        BY <1>1, <1>3, OnTop
      <3>2. Len(C) = 1
        BY <1>6, <3>1
      <3> QED BY <1>1, <1>3, <3>2, OnTop
    <2>2. None(C, NoPreempt) /\ None(C, Locked)
      BY <1>3, <1>7, <2>1 DEF NoPreempt, Locked
    <2> HIDE DEF C
    <2>3. Fits(C, g)
      BY <1>3, <2>1, <2>2 DEF Fits, Calm, Processing, Masked
    <2> QED BY <2>3 DEF C
  <1>10. AgreesOnTwo(Below, f, g, preempt_counter', deferred_work_status', interrupts',
                     in_interrupt_soft', dw_items', held')
    BY <1>1, <1>3, <1>6, OnTop
    DEF AgreesOnTwo, AgreesOnTop, SystemCall, flags, NoPreempt, NoWork, Masked, One
  <1> QED BY <1>1, <1>3, <1>4, <1>5, <1>8, <1>9, <1>10, AgreesCall, CallKeeps
---------------------------------------------------------------------------
(* At first nothing is on a stack but user code and sched_yield.           *)
LEMMA InitHolds == Init => CpuInv
  <1> SUFFICES ASSUME Init PROVE CpuInv
    OBVIOUS
  <1> DEFINE r == Frame("resume", TRUE)
  <1>1. Base \in Frames /\ r \in Frames /\ Base.pc = "user" /\ r.pc = "resume" /\ r.restores
    <2>1. "user" \in Label /\ "resume" \in Label
      BY DEF Label
    <2> QED BY <2>1, FrameFacts DEF Base
  <1>2. <<>> \in Seq(Frames) /\ Len(<<>>) = 0 /\ Stacked(<<>>)
    BY DEF Stacked
  <1> HIDE DEF r
  <1>3. <<Base>> = Append(<<>>, Base) /\ <<Base, r>> = Append(<<Base>>, r)
    <2>1. \A a : <<a>> = Append(<<>>, a)
      OBVIOUS
    <2>2. \A a, b : <<a, b>> = Append(<<a>>, b)
      OBVIOUS
    <2> QED BY <2>1, <2>2, Zenon
  <1>4. <<Base>> \in Seq(Frames) /\ Len(<<Base>>) = 1
    BY <1>1
  <1>5. Stacked(<<Base>>)
    <2>1. Fits(<<>>, Base)
      BY <1>1, <1>2 DEF Fits, Calm, Processing, Masked
    <2> QED BY <1>1, <1>2, <1>3, <2>1, StackedAppend
  <1>6. <<Base, r>> \in Seq(Frames) /\ Len(<<Base, r>>) = 2 /\ <<Base, r>>[2] = r
    BY <1>1
  <1>7. Stacked(<<Base, r>>)
    <2>1. None(<<Base>>, NoPreempt) /\ None(<<Base>>, Masked)
      BY <1>4, <1>5, Bottom DEF NoPreempt, Masked
    <2>2. Fits(<<Base>>, r)
      BY <1>1, <1>4, <2>1 DEF Fits, Calm, Processing, Masked
    <2> QED BY <1>1, <1>3, <1>4, <1>5, <2>2, StackedAppend
  <1>8. TypeOK
    <2>1. stack \in [Thread -> Seq(Frames)]
      BY <1>4, <1>6 DEF Init, r
    <2>2. dw_items \in Seq({"sched_entry", "vm_fault_soft"})
      BY DEF Init
    <2> QED BY <2>1, <2>2 DEF Init, TypeOK, Frames
  <1>9. \A t \in Thread : stack[t] = IF t = current THEN <<Base>> ELSE <<Base, r>>
    BY DEF Init, r
  <1>10. \A t \in Thread : Len(stack[t]) >= 1 /\ Stacked(stack[t])
    BY <1>4, <1>5, <1>6, <1>7, <1>9
  <1>11. \A t \in Thread \ {current} : stack[t][Len(stack[t])].pc = "resume"
    BY <1>1, <1>6, <1>9
  <1>12. Agrees(stack[current], preempt_counter, deferred_work_status, interrupts,
                in_interrupt_soft, dw_items, held)
    <2>1. stack[current] = <<Base>>
      BY <1>9 DEF Init
    <2>2. /\ Count(<<Base>>, NoPreempt) = 0 /\ Count(<<Base>>, NoWork) = 0
          /\ None(<<Base>>, Masked) /\ None(<<Base>>, {"release"}) /\ None(<<Base>>, {"plain_release"})
      BY <1>4, <1>5, Bottom DEF Masked
    <2>3. ~FaultWaits(dw_items)
      BY DEF Init, FaultWaits
    <2> QED BY <2>1, <2>2, <2>3 DEF Init, Agrees
  <1> QED BY <1>8, <1>10, <1>11, <1>12 DEF CpuInv

LEMMA StutterKeeps == CpuInv /\ UNCHANGED vars => CpuInv'
  BY DEF CpuInv, TypeOK, vars, flags

LEMMA NextKeeps == CpuInv /\ [Next]_vars => CpuInv'
  <1> SUFFICES ASSUME CpuInv, [Next]_vars PROVE CpuInv'
    OBVIOUS
  <1>1. CASE DecExchange
    BY <1>1, DecExchangeKeeps
  <1>2. CASE Dec
    BY <1>2, DecKeeps
  <1>3. CASE dw_process
    BY <1>3, ProcessBeginKeeps, PreemptIncKeeps, ProcessCheckKeeps, RunItemKeeps, ProcessDoneKeeps
    DEF dw_process
  <1>4. CASE NodwSection
    BY <1>4, PreemptIncKeeps, StatusDisableKeeps, AcquireKeeps, ReleaseKeeps, EnableKeeps
    DEF NodwSection
  <1>5. CASE PlainSection
    BY <1>5, PreemptIncKeeps, AcquireKeeps, ReleaseKeeps DEF PlainSection
  <1>6. CASE NointSection
    BY <1>6, NointSectionKeeps
  <1>7. CASE sched_yield
    BY <1>7, YieldKeeps
  <1>8. CASE TakeInterrupt
    BY <1>8, TakeInterruptKeeps
  <1>9. CASE PageFault
    BY <1>9, PageFaultKeeps
  <1>10. CASE InterruptExit
    <2>1. CASE dw_status_enable("soft", "soft_done") /\ UNCHANGED <<interrupts, in_interrupt_soft>>
      BY <2>1, EnableKeeps
    <2>2. CASE /\ At("soft_done") /\ Call("iret", "dec")
               /\ interrupts' = FALSE /\ in_interrupt_soft' = FALSE
               /\ UNCHANGED <<current, preempt_counter, yield_immediately, deferred_work_status,
                              dw_items, events, held>>
      BY <2>2, SoftDoneKeeps
    <2>3. CASE /\ At("iret") /\ Return /\ interrupts' = Top.restores
               /\ UNCHANGED <<current, flags, dw_items, events, held>>
      BY <2>3, IretKeeps
    <2> QED BY <1>10, <2>1, <2>2, <2>3 DEF InterruptExit
  <1>11. CASE SystemCall
    BY <1>11, SystemCallKeeps
  <1>12. CASE UNCHANGED vars
    BY <1>12, StutterKeeps
  <1> QED
    BY <1>1, <1>2, <1>3, <1>4, <1>5, <1>6, <1>7, <1>8, <1>9, <1>10, <1>11, <1>12 DEF Next

(* Every counter and flag of the CPU is what the functions on the stack of *)
(* the running thread make of it, under any nesting of interrupts,         *)
(* deferred work, lock sections and yields.                                *)
THEOREM CountersMatchStack == Spec => []CpuInv
  BY InitHolds, NextKeeps, PTL DEF Spec

(* The assertions of sched_yield and of the way back to user code, with    *)
(* the types.                                                              *)
LEMMA InvAsserts == CpuInv => AssertionsHold
  <1> SUFFICES ASSUME CpuInv PROVE AssertionsHold
    OBVIOUS
  <1>1. /\ Fits(Below, Top) /\ Below \in Seq(Frames) /\ Top \in Frames /\ Stacked(Below)
        /\ AgreesOnTop(Below, Top, preempt_counter, deferred_work_status, interrupts,
                       in_interrupt_soft, dw_items, held)
    BY Running
  <1>2. ASSUME At("yield")
        PROVE  preempt_counter = 0 /\ deferred_work_status = 0 /\ ~in_interrupt_soft
    BY <1>1, <1>2, CalmBelow DEF At, AgreesOnTop, Calm, NoPreempt, NoWork, One
  <1>3. ASSUME At("user")
        PROVE  preempt_counter = 0 /\ deferred_work_status = 0 /\ interrupts
    <2>1. Len(Below) = 0
      BY <1>1, <1>3 DEF At, Fits
    <2>2. None(Below, NoPreempt) /\ None(Below, NoWork) /\ None(Below, Masked)
      BY <2>1 DEF None
    <2>3. Count(Below, NoPreempt) = 0 /\ Count(Below, NoWork) = 0
      BY <1>1, <2>2, CountZero
    <2> QED BY <1>1, <1>3, <2>2, <2>3 DEF At, AgreesOnTop, NoPreempt, NoWork, Masked, One
  <1>4. TypeOK
    BY DEF CpuInv
  <1> QED BY <1>2, <1>3, <1>4 DEF AssertionsHold, YieldAsserts, UserRunsOpen

THEOREM AssertionsAlwaysHold == Spec => []AssertionsHold
  BY CountersMatchStack, InvAsserts, PTL

(* A CPU never waits for a lock that it holds itself.                      *)
LEMMA InvNoSelfDeadlock == CpuInv => NoSelfDeadlock
  <1> SUFFICES ASSUME CpuInv PROVE NoSelfDeadlock
    OBVIOUS
  <1>1. AgreesOnTop(Below, Top, preempt_counter, deferred_work_status, interrupts,
                    in_interrupt_soft, dw_items, held)
    BY Running
  <1> QED BY <1>1, NoLockBelow DEF NoSelfDeadlock, At, AgreesOnTop

THEOREM NeverSelfDeadlocks == Spec => []NoSelfDeadlock
  BY CountersMatchStack, InvNoSelfDeadlock, PTL

(* Deferred work is not interrupted by deferred work, and is finished      *)
(* before the CPU goes on to another thread.                               *)
LEMMA InvWorkIsAtomic == CpuInv => WorkIsAtomic
  <1> SUFFICES ASSUME CpuInv PROVE WorkIsAtomic
    OBVIOUS
  <1> DEFINE Places == {"scan", "check", "sched_entry", "vm_fault_soft"}
  <1>1. \A t \in Thread : /\ stack[t] \in Seq(Frames) /\ Len(stack[t]) >= 1 /\ Stacked(stack[t])
                          /\ DOMAIN stack[t] = 1..Len(stack[t])
    <2>1. \A t \in Thread : stack[t] \in Seq(Frames)
      BY DEF CpuInv, TypeOK, Frames
    <2>2. \A s \in Seq(Frames) : DOMAIN s = 1..Len(s)
      OBVIOUS
    <2> QED BY <2>1, <2>2 DEF CpuInv
  <1>2. current \in Thread
    BY DEF CpuInv, TypeOK
  <1>3. ASSUME NEW t \in Thread, NEW i \in Working(t), NEW j \in Working(t), i < j
        PROVE  FALSE
    <2>1. /\ i \in 1..Len(stack[t]) /\ j \in 1..Len(stack[t])
          /\ stack[t][i].pc \in Places /\ stack[t][j].pc \in Places
      BY <1>1, <1>3 DEF Working
    <2>2. None(SubSeq(stack[t], 1, j - 1), NoWork)
      BY <1>1, <2>1 DEF Stacked, Fits, Processing
    <2>3. /\ Len(SubSeq(stack[t], 1, j - 1)) = j - 1
          /\ SubSeq(stack[t], 1, j - 1)[i] = stack[t][i]
      BY <1>1, <1>3, <2>1
    <2>4. i \in 1..(j - 1)
      BY <1>3, <2>1
    <2> QED BY <2>1, <2>2, <2>3, <2>4 DEF None, NoWork
  <1>4. Cardinality(Working(current)) <= 1
    <2>1. \A i, j \in Working(current) : i = j
      <3>1. \A i \in Working(current) : i \in Int
        BY <1>1, <1>2 DEF Working
      <3> QED BY <1>2, <1>3, <3>1
    <2>2. CASE Working(current) = {}
      BY <2>2, FS_EmptySet
    <2>3. CASE Working(current) # {}
      <3>1. PICK i \in Working(current) : Working(current) = {i}
        BY <2>1, <2>3
      <3>2. Cardinality({i}) = 1
        BY FS_Singleton
      <3> QED BY <3>1, <3>2
    <2> QED BY <2>2, <2>3
  <1>5. ASSUME NEW t \in Thread \ {current}
        PROVE  Working(t) = {}
    <2> DEFINE B == SubSeq(stack[t], 1, Len(stack[t]) - 1)
               f == stack[t][Len(stack[t])]
    <2>1. f.pc = "resume"
      BY DEF CpuInv
    <2>2. B \in Seq(Frames) /\ f \in Frames /\ stack[t] = Append(B, f)
      BY <1>1, StackSplits
    <2> HIDE DEF B, f
    <2>3. None(B, NoWork)
      BY <1>1, <2>1, <2>2, StackedAppend, CalmBelow DEF Calm
    <2>4. None(stack[t], NoWork)
      BY <2>1, <2>2, <2>3, OnTop DEF NoWork
    <2> QED BY <1>1, <2>4 DEF None, Working, NoWork
  <1> QED BY <1>4, <1>5 DEF WorkIsAtomic

THEOREM WorkAlwaysAtomic == Spec => []WorkIsAtomic
  BY CountersMatchStack, InvWorkIsAtomic, PTL

(* A page fault has been served when the code that faulted runs again.     *)
LEMMA InvFaultServed == CpuInv => FaultServed
  <1> SUFFICES ASSUME CpuInv, At("user"), NEW i \in DOMAIN dw_items, dw_items[i] = "vm_fault_soft"
               PROVE  FALSE
    BY DEF FaultServed
  <1>1. dw_items \in Seq({"sched_entry", "vm_fault_soft"})
    BY DEF CpuInv, TypeOK
  <1>2. FaultWaits(dw_items)
    BY <1>1 DEF FaultWaits
  <1>3. Len(Below) = 0
    BY Running DEF At, Fits
  <1> QED BY <1>2, <1>3, Running DEF AgreesOnTop

THEOREM FaultsAlwaysServed == Spec => []FaultServed
  BY CountersMatchStack, InvFaultServed, PTL
===========================================================================
