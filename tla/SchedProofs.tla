---------------------------- MODULE SchedProofs ----------------------------
(***************************************************************************)
(* Proofs about the scheduler and, further down, about the mutex on top of *)
(* it.                                                                     *)
(*                                                                         *)
(* The scheduler keeps every thread in one place and a process for as long *)
(* as its threads, for any number of CPUs, threads and processes.          *)
(*                                                                         *)
(* The inductive invariant says where a thread is in terms of its state:   *)
(* the CPU a thread is tied to is Home[t], so only that CPU's queue and    *)
(* the three thread pointers of its sched_yield need to be looked at.      *)
(***************************************************************************)
EXTENDS Mutex, FiniteSetTheorems, TLAPS

In(t, s) == \E i \in 1 .. Len(s) : s[i] = t
NoDup(s) == \A i, j \in 1 .. Len(s) : s[i] = s[j] => i = j

Queued(t) == In(t, thread_queue[Home[t]])
Dead(t) == In(t, dead_threads)

(* A CPU handles its own threads and its own idle thread only.             *)
Homes ==
  \A c \in Cpu :
    /\ current[c] \in Thread => Home[current[c]] = c
    /\ current[c] \in IdleThread => current[c] = Idle[c]
    /\ next[c] \in Thread => Home[next[c]] = c
    /\ next[c] \in IdleThread => next[c] = Idle[c]
    /\ prev[c] \in Thread => Home[prev[c]] = c
    /\ prev[c] \in IdleThread => prev[c] = Idle[c]
    /\ \A t \in Thread : In(t, thread_queue[c]) => Home[t] = c

(* No queue links a thread twice.                                          *)
Queues == (\A c \in Cpu : NoDup(thread_queue[c])) /\ NoDup(dead_threads)

(* What sched_yield knows in each of its phases.                           *)
Phases ==
  \A c \in Cpu :
    /\ next[c] # NoThread => phase[c] = "switch" /\ next[c] # current[c]
    /\ prev[c] # NoThread <=> phase[c] \in {"drop", "reap"}
    /\ prev[c] # current[c]
    /\ phase[c] = "switch" /\ next[c] = NoThread => current[c] = Idle[c]
    /\ phase[c] \in {"pick", "switch"} /\ current[c] = Idle[c] => yield_state[c] = "READY"
    /\ phase[c] = "reap" => prev[c] \in Thread /\ state[prev[c]] = "DESTROY"

(* The state of a thread wherever it can be found.                         *)
Located ==
  \A t \in Thread :
    /\ Queued(t) => state[t] = "READY" /\ prev[Home[t]] # t
    /\ next[Home[t]] = t => state[t] = "ACTIVE"
    /\ current[Home[t]] = t => state[t] = "ACTIVE"
    /\ prev[Home[t]] = t => state[t] \in {"READY", "BLOCK", "DESTROY"}
    /\ Dead(t) => state[t] = "DESTROY" /\ prev[Home[t]] # t
    /\ t \in reaped => state[t] = "DESTROY" /\ prev[Home[t]] # t /\ ~Dead(t)

(* Where a thread can be found in each of its states.                      *)
FoundAt(t) ==
  /\ state[t] = "READY" => Queued(t) \/ prev[Home[t]] = t
  /\ state[t] = "ACTIVE" => next[Home[t]] = t \/ current[Home[t]] = t
  /\ state[t] = "DESTROY" => prev[Home[t]] = t \/ Dead(t) \/ t \in reaped

Found == \A t \in Thread : FoundAt(t)

IdleReady == \A c \in Cpu : state[Idle[c]] = "READY"

(* A process lists the threads that have been created and not yet dropped, *)
(* and has none once it was handed to the reaper.                          *)
Listed ==
  \A t \in Thread, p \in Proc :
    t \in threads[p] <=>
      /\ ProcOf[t] = p
      /\ \/ state[t] \in {"READY", "ACTIVE", "BLOCK"}
         \/ state[t] = "DESTROY" /\ prev[Home[t]] = t /\ phase[Home[t]] = "drop"

Gone ==
  \A p \in Proc : In(p, dead_procs) \/ p \in reaped =>
    /\ threads[p] = {}
    /\ \E u \in Thread : ProcOf[u] = p /\ state[u] # "NEW"

(* What every client of the scheduler keeps, and what this one adds.       *)
Core == TypeOK /\ Homes /\ Queues /\ Phases /\ Located /\ IdleReady
Enabled == \A c \in Cpu : preempt_counter[c] = 0
IInv == Core /\ Found /\ Listed /\ Gone
---------------------------------------------------------------------------
(* What the queue operations do to membership.                             *)
LEMMA PushBack ==
  ASSUME NEW S, NEW s \in Seq(S), NEW t \in S
  PROVE  /\ Append(s, t) \in Seq(S)
         /\ \A u : In(u, Append(s, t)) <=> In(u, s) \/ u = t
         /\ NoDup(s) /\ ~In(t, s) => NoDup(Append(s, t))
<1>1. /\ Append(s, t) \in Seq(S) /\ Len(s) \in Nat /\ Len(Append(s, t)) = Len(s) + 1
      /\ \A i \in 1 .. Len(s) : Append(s, t)[i] = s[i]
      /\ Append(s, t)[Len(s) + 1] = t
  OBVIOUS
<1>2. \A u : In(u, Append(s, t)) <=> In(u, s) \/ u = t
  <2> TAKE u
  <2>1. ASSUME In(u, Append(s, t)) PROVE In(u, s) \/ u = t
    <3>1. PICK i \in 1 .. Len(s) + 1 : Append(s, t)[i] = u
      BY <1>1, <2>1 DEF In
    <3>2. i \in 1 .. Len(s) \/ i = Len(s) + 1
      BY <1>1
    <3> QED
      BY <1>1, <3>1, <3>2 DEF In
  <2>2. ASSUME In(u, s) PROVE In(u, Append(s, t))
    <3>1. PICK i \in 1 .. Len(s) : s[i] = u
      BY <2>2 DEF In
    <3>2. i \in 1 .. Len(Append(s, t)) /\ Append(s, t)[i] = u
      BY <1>1, <3>1
    <3> QED
      BY <3>2 DEF In
  <2>3. In(t, Append(s, t))
    <3>1. Len(s) + 1 \in 1 .. Len(Append(s, t))
      BY <1>1
    <3> QED
      BY <1>1, <3>1 DEF In
  <2> QED
    BY <2>1, <2>2, <2>3
<1>3. ASSUME NoDup(s), ~In(t, s) PROVE NoDup(Append(s, t))
  <2> SUFFICES ASSUME NEW i \in 1 .. Len(s) + 1, NEW j \in 1 .. Len(s) + 1,
                      Append(s, t)[i] = Append(s, t)[j]
               PROVE  i = j
    BY <1>1 DEF NoDup
  <2>1. \A k \in 1 .. Len(s) : Append(s, t)[k] # t
    BY <1>1, <1>3 DEF In
  <2>2. CASE i = Len(s) + 1
    BY <1>1, <2>1, <2>2
  <2>3. CASE j = Len(s) + 1
    BY <1>1, <2>1, <2>3
  <2>4. CASE i # Len(s) + 1 /\ j # Len(s) + 1
    <3>1. i \in 1 .. Len(s) /\ j \in 1 .. Len(s)
      BY <1>1, <2>4
    <3> QED
      BY <1>1, <1>3, <3>1 DEF NoDup
  <2> QED
    BY <2>2, <2>3, <2>4
<1> QED
  BY <1>1, <1>2, <1>3

LEMMA PopFront ==
  ASSUME NEW S, NEW s \in Seq(S), s # <<>>
  PROVE  /\ Head(s) \in S /\ Tail(s) \in Seq(S)
         /\ In(Head(s), s)
         /\ \A u : In(u, s) <=> In(u, Tail(s)) \/ u = Head(s)
         /\ NoDup(s) => NoDup(Tail(s)) /\ ~In(Head(s), Tail(s))
<1>1. /\ Tail(s) \in Seq(S) /\ Len(s) \in Nat /\ Len(s) > 0 /\ Len(Tail(s)) = Len(s) - 1
      /\ Head(s) = s[1] /\ Head(s) \in S
      /\ \A i \in 1 .. Len(s) - 1 : Tail(s)[i] = s[i + 1]
  OBVIOUS
<1>2. In(Head(s), s)
  BY <1>1 DEF In
<1>3. \A u : In(u, s) <=> In(u, Tail(s)) \/ u = Head(s)
  <2> TAKE u
  <2>1. ASSUME In(u, s), u # Head(s) PROVE In(u, Tail(s))
    <3>1. PICK i \in 1 .. Len(s) : s[i] = u
      BY <2>1 DEF In
    <3>2. i - 1 \in 1 .. Len(Tail(s)) /\ Tail(s)[i - 1] = u
      BY <1>1, <2>1, <3>1
    <3> QED
      BY <3>2 DEF In
  <2>2. ASSUME In(u, Tail(s)) PROVE In(u, s)
    <3>1. PICK i \in 1 .. Len(s) - 1 : Tail(s)[i] = u
      BY <1>1, <2>2 DEF In
    <3>2. i + 1 \in 1 .. Len(s) /\ s[i + 1] = u
      BY <1>1, <3>1
    <3> QED
      BY <3>2 DEF In
  <2> QED
    BY <1>2, <2>1, <2>2
<1>4. ASSUME NoDup(s) PROVE NoDup(Tail(s)) /\ ~In(Head(s), Tail(s))
  <2>1. \A i \in 1 .. Len(s) - 1 : i + 1 \in 1 .. Len(s) /\ Tail(s)[i] = s[i + 1]
    BY <1>1
  <2>2. NoDup(Tail(s))
    <3> SUFFICES ASSUME NEW i \in 1 .. Len(s) - 1, NEW j \in 1 .. Len(s) - 1, Tail(s)[i] = Tail(s)[j]
                 PROVE  i = j
      BY <1>1 DEF NoDup
    <3>1. i + 1 = j + 1
      BY <1>4, <2>1 DEF NoDup
    <3> QED
      BY <3>1
  <2>3. ~In(Head(s), Tail(s))
    <3> SUFFICES ASSUME NEW i \in 1 .. Len(s) - 1, Tail(s)[i] = s[1] PROVE FALSE
      BY <1>1 DEF In
    <3>1. i + 1 = 1
      BY <1>1, <1>4, <2>1 DEF NoDup
    <3> QED
      BY <3>1
  <2> QED
    BY <2>2, <2>3
<1> QED
  BY <1>1, <1>2, <1>3, <1>4

LEMMA EmptyQueue == \A t : ~In(t, << >>)
  BY DEF In

(* The names of the model are apart.                                       *)
LEMMA Names ==
  /\ \A c \in Cpu : Idle[c] \in IdleThread /\ Idle[c] \notin Thread
  /\ \A t \in Thread : t \notin IdleThread /\ t # NoThread /\ t \notin Proc /\ Home[t] \in Cpu
  /\ NoThread \notin IdleThread /\ NoThread \notin Thread
  /\ \A c, d \in Cpu : Idle[c] = Idle[d] => c = d
  /\ \A t \in Thread : ProcOf[t] \in Proc \cup {NoProc}
  /\ NoProc \notin Proc
  BY ThreadAssumption DEF IdleThread
---------------------------------------------------------------------------
(* Push(t) as the invariant sees it.                                       *)
LEMMA PushQueue ==
  ASSUME TypeOK, Queues, NEW t \in Thread, ~Queued(t), Push(t)
  PROVE  /\ thread_queue' \in [Cpu -> Seq(Thread)]
         /\ \A d \in Cpu : NoDup(thread_queue'[d])
         /\ \A d \in Cpu, u \in Thread :
              In(u, thread_queue'[d]) <=> In(u, thread_queue[d]) \/ (u = t /\ d = Home[t])
<1> USE Names
<1>1. thread_queue \in [Cpu -> Seq(Thread)] /\ Home[t] \in Cpu
  BY DEF TypeOK
<1>2. /\ Append(thread_queue[Home[t]], t) \in Seq(Thread)
      /\ \A u : In(u, Append(thread_queue[Home[t]], t)) <=> In(u, thread_queue[Home[t]]) \/ u = t
      /\ NoDup(Append(thread_queue[Home[t]], t))
  BY <1>1, PushBack DEF Queues, Queued
<1>3. thread_queue' = [thread_queue EXCEPT ![Home[t]] = Append(thread_queue[Home[t]], t)]
  BY DEF Push
<1>4. /\ thread_queue'[Home[t]] = Append(thread_queue[Home[t]], t)
      /\ \A d \in Cpu : d # Home[t] => thread_queue'[d] = thread_queue[d]
      /\ thread_queue' \in [Cpu -> Seq(Thread)]
  BY <1>1, <1>2, <1>3
<1>5. \A d \in Cpu : NoDup(thread_queue'[d])
  BY <1>2, <1>4 DEF Queues
<1>6. ASSUME NEW d \in Cpu, NEW u \in Thread
      PROVE  In(u, thread_queue'[d]) <=> In(u, thread_queue[d]) \/ (u = t /\ d = Home[t])
  <2>1. CASE d = Home[t]
    <3>1. In(u, thread_queue'[Home[t]]) <=> In(u, thread_queue[Home[t]]) \/ u = t
      BY <1>2, <1>4
    <3> QED
      BY <2>1, <3>1, Zenon
  <2>2. CASE d # Home[t]
    BY <1>4, <2>2
  <2> QED
    BY <2>1, <2>2
<1> QED
  BY <1>4, <1>5, <1>6

(* Taking the first thread off a run queue, as the invariant sees it.      *)
LEMMA PopQueue ==
  ASSUME TypeOK, Homes, Queues, NEW c \in Cpu, thread_queue[c] # <<>>,
         thread_queue' = [thread_queue EXCEPT ![c] = Tail(@)]
  PROVE  /\ Head(thread_queue[c]) \in Thread /\ Home[Head(thread_queue[c])] = c
         /\ Queued(Head(thread_queue[c]))
         /\ thread_queue' \in [Cpu -> Seq(Thread)]
         /\ \A d \in Cpu : NoDup(thread_queue'[d])
         /\ \A d \in Cpu, u \in Thread :
              In(u, thread_queue'[d]) <=> In(u, thread_queue[d]) /\ u # Head(thread_queue[c])
<1> USE Names
<1>1. thread_queue \in [Cpu -> Seq(Thread)]
  BY DEF TypeOK
<1>2. /\ Head(thread_queue[c]) \in Thread /\ Tail(thread_queue[c]) \in Seq(Thread)
      /\ In(Head(thread_queue[c]), thread_queue[c])
      /\ \A u : In(u, thread_queue[c]) <=> In(u, Tail(thread_queue[c])) \/ u = Head(thread_queue[c])
      /\ NoDup(Tail(thread_queue[c])) /\ ~In(Head(thread_queue[c]), Tail(thread_queue[c]))
  BY <1>1, PopFront DEF Queues
<1>3. Home[Head(thread_queue[c])] = c /\ Queued(Head(thread_queue[c]))
  BY <1>2 DEF Homes, Queued
<1>4. /\ thread_queue'[c] = Tail(thread_queue[c])
      /\ \A d \in Cpu : d # c => thread_queue'[d] = thread_queue[d]
      /\ thread_queue' \in [Cpu -> Seq(Thread)]
  BY <1>1, <1>2
<1>5. \A d \in Cpu : d # c => ~In(Head(thread_queue[c]), thread_queue[d])
  BY <1>2, <1>3 DEF Homes
<1> QED
  BY <1>2, <1>3, <1>4, <1>5 DEF Queues
---------------------------------------------------------------------------
LEMMA PickStep ==
  ASSUME Core, NEW c \in Cpu, YieldPick(c)
  PROVE  /\ Core' /\ (Listed => Listed') /\ (Gone => Gone')
         /\ \A u \in Thread : FoundAt(u) => FoundAt(u)'
<1> USE Names DEF Core, IInv, AnyThread
<1>1. CASE thread_queue[c] # <<>>
  <2> DEFINE t == Head(thread_queue[c])
  <2>1. /\ thread_queue' = [thread_queue EXCEPT ![c] = Tail(@)]
        /\ phase[c] = "pick" /\ phase' = [phase EXCEPT ![c] = "switch"]
        /\ state' = [state EXCEPT ![t] = "ACTIVE"]
        /\ next' = [next EXCEPT ![c] = t]
        /\ UNCHANGED <<current, yield_state, prev, preempt_counter, threads, dead_threads,
                dead_procs, reaping, reaped>>
    BY <1>1 DEF YieldPick, Enter, reaperVars
  <2>2. /\ t \in Thread /\ Home[t] = c /\ Queued(t)
        /\ thread_queue' \in [Cpu -> Seq(Thread)]
        /\ \A d \in Cpu : NoDup(thread_queue'[d])
        /\ \A d \in Cpu, u \in Thread :
             In(u, thread_queue'[d]) <=> In(u, thread_queue[d]) /\ u # t
    BY <1>1, <2>1, PopQueue
  <2>3. state[t] = "READY" /\ prev[c] # t /\ current[c] # t
    BY <2>2 DEF Located
  <2> HIDE DEF t
  <2>4. TypeOK'
    BY <2>1, <2>2, <2>3 DEF TypeOK
  <2>5. Homes'
    BY <2>1, <2>2, <2>3 DEF TypeOK, Homes
  <2>6. Queues'
    BY <2>1, <2>2, <2>3 DEF Queues
  <2>7. Phases'
    BY <2>1, <2>2, <2>3 DEF TypeOK, Homes, Phases, Located, Queued, Dead
  <2>8. Located'
    BY <2>1, <2>2, <2>3 DEF TypeOK, Homes, Phases, Located, Queued, Dead
  <2>9. IdleReady'
    BY <2>1, <2>2, <2>3 DEF TypeOK, Homes, Phases, IdleReady
  <2>10. \A u \in Thread : FoundAt(u) => FoundAt(u)'
    BY <2>1, <2>2, <2>3 DEF TypeOK, Homes, Phases, Located, Queued, Dead, Found, FoundAt
  <2>11. Listed => Listed'
    BY <2>1, <2>2, <2>3 DEF TypeOK, Homes, Phases, Located, Queued, Dead, Listed
  <2>12. Gone => Gone'
    BY <2>1, <2>2, <2>3 DEF TypeOK, Gone
  <2> QED
    BY <2>4, <2>5, <2>6, <2>7, <2>8, <2>9, <2>10, <2>11, <2>12
<1>2. CASE thread_queue[c] = <<>>
  <2>1. /\ phase[c] = "pick" /\ phase' = [phase EXCEPT ![c] = "switch"]
        /\ next' = [next EXCEPT ![c] = IF current[c] # Idle[c] THEN Idle[c] ELSE NoThread]
        /\ UNCHANGED <<thread_queue, state, current, yield_state, prev, preempt_counter, threads,
                dead_threads, dead_procs, reaping, reaped>>
    BY <1>2 DEF YieldPick, Enter, reaperVars
  <2>2. TypeOK'
    BY <2>1 DEF TypeOK
  <2>3. Homes'
    BY <2>1 DEF TypeOK, Homes
  <2>4. Queues'
    BY <2>1 DEF Queues
  <2>5. Phases'
    BY <2>1 DEF TypeOK, Homes, Phases, Located, Queued, Dead
  <2>6. Located'
    BY <2>1 DEF TypeOK, Homes, Phases, Located, Queued, Dead
  <2>7. IdleReady'
    BY <2>1 DEF TypeOK, Homes, Phases, IdleReady
  <2>8. \A u \in Thread : FoundAt(u) => FoundAt(u)'
    BY <2>1 DEF TypeOK, Homes, Phases, Located, Queued, Dead, Found, FoundAt
  <2>9. Listed => Listed'
    BY <2>1 DEF TypeOK, Homes, Phases, Located, Queued, Dead, Listed
  <2>10. Gone => Gone'
    BY <2>1 DEF TypeOK, Gone
  <2> QED
    BY <2>2, <2>3, <2>4, <2>5, <2>6, <2>7, <2>8, <2>9, <2>10
<1> QED
  BY <1>1, <1>2

LEMMA SwitchStep ==
  ASSUME Core, NEW c \in Cpu, YieldSwitch(c)
  PROVE  /\ Core' /\ (Listed => Listed') /\ (Gone => Gone')
         /\ \A u \in Thread : FoundAt(u) => FoundAt(u)'
<1> USE Names DEF Core, IInv, AnyThread
<1>1. CASE next[c] # NoThread
  <2>1. /\ phase[c] = "switch" /\ phase' = [phase EXCEPT ![c] = "drop"]
        /\ state' = [state EXCEPT ![current[c]] = yield_state[c]]
        /\ prev' = [prev EXCEPT ![c] = current[c]]
        /\ current' = [current EXCEPT ![c] = next[c]]
        /\ next' = [next EXCEPT ![c] = NoThread]
        /\ UNCHANGED <<thread_queue, yield_state, preempt_counter, threads, dead_threads,
                dead_procs, reaping, reaped>>
    BY <1>1 DEF YieldSwitch, Enter, reaperVars
  <2>2. /\ current[c] # next[c] /\ prev[c] = NoThread
        /\ current[c] \in Thread => state[current[c]] = "ACTIVE" /\ Home[current[c]] = c
        /\ current[c] \in IdleThread => current[c] = Idle[c] /\ yield_state[c] = "READY"
    <3>1. current[c] # next[c] /\ prev[c] = NoThread
      BY <1>1, <2>1 DEF Phases
    <3>2. current[c] \in Thread => state[current[c]] = "ACTIVE" /\ Home[current[c]] = c
      BY DEF Homes, Located
    <3>3. current[c] \in IdleThread => current[c] = Idle[c] /\ yield_state[c] = "READY"
      BY <2>1 DEF Homes, Phases
    <3> QED
      BY <3>1, <3>2, <3>3
  <2>3. TypeOK'
    BY <1>1, <2>1, <2>2 DEF TypeOK
  <2>4. Homes'
    BY <1>1, <2>1, <2>2 DEF TypeOK, Homes
  <2>5. Queues'
    BY <1>1, <2>1, <2>2 DEF Queues
  <2>6. Phases'
    BY <1>1, <2>1, <2>2 DEF TypeOK, Homes, Phases, Located, Queued, Dead
  <2>7. Located'
    BY <1>1, <2>1, <2>2 DEF TypeOK, Homes, Phases, Located, Queued, Dead
  <2>8. IdleReady'
    BY <1>1, <2>1, <2>2 DEF TypeOK, Homes, Phases, IdleReady
  <2>9. \A u \in Thread : FoundAt(u) => FoundAt(u)'
    BY <1>1, <2>1, <2>2 DEF TypeOK, Homes, Phases, Located, Queued, Dead, Found, FoundAt
  <2>10. Listed => Listed'
    BY <1>1, <2>1, <2>2 DEF TypeOK, Homes, Phases, Located, Queued, Dead, Listed
  <2>11. Gone => Gone'
    <3>1. \A u \in Thread : state[u] # "NEW" => state'[u] # "NEW"
      BY <2>1 DEF TypeOK
    <3> QED
      BY <2>1, <3>1 DEF Gone
  <2> QED
    BY <2>3, <2>4, <2>5, <2>6, <2>7, <2>8, <2>9, <2>10, <2>11
<1>2. CASE next[c] = NoThread
  <2>1. /\ phase[c] = "switch" /\ phase' = [phase EXCEPT ![c] = "run"]
        /\ next' = next
        /\ UNCHANGED <<state, prev, current, thread_queue, yield_state, preempt_counter, threads,
                dead_threads, dead_procs, reaping, reaped>>
    BY <1>2 DEF YieldSwitch, Enter, reaperVars, TypeOK
  <2>2. TypeOK'
    BY <1>2, <2>1 DEF TypeOK
  <2>3. Homes'
    BY <1>2, <2>1 DEF TypeOK, Homes
  <2>4. Queues'
    BY <1>2, <2>1 DEF Queues
  <2>5. Phases'
    BY <1>2, <2>1 DEF TypeOK, Homes, Phases, Located, Queued, Dead
  <2>6. Located'
    BY <1>2, <2>1 DEF TypeOK, Homes, Phases, Located, Queued, Dead
  <2>7. IdleReady'
    BY <1>2, <2>1 DEF TypeOK, Homes, Phases, IdleReady
  <2>8. \A u \in Thread : FoundAt(u) => FoundAt(u)'
    BY <1>2, <2>1 DEF TypeOK, Homes, Phases, Located, Queued, Dead, Found, FoundAt
  <2>9. Listed => Listed'
    BY <1>2, <2>1 DEF TypeOK, Homes, Phases, Located, Queued, Dead, Listed
  <2>10. Gone => Gone'
    BY <1>2, <2>1 DEF TypeOK, Gone
  <2> QED
    BY <2>2, <2>3, <2>4, <2>5, <2>6, <2>7, <2>8, <2>9, <2>10
<1> QED
  BY <1>1, <1>2

LEMMA DropStep ==
  ASSUME Core, NEW c \in Cpu, YieldDrop(c)
  PROVE  /\ Core' /\ (Listed => Listed') /\ (Gone => Gone')
         /\ \A u \in Thread : FoundAt(u) => FoundAt(u)'
<1> USE Names DEF Core, IInv, AnyThread
<1>1. /\ phase[c] = "drop" /\ phase' = [phase EXCEPT ![c] = "run"]
      /\ prev' = [prev EXCEPT ![c] = NoThread]
      /\ UNCHANGED <<state, current, yield_state, next, preempt_counter, threads, dead_threads,
              dead_procs, reaping, reaped>>
  BY DEF YieldDrop, Enter, reaperVars
<1>2. CASE prev[c] \in Thread /\ state[prev[c]] = "READY" /\ Push(prev[c])
  <2>1. Home[prev[c]] = c /\ ~Queued(prev[c])
    BY <1>2 DEF Homes, Located
  <2>2. /\ thread_queue' \in [Cpu -> Seq(Thread)]
        /\ \A d \in Cpu : NoDup(thread_queue'[d])
        /\ \A d \in Cpu, u \in Thread :
             In(u, thread_queue'[d]) <=> In(u, thread_queue[d]) \/ (u = prev[c] /\ d = c)
    BY <1>2, <2>1, PushQueue
  <2>3. TypeOK'
    BY <1>1, <1>2, <2>1, <2>2 DEF TypeOK
  <2>4. Homes'
    BY <1>1, <1>2, <2>1, <2>2 DEF TypeOK, Homes
  <2>5. Queues'
    BY <1>1, <1>2, <2>1, <2>2 DEF Queues
  <2>6. Phases'
    BY <1>1, <1>2, <2>1, <2>2 DEF TypeOK, Homes, Phases, Located, Queued, Dead
  <2>7. Located'
    BY <1>1, <1>2, <2>1, <2>2 DEF TypeOK, Homes, Phases, Located, Queued, Dead
  <2>8. IdleReady'
    BY <1>1, <1>2, <2>1, <2>2 DEF TypeOK, Homes, Phases, IdleReady
  <2>9. \A u \in Thread : FoundAt(u) => FoundAt(u)'
    BY <1>1, <1>2, <2>1, <2>2 DEF TypeOK, Homes, Phases, Located, Queued, Dead, Found, FoundAt
  <2>10. Listed => Listed'
    BY <1>1, <1>2, <2>1, <2>2 DEF TypeOK, Homes, Phases, Located, Queued, Dead, Listed
  <2>11. Gone => Gone'
    BY <1>1, <1>2, <2>1, <2>2 DEF TypeOK, Gone
  <2> QED
    BY <2>3, <2>4, <2>5, <2>6, <2>7, <2>8, <2>9, <2>10, <2>11
<1>3. CASE /\ prev[c] \in IdleThread \/ (prev[c] \in Thread /\ state[prev[c]] = "BLOCK")
           /\ UNCHANGED thread_queue
  <2>1. TypeOK'
    BY <1>1, <1>3 DEF TypeOK
  <2>2. Homes'
    BY <1>1, <1>3 DEF TypeOK, Homes
  <2>3. Queues'
    BY <1>1, <1>3 DEF Queues
  <2>4. Phases'
    BY <1>1, <1>3 DEF TypeOK, Homes, Phases, Located, Queued, Dead
  <2>5. Located'
    BY <1>1, <1>3 DEF TypeOK, Homes, Phases, Located, Queued, Dead
  <2>6. IdleReady'
    BY <1>1, <1>3 DEF TypeOK, Homes, Phases, IdleReady
  <2>7. \A u \in Thread : FoundAt(u) => FoundAt(u)'
    BY <1>1, <1>3 DEF TypeOK, Homes, Phases, Located, Queued, Dead, Found, FoundAt
  <2>8. Listed => Listed'
    BY <1>1, <1>3 DEF TypeOK, Homes, Phases, Located, Queued, Dead, Listed
  <2>9. Gone => Gone'
    BY <1>1, <1>3 DEF TypeOK, Gone
  <2> QED
    BY <2>1, <2>2, <2>3, <2>4, <2>5, <2>6, <2>7, <2>8, <2>9
<1> QED
  BY <1>2, <1>3 DEF YieldDrop

LEMMA DestroyedStep ==
  ASSUME IInv, NEW c \in Cpu, DropDestroyed(c)
  PROVE  IInv'
<1> USE Names DEF Core, IInv, AnyThread
<1> DEFINE t == prev[c]  p == ProcOf[t]
<1>1. /\ phase[c] = "drop" /\ phase' = [phase EXCEPT ![c] = "reap"]
      /\ t \in Thread /\ state[t] = "DESTROY"
      /\ UNCHANGED <<state, thread_queue, current, yield_state, next, prev, preempt_counter,
              dead_threads, reaping, reaped>>
  BY DEF DropDestroyed, Enter
<1>2. Home[t] = c /\ ~Dead(t) /\ t \notin reaped
  BY <1>1 DEF Homes, Located
<1>3. CASE p = NoProc /\ UNCHANGED <<threads, dead_procs>>
  <2>1. TypeOK'
    BY <1>1, <1>2, <1>3 DEF TypeOK
  <2>2. Homes'
    BY <1>1, <1>2, <1>3 DEF TypeOK, Homes
  <2>3. Queues'
    BY <1>1, <1>2, <1>3 DEF Queues
  <2>4. Phases'
    BY <1>1, <1>2, <1>3 DEF TypeOK, Homes, Phases, Located, Queued, Dead
  <2>5. Located'
    BY <1>1, <1>2, <1>3 DEF TypeOK, Homes, Phases, Located, Queued, Dead
  <2>6. IdleReady'
    BY <1>1, <1>2, <1>3 DEF TypeOK, Homes, Phases, IdleReady
  <2>7. Found'
    BY <1>1, <1>2, <1>3 DEF TypeOK, Homes, Phases, Located, Queued, Dead, Found, FoundAt
  <2>8. Listed'
    BY <1>1, <1>2, <1>3 DEF TypeOK, Homes, Phases, Located, Queued, Dead, Listed
  <2>9. Gone'
    BY <1>1, <1>2, <1>3 DEF TypeOK, Gone
  <2> QED
    BY <2>1, <2>2, <2>3, <2>4, <2>5, <2>6, <2>7, <2>8, <2>9
<1>4. CASE /\ p # NoProc
           /\ threads' = [threads EXCEPT ![p] = @ \ {t}]
           /\ dead_procs' = IF threads[p] = {t} THEN Append(dead_procs, p) ELSE dead_procs
  <2>1. p \in Proc /\ t \in threads[p]
    BY <1>1, <1>2, <1>4 DEF Listed
  <2>2. /\ dead_procs' \in Seq(Proc)
        /\ \A q : In(q, dead_procs') => In(q, dead_procs) \/ (q = p /\ threads[p] = {t})
    BY <1>4, <2>1, PushBack DEF TypeOK
  <2>3. TypeOK'
    BY <1>1, <1>2, <1>4, <2>1, <2>2 DEF TypeOK
  <2>4. Homes'
    BY <1>1, <1>2, <1>4, <2>1, <2>2 DEF TypeOK, Homes
  <2>5. Queues'
    BY <1>1, <1>2, <1>4, <2>1, <2>2 DEF Queues
  <2>6. Phases'
    BY <1>1, <1>2, <1>4, <2>1, <2>2 DEF TypeOK, Homes, Phases, Located, Queued, Dead
  <2>7. Located'
    BY <1>1, <1>2, <1>4, <2>1, <2>2 DEF TypeOK, Homes, Phases, Located, Queued, Dead
  <2>8. IdleReady'
    BY <1>1, <1>2, <1>4, <2>1, <2>2 DEF TypeOK, Homes, Phases, IdleReady
  <2>9. Found'
    BY <1>1, <1>2, <1>4, <2>1, <2>2 DEF TypeOK, Homes, Phases, Located, Queued, Dead, Found, FoundAt
  <2>10. Listed'
    BY <1>1, <1>2, <1>4, <2>1, <2>2 DEF TypeOK, Homes, Phases, Located, Queued, Dead, Listed
  <2>11. Gone'
    <3> SUFFICES ASSUME NEW q \in Proc, In(q, dead_procs') \/ q \in reaped
                 PROVE  threads'[q] = {} /\ \E u \in Thread : ProcOf[u] = q /\ state[u] # "NEW"
      BY <1>1 DEF Gone
    <3>1. In(q, dead_procs) \/ q \in reaped => q # p
      BY <2>1 DEF Gone
    <3>2. CASE q = p
      BY <1>1, <1>4, <2>1, <2>2, <3>1, <3>2 DEF TypeOK
    <3>3. CASE q # p
      BY <1>4, <2>2, <3>3 DEF TypeOK, Gone
    <3> QED
      BY <3>2, <3>3
  <2> QED
    BY <2>3, <2>4, <2>5, <2>6, <2>7, <2>8, <2>9, <2>10, <2>11
<1> QED
  BY <1>3, <1>4 DEF DropDestroyed

LEMMA ReapedStep ==
  ASSUME IInv, NEW c \in Cpu, DropReap(c)
  PROVE  IInv'
<1> USE Names DEF Core, IInv, AnyThread
<1>1. /\ phase[c] = "reap" /\ phase' = [phase EXCEPT ![c] = "run"]
      /\ prev' = [prev EXCEPT ![c] = NoThread]
      /\ dead_threads' = Append(dead_threads, prev[c])
      /\ UNCHANGED <<state, thread_queue, current, yield_state, next, preempt_counter,
              threads, dead_procs, reaping, reaped>>
  BY DEF DropReap, Enter
<1>2. /\ prev[c] \in Thread /\ state[prev[c]] = "DESTROY" /\ Home[prev[c]] = c
      /\ ~Dead(prev[c]) /\ prev[c] \notin reaped
  BY <1>1 DEF Phases, Homes, Located
<1>3. /\ dead_threads' \in Seq(Thread) /\ NoDup(dead_threads')
      /\ \A u : In(u, dead_threads') <=> In(u, dead_threads) \/ u = prev[c]
  BY <1>1, <1>2, PushBack DEF TypeOK, Queues, Dead
<1>4. TypeOK'
  BY <1>1, <1>2, <1>3 DEF TypeOK
<1>5. Homes'
  BY <1>1, <1>2, <1>3 DEF TypeOK, Homes
<1>6. Queues'
  BY <1>1, <1>2, <1>3 DEF Queues
<1>7. Phases'
  BY <1>1, <1>2, <1>3 DEF TypeOK, Homes, Phases, Located, Queued, Dead
<1>8. Located'
  BY <1>1, <1>2, <1>3 DEF TypeOK, Homes, Phases, Located, Queued, Dead
<1>9. IdleReady'
  BY <1>1, <1>2, <1>3 DEF TypeOK, Homes, Phases, IdleReady
<1>10. Found'
  BY <1>1, <1>2, <1>3 DEF TypeOK, Homes, Phases, Located, Queued, Dead, Found, FoundAt
<1>11. Listed'
  BY <1>1, <1>2, <1>3 DEF TypeOK, Homes, Phases, Located, Queued, Dead, Listed
<1>12. Gone'
  BY <1>1, <1>2, <1>3 DEF TypeOK, Gone
<1> QED
  BY <1>4, <1>5, <1>6, <1>7, <1>8, <1>9, <1>10, <1>11, <1>12

(* Preempt, Exit and the last step of the reaper enter sched_yield.         *)
LEMMA EnterStep ==
  ASSUME Core, NEW c \in Cpu, NEW s \in {"READY", "BLOCK", "DESTROY"},
         phase[c] = "run", current[c] = Idle[c] => s = "READY", sched_yield(c, s),
         UNCHANGED <<state, thread_queue, current, next, prev, preempt_counter,
                     threads, dead_threads, dead_procs, reaped>>,
         reaping' \in {"procs", "threads"}
  PROVE  /\ Core' /\ (Listed => Listed') /\ (Gone => Gone')
         /\ \A u \in Thread : FoundAt(u) => FoundAt(u)'
<1> USE Names DEF Core, IInv, AnyThread
<1>1. /\ phase[c] = "run" /\ phase' = [phase EXCEPT ![c] = "pick"]
      /\ yield_state' = [yield_state EXCEPT ![c] = s]
      /\ UNCHANGED <<state, thread_queue, current, next, prev, preempt_counter,
              threads, dead_threads, dead_procs>>
      /\ reaping' \in {"procs", "threads"} /\ reaped' = reaped
  BY DEF sched_yield, Enter
<1>2. TypeOK'
  BY <1>1 DEF TypeOK
<1>3. Homes'
  BY <1>1 DEF TypeOK, Homes
<1>4. Queues'
  BY <1>1 DEF Queues
<1>5. Phases'
  BY <1>1 DEF TypeOK, Homes, Phases, Located, Queued, Dead
<1>6. Located'
  BY <1>1 DEF TypeOK, Homes, Phases, Located, Queued, Dead
<1>7. IdleReady'
  BY <1>1 DEF TypeOK, Homes, Phases, IdleReady
<1>8. \A u \in Thread : FoundAt(u) => FoundAt(u)'
  BY <1>1 DEF TypeOK, Homes, Phases, Located, Queued, Dead, Found, FoundAt
<1>9. Listed => Listed'
  BY <1>1 DEF TypeOK, Homes, Phases, Located, Queued, Dead, Listed
<1>10. Gone => Gone'
  BY <1>1 DEF TypeOK, Gone
<1> QED
  BY <1>2, <1>3, <1>4, <1>5, <1>6, <1>7, <1>8, <1>9, <1>10

LEMMA SpawnStep ==
  ASSUME IInv, NEW c \in Cpu, Spawn(c)
  PROVE  IInv'
<1> USE Names DEF Core, IInv, AnyThread
<1>1. PICK s \in Thread \ {Reaper}, t \in Thread :
        /\ Runs(c, s) /\ state[t] = "NEW"
        /\ \/ ProcOf[t] = NoProc /\ UNCHANGED threads
           \/ /\ ProcOf[t] # NoProc
              /\ ProcOf[s] = ProcOf[t] \/ \A u \in Thread : ProcOf[u] = ProcOf[t] => state[u] = "NEW"
              /\ threads' = [threads EXCEPT ![ProcOf[t]] = @ \cup {t}]
        /\ state' = [state EXCEPT ![t] = "READY"]
        /\ Push(t)
  BY DEF Spawn
<1>2. UNCHANGED <<current, phase, yield_state, next, prev, preempt_counter,
                  dead_threads, dead_procs, reaping, reaped>>
  BY DEF Spawn
<1>3. /\ state[t] = "NEW" /\ state' = [state EXCEPT ![t] = "READY"]
      /\ ~Queued(t) /\ ~Dead(t) /\ t \notin reaped
      /\ next[Home[t]] # t /\ current[Home[t]] # t /\ prev[Home[t]] # t
      /\ phase[c] = "run" /\ current[c] = s /\ Home[s] = c /\ state[s] = "ACTIVE"
  BY <1>1 DEF Runs, Located, Homes
<1>4. /\ thread_queue' \in [Cpu -> Seq(Thread)]
      /\ \A d \in Cpu : NoDup(thread_queue'[d])
      /\ \A d \in Cpu, u \in Thread :
           In(u, thread_queue'[d]) <=> In(u, thread_queue[d]) \/ (u = t /\ d = Home[t])
  BY <1>1, <1>3, PushQueue
<1>5. /\ threads' \in [Proc -> SUBSET Thread]
      /\ \A p \in Proc : threads'[p] = IF p = ProcOf[t] THEN threads[p] \cup {t} ELSE threads[p]
  <2>1. threads \in [Proc -> SUBSET Thread] /\ ProcOf[t] \in Proc \cup {NoProc}
    BY DEF TypeOK
  <2>2. CASE ProcOf[t] = NoProc
    BY <1>1, <2>1, <2>2
  <2>3. CASE ProcOf[t] # NoProc
    <3>1. threads' = [threads EXCEPT ![ProcOf[t]] = threads[ProcOf[t]] \cup {t}] /\ ProcOf[t] \in Proc
      BY <1>1, <2>1, <2>3
    <3>2. \A p \in Proc : threads'[p] = IF p = ProcOf[t] THEN threads[p] \cup {t} ELSE threads[p]
      BY <2>1, <3>1
    <3>3. threads[ProcOf[t]] \cup {t} \in SUBSET Thread
      BY <2>1, <3>1
    <3>4. threads' \in [Proc -> SUBSET Thread]
      BY <2>1, <3>1, <3>3
    <3> QED
      BY <3>2, <3>4
  <2> QED
    BY <2>2, <2>3
<1>6. \A p \in Proc : In(p, dead_procs) \/ p \in reaped => p # ProcOf[t]
  <2> SUFFICES ASSUME NEW p \in Proc, In(p, dead_procs) \/ p \in reaped, p = ProcOf[t] PROVE FALSE
    OBVIOUS
  <2>1. threads[p] = {} /\ \E u \in Thread : ProcOf[u] = p /\ state[u] # "NEW"
    BY DEF Gone
  <2>2. ProcOf[s] # p
    BY <1>3, <2>1 DEF Listed
  <2> QED
    BY <1>1, <2>1, <2>2
<1>7. TypeOK'
  BY <1>2, <1>3, <1>4, <1>5 DEF TypeOK
<1>8. Homes'
  BY <1>2, <1>3, <1>4, <1>5 DEF TypeOK, Homes
<1>9. Queues'
  BY <1>2, <1>3, <1>4, <1>5 DEF Queues
<1>10. Phases'
  BY <1>2, <1>3, <1>4, <1>5 DEF TypeOK, Homes, Phases, Located, Queued, Dead
<1>11. Located'
  BY <1>2, <1>3, <1>4, <1>5 DEF TypeOK, Homes, Phases, Located, Queued, Dead
<1>12. IdleReady'
  BY <1>2, <1>3, <1>4, <1>5 DEF TypeOK, Homes, Phases, IdleReady
<1>13. Found'
  BY <1>2, <1>3, <1>4, <1>5 DEF TypeOK, Homes, Phases, Located, Queued, Dead, Found, FoundAt
<1>14. Listed'
  <2> SUFFICES ASSUME NEW u \in Thread, NEW p \in Proc
               PROVE  u \in threads'[p] <=>
                        /\ ProcOf[u] = p
                        /\ \/ state'[u] \in {"READY", "ACTIVE", "BLOCK"}
                           \/ state[u] = "DESTROY" /\ prev[Home[u]] = u /\ phase[Home[u]] = "drop"
                              /\ u # t
    BY <1>2, <1>3 DEF TypeOK, Listed
  <2>1. CASE u = t
    BY <1>3, <1>5, <2>1 DEF TypeOK, Listed
  <2>2. CASE u # t
    <3>1. state'[u] = state[u]
      BY <1>3, <2>2 DEF TypeOK
    <3>2. threads'[p] = threads[p] \/ threads'[p] = threads[p] \cup {t}
      BY <1>5
    <3>3. u \in threads'[p] <=> u \in threads[p]
      BY <2>2, <3>2
    <3> QED
      BY <2>2, <3>1, <3>3 DEF Listed
  <2> QED
    BY <2>1, <2>2
<1>15. Gone'
  BY <1>2, <1>3, <1>4, <1>5, <1>6 DEF TypeOK, Gone
<1> QED
  BY <1>7, <1>8, <1>9, <1>10, <1>11, <1>12, <1>13, <1>14, <1>15

LEMMA ReaperStep ==
  ASSUME IInv, NEW c \in Cpu, Reap(c)
  PROVE  IInv'
<1> USE Names DEF Core, IInv, AnyThread
<1>1. /\ phase[c] = "run" /\ current[c] = Reaper /\ Reaper \in Thread
      /\ UNCHANGED <<state, thread_queue, current, next, prev, preempt_counter, threads>>
  BY ThreadAssumption DEF Reap, Runs
<1>2. CASE /\ dead_procs # <<>> /\ reaped' = reaped \cup {Head(dead_procs)}
           /\ dead_procs' = Tail(dead_procs)
           /\ UNCHANGED <<phase, yield_state, dead_threads, reaping>>
  <2>1. /\ Head(dead_procs) \in Proc /\ In(Head(dead_procs), dead_procs)
        /\ dead_procs' \in Seq(Proc)
        /\ \A q : In(q, dead_procs') => In(q, dead_procs)
    BY <1>2, PopFront DEF TypeOK
  <2>2. TypeOK'
    BY <1>1, <1>2, <2>1 DEF TypeOK
  <2>3. Homes'
    BY <1>1, <1>2, <2>1 DEF TypeOK, Homes
  <2>4. Queues'
    BY <1>1, <1>2, <2>1 DEF Queues
  <2>5. Phases'
    BY <1>1, <1>2, <2>1 DEF TypeOK, Homes, Phases, Located, Queued, Dead
  <2>6. Located'
    BY <1>1, <1>2, <2>1 DEF TypeOK, Homes, Phases, Located, Queued, Dead
  <2>7. IdleReady'
    BY <1>1, <1>2, <2>1 DEF TypeOK, Homes, Phases, IdleReady
  <2>8. Found'
    BY <1>1, <1>2, <2>1 DEF TypeOK, Homes, Phases, Located, Queued, Dead, Found, FoundAt
  <2>9. Listed'
    BY <1>1, <1>2, <2>1 DEF TypeOK, Homes, Phases, Located, Queued, Dead, Listed
  <2>10. Gone'
    BY <1>1, <1>2, <2>1 DEF TypeOK, Gone
  <2> QED
    BY <2>2, <2>3, <2>4, <2>5, <2>6, <2>7, <2>8, <2>9, <2>10
<1>3. CASE /\ dead_procs = <<>> /\ reaping' = "threads"
           /\ UNCHANGED <<phase, yield_state, dead_threads, dead_procs, reaped>>
  <2>1. TypeOK'
    BY <1>1, <1>3 DEF TypeOK
  <2>2. Homes'
    BY <1>1, <1>3 DEF TypeOK, Homes
  <2>3. Queues'
    BY <1>1, <1>3 DEF Queues
  <2>4. Phases'
    BY <1>1, <1>3 DEF TypeOK, Homes, Phases, Located, Queued, Dead
  <2>5. Located'
    BY <1>1, <1>3 DEF TypeOK, Homes, Phases, Located, Queued, Dead
  <2>6. IdleReady'
    BY <1>1, <1>3 DEF TypeOK, Homes, Phases, IdleReady
  <2>7. Found'
    BY <1>1, <1>3 DEF TypeOK, Homes, Phases, Located, Queued, Dead, Found, FoundAt
  <2>8. Listed'
    BY <1>1, <1>3 DEF TypeOK, Homes, Phases, Located, Queued, Dead, Listed
  <2>9. Gone'
    BY <1>1, <1>3 DEF TypeOK, Gone
  <2> QED
    BY <2>1, <2>2, <2>3, <2>4, <2>5, <2>6, <2>7, <2>8, <2>9
<1>4. CASE /\ dead_threads # <<>> /\ reaped' = reaped \cup {Head(dead_threads)}
           /\ dead_threads' = Tail(dead_threads)
           /\ UNCHANGED <<phase, yield_state, dead_procs, reaping>>
  <2>1. /\ Head(dead_threads) \in Thread /\ In(Head(dead_threads), dead_threads)
        /\ dead_threads' \in Seq(Thread) /\ NoDup(dead_threads')
        /\ \A u : In(u, dead_threads') <=> In(u, dead_threads) /\ u # Head(dead_threads)
    BY <1>4, PopFront DEF TypeOK, Queues
  <2>2. TypeOK'
    BY <1>1, <1>4, <2>1 DEF TypeOK
  <2>3. Homes'
    BY <1>1, <1>4, <2>1 DEF TypeOK, Homes
  <2>4. Queues'
    BY <1>1, <1>4, <2>1 DEF Queues
  <2>5. Phases'
    BY <1>1, <1>4, <2>1 DEF TypeOK, Homes, Phases, Located, Queued, Dead
  <2>6. Located'
    BY <1>1, <1>4, <2>1 DEF TypeOK, Homes, Phases, Located, Queued, Dead
  <2>7. IdleReady'
    BY <1>1, <1>4, <2>1 DEF TypeOK, Homes, Phases, IdleReady
  <2>8. Found'
    BY <1>1, <1>4, <2>1 DEF TypeOK, Homes, Phases, Located, Queued, Dead, Found, FoundAt
  <2>9. Listed'
    BY <1>1, <1>4, <2>1 DEF TypeOK, Homes, Phases, Located, Queued, Dead, Listed
  <2>10. Gone'
    BY <1>1, <1>4, <2>1 DEF TypeOK, Gone
  <2> QED
    BY <2>2, <2>3, <2>4, <2>5, <2>6, <2>7, <2>8, <2>9, <2>10
<1>5. CASE /\ sched_yield(c, "BLOCK") /\ reaping' = "procs"
           /\ UNCHANGED <<dead_threads, dead_procs, reaped>>
  BY <1>1, <1>5, EnterStep DEF Found
<1> QED
  BY <1>2, <1>3, <1>4, <1>5 DEF Reap

---------------------------------------------------------------------------
LEMMA InitIInv == Init => IInv
<1> SUFFICES ASSUME Init PROVE IInv
  OBVIOUS
<1> USE Names, ThreadAssumption, InitialAssumption, EmptyQueue DEF Init
<1>1. TypeOK
  BY DEF TypeOK, AnyThread
<1>2. \A c \in Cpu : \A t : In(t, thread_queue[c]) => t \in Thread /\ Home[t] = c /\ ProcOf[t] = NoProc
  BY DEF In
<1>3. \A t \in Thread : state[t] = (IF Queued(t) THEN "READY" ELSE "NEW")
  <2> TAKE t \in Thread
  <2>1. Queued(t) <=> \E c \in Cpu : \E i \in 1 .. Len(Initial[c]) : t = Initial[c][i]
    BY <1>2 DEF Queued, In
  <2> QED
    BY <2>1
<1>4. Homes
  BY <1>2 DEF Homes
<1>5. Queues
  BY DEF Queues, NoDup
<1>6. Phases
  BY DEF Phases
<1>7. \A t \in Thread : ~Dead(t) /\ t \notin reaped
                         /\ next[Home[t]] # t /\ current[Home[t]] # t /\ prev[Home[t]] # t
  BY DEF Dead
<1>10. Located /\ Found
  BY <1>3, <1>7 DEF Located, Found, FoundAt
<1>8. IdleReady
  BY DEF IdleReady
<1>9. Listed /\ Gone
  BY <1>2, <1>3 DEF Listed, Gone, Queued
<1> QED
  BY <1>1, <1>4, <1>5, <1>6, <1>8, <1>9, <1>10 DEF IInv, Core

LEMMA StepIInv == IInv /\ [Next]_schedVars => IInv'
<1> SUFFICES ASSUME IInv, [Next]_schedVars PROVE IInv'
  OBVIOUS
<1>1. CASE UNCHANGED schedVars
  BY <1>1 DEF IInv, Core, schedVars, reaperVars, TypeOK, Homes, Queues, Phases, Located, Found,
              FoundAt, IdleReady, Listed, Gone, Queued, Dead
<1>2. ASSUME NEW c \in Cpu, Yield(c) PROVE IInv'
  BY <1>2, PickStep, SwitchStep, DropStep, DestroyedStep, ReapedStep DEF Yield, IInv, Found
<1>3. ASSUME NEW c \in Cpu, Preempt(c) PROVE IInv'
  <2>1. reaping' \in {"procs", "threads"}
    BY <1>3 DEF Preempt, reaperVars, IInv, Core, TypeOK
  <2> QED
    BY <1>3, <2>1, EnterStep DEF Preempt, reaperVars, IInv, Found
<1>4. ASSUME NEW c \in Cpu, Exit(c) PROVE IInv'
  <2>1. reaping' \in {"procs", "threads"}
    BY <1>4 DEF Exit, reaperVars, IInv, Core, TypeOK
  <2>2. phase[c] = "run" /\ current[c] # Idle[c]
    BY <1>4, Names DEF Exit, Runs
  <2> QED
    BY <1>4, <2>1, <2>2, EnterStep DEF Exit, reaperVars, IInv, Found
<1> QED
  BY <1>1, <1>2, <1>3, <1>4, SpawnStep, ReaperStep DEF Next

LEMMA Invariance == Spec => []IInv
<1>1. Init => IInv
  BY InitIInv
<1>2. IInv /\ [Next]_schedVars => IInv'
  BY StepIInv
<1> QED
  BY <1>1, <1>2, PTL DEF Spec

(* No operation of the scheduler itself leaves preemption disabled.        *)
LEMMA EnabledStays == Spec => []Enabled
<1>1. Init => Enabled
  BY DEF Init, Enabled
<1>2. Enabled /\ [Next]_schedVars => Enabled'
  <2> SUFFICES ASSUME [Next]_schedVars PROVE UNCHANGED preempt_counter
    BY DEF Enabled
  <2> QED
    BY DEF Next, schedVars, Yield, YieldPick, YieldSwitch, YieldDrop, DropDestroyed, DropReap,
           Preempt, Spawn, Exit, Reap
<1> QED
  BY <1>1, <1>2, PTL DEF Spec
---------------------------------------------------------------------------
(* The places of a thread are those its state tells of: at most one.       *)
LEMMA PlacesAreOne ==
  ASSUME Core, NEW t \in Thread
  PROVE  /\ Cardinality(Places(t)) <= 1
         /\ Places(t) = {} <=> ~Queued(t) /\ ~Dead(t) /\ current[Home[t]] # t
                               /\ next[Home[t]] # t /\ prev[Home[t]] # t
<1> USE Names DEF Core
<1> DEFINE Q == UNION { { <<"queue", c, i>> : i \in { j \in DOMAIN thread_queue[c] : thread_queue[c][j] = t } } : c \in Cpu }
           D == { <<"dead", NoThread, i>> : i \in { j \in DOMAIN dead_threads : dead_threads[j] = t } }
           C == { <<"current", c, 0>> : c \in { d \in Cpu : current[d] = t } }
           N == { <<"next", c, 0>> : c \in { d \in Cpu : next[d] = t } }
           R == { <<"prev", c, 0>> : c \in { d \in Cpu : prev[d] = t } }
<1>1. Places(t) = Q \cup D \cup C \cup N \cup R
  BY DEF Places
<1>2. \A x : x \in Q <=> \E c \in Cpu : \E i \in DOMAIN thread_queue[c] : thread_queue[c][i] = t /\ x = <<"queue", c, i>>
  OBVIOUS
<1>3. \A x : x \in D <=> \E i \in DOMAIN dead_threads : dead_threads[i] = t /\ x = <<"dead", NoThread, i>>
  OBVIOUS
<1>4. \A x : x \in C <=> \E c \in Cpu : current[c] = t /\ x = <<"current", c, 0>>
  OBVIOUS
<1>5. \A x : x \in N <=> \E c \in Cpu : next[c] = t /\ x = <<"next", c, 0>>
  OBVIOUS
<1>6. \A x : x \in R <=> \E c \in Cpu : prev[c] = t /\ x = <<"prev", c, 0>>
  OBVIOUS
<1> HIDE DEF Q, D, C, N, R
<1>7. /\ Q # {} <=> Queued(t)
      /\ D # {} <=> Dead(t)
      /\ C # {} <=> current[Home[t]] = t
      /\ N # {} <=> next[Home[t]] = t
      /\ R # {} <=> prev[Home[t]] = t
  <2>1. Q # {} <=> Queued(t)
    <3>1. ASSUME Q # {} PROVE Queued(t)
      <4>1. PICK c \in Cpu : \E i \in DOMAIN thread_queue[c] : thread_queue[c][i] = t
        BY <1>2, <3>1
      <4>2. In(t, thread_queue[c])
        BY <4>1 DEF TypeOK, In
      <4> QED
        BY <4>2 DEF Homes, Queued
    <3>2. ASSUME Queued(t) PROVE Q # {}
      <4>1. PICK i \in DOMAIN thread_queue[Home[t]] : thread_queue[Home[t]][i] = t
        BY <3>2 DEF TypeOK, Queued, In
      <4>2. <<"queue", Home[t], i>> \in Q
        BY <1>2, <4>1
      <4> QED
        BY <4>2
    <3> QED
      BY <3>1, <3>2
  <2>2. D # {} <=> Dead(t)
    <3>1. ASSUME D # {} PROVE Dead(t)
      BY <1>3, <3>1 DEF TypeOK, Dead, In
    <3>2. ASSUME Dead(t) PROVE D # {}
      <4>1. PICK i \in DOMAIN dead_threads : dead_threads[i] = t
        BY <3>2 DEF TypeOK, Dead, In
      <4>2. <<"dead", NoThread, i>> \in D
        BY <1>3, <4>1
      <4> QED
        BY <4>2
    <3> QED
      BY <3>1, <3>2
  <2>3. \A c \in Cpu : (current[c] = t \/ next[c] = t \/ prev[c] = t) => c = Home[t]
    BY DEF Homes
  <2>4. C # {} <=> current[Home[t]] = t
    <3>1. current[Home[t]] = t => <<"current", Home[t], 0>> \in C
      BY <1>4
    <3> QED
      BY <1>4, <2>3, <3>1
  <2>5. N # {} <=> next[Home[t]] = t
    <3>1. next[Home[t]] = t => <<"next", Home[t], 0>> \in N
      BY <1>5
    <3> QED
      BY <1>5, <2>3, <3>1
  <2>6. R # {} <=> prev[Home[t]] = t
    <3>1. prev[Home[t]] = t => <<"prev", Home[t], 0>> \in R
      BY <1>6
    <3> QED
      BY <1>6, <2>3, <3>1
  <2> QED
    BY <2>1, <2>2, <2>4, <2>5, <2>6
<1>8. /\ Queued(t) => ~Dead(t) /\ current[Home[t]] # t /\ next[Home[t]] # t /\ prev[Home[t]] # t
      /\ Dead(t) => current[Home[t]] # t /\ next[Home[t]] # t /\ prev[Home[t]] # t
      /\ current[Home[t]] = t => next[Home[t]] # t /\ prev[Home[t]] # t
      /\ next[Home[t]] = t => prev[Home[t]] # t
  BY DEF Located, Phases
<1>9. \A x, y \in Places(t) : x = y
  <2>1. \A x, y \in Q : x = y
    <3> TAKE x, y \in Q
    <3>1. PICK c \in Cpu : \E i \in DOMAIN thread_queue[c] : thread_queue[c][i] = t /\ x = <<"queue", c, i>>
      BY <1>2
    <3>2. PICK d \in Cpu : \E j \in DOMAIN thread_queue[d] : thread_queue[d][j] = t /\ y = <<"queue", d, j>>
      BY <1>2
    <3>3. In(t, thread_queue[c]) /\ In(t, thread_queue[d])
      BY <3>1, <3>2 DEF TypeOK, In
    <3>4. c = d
      BY <3>3 DEF Homes
    <3>5. PICK i \in DOMAIN thread_queue[c] : thread_queue[c][i] = t /\ x = <<"queue", c, i>>
      BY <3>1
    <3>6. PICK j \in DOMAIN thread_queue[c] : thread_queue[c][j] = t /\ y = <<"queue", c, j>>
      BY <3>2, <3>4
    <3>7. i = j
      <4>1. DOMAIN thread_queue[c] = 1 .. Len(thread_queue[c])
        BY DEF TypeOK
      <4> QED
        BY <3>5, <3>6, <4>1 DEF Queues, NoDup
    <3> QED
      BY <3>5, <3>6, <3>7
  <2>2. \A x, y \in D : x = y
    <3> TAKE x, y \in D
    <3>1. PICK i \in DOMAIN dead_threads : dead_threads[i] = t /\ x = <<"dead", NoThread, i>>
      BY <1>3
    <3>2. PICK j \in DOMAIN dead_threads : dead_threads[j] = t /\ y = <<"dead", NoThread, j>>
      BY <1>3
    <3>3. i = j
      <4>1. DOMAIN dead_threads = 1 .. Len(dead_threads)
        BY DEF TypeOK
      <4> QED
        BY <3>1, <3>2, <4>1 DEF Queues, NoDup
    <3> QED
      BY <3>1, <3>2, <3>3
  <2>3. (\A x, y \in C : x = y) /\ (\A x, y \in N : x = y) /\ (\A x, y \in R : x = y)
    BY <1>4, <1>5, <1>6 DEF Homes
  <2> QED
    BY <1>1, <1>7, <1>8, <2>1, <2>2, <2>3
<1>10. Cardinality(Places(t)) <= 1
  <2>1. CASE Places(t) = {}
    BY <2>1, FS_EmptySet
  <2>2. CASE Places(t) # {}
    <3>1. PICK x : x \in Places(t)
      BY <2>2
    <3>2. Places(t) = {x}
      BY <1>9, <3>1
    <3> QED
      BY <3>2, FS_Singleton
  <2> QED
    BY <2>1, <2>2
<1>11. Places(t) = {} <=> Q = {} /\ D = {} /\ C = {} /\ N = {} /\ R = {}
  BY <1>1
<1> QED
  BY <1>7, <1>10, <1>11

LEMMA CoreAsserts == Core /\ Enabled => YieldAsserts
<1> SUFFICES ASSUME Core, Enabled, NEW c \in Cpu
             PROVE  /\ phase[c] = "pick" => preempt_counter[c] = 0
                    /\ phase[c] = "switch" => current[c] # next[c]
                    /\ phase[c] = "switch" /\ next[c] = NoThread => state[current[c]] = yield_state[c]
                    /\ phase[c] = "drop" /\ prev[c] \in Thread =>
                         state[prev[c]] \in {"READY", "BLOCK", "DESTROY"}
  BY DEF YieldAsserts
<1> USE Names DEF Core
<1>1. current[c] # NoThread
  BY DEF TypeOK, AnyThread
<1>2. phase[c] = "switch" => current[c] # next[c]
  BY <1>1 DEF Phases
<1>3. phase[c] = "switch" /\ next[c] = NoThread => state[current[c]] = yield_state[c]
  BY DEF Phases, IdleReady
<1>4. prev[c] \in Thread => state[prev[c]] \in {"READY", "BLOCK", "DESTROY"}
  BY DEF Homes, Located
<1> QED
  BY <1>2, <1>3, <1>4 DEF Enabled

LEMMA IInvAccounts == IInv /\ Enabled => ThreadsAccounted
<1> SUFFICES ASSUME IInv, Enabled PROVE ThreadsAccounted
  OBVIOUS
<1> USE Names DEF IInv, Core
<1>1. ASSUME NEW t \in Thread
      PROVE  Places(t) = {} <=> state[t] = "NEW" \/ t \in reaped \/
                                (state[t] = "BLOCK" /\ \A c \in Cpu : t # prev[c])
  <2>1. (\A c \in Cpu : t # prev[c]) <=> prev[Home[t]] # t
    BY DEF Homes
  <2>2. state[t] \in {"NEW", "READY", "ACTIVE", "BLOCK", "DESTROY"}
    BY DEF TypeOK, AnyThread
  <2> QED
    BY <2>1, <2>2, PlacesAreOne DEF Located, Found, FoundAt
<1>2. OnePlace
  BY <1>1, PlacesAreOne DEF OnePlace
<1>3. YieldAsserts
  BY CoreAsserts
<1> QED
  BY <1>2, <1>3 DEF ThreadsAccounted

LEMMA IInvOutlives == IInv => ProcOutlivesThreads
<1> SUFFICES ASSUME IInv, NEW p \in Proc, p \in reaped, NEW t \in Thread, ProcOf[t] = p
             PROVE  state[t] \in {"NEW", "DESTROY"} /\ \A c \in Cpu : current[c] # t
  BY DEF ProcOutlivesThreads
<1> USE Names DEF IInv, Core
<1>1. t \notin threads[p]
  BY DEF Gone
<1>2. state[t] \in {"NEW", "DESTROY"}
  BY <1>1 DEF TypeOK, AnyThread, Listed
<1>3. \A c \in Cpu : current[c] # t
  BY <1>2 DEF Homes, Located
<1> QED
  BY <1>2, <1>3

(* For every number of CPUs, threads and processes: sched_yield,           *)
(* internal_sched_thread_drop, thread creation, exit and the reaper keep   *)
(* every thread in one place and trip none of the scheduler's assertions.  *)
THEOREM ThreadsStayAccounted == Spec => []ThreadsAccounted
<1>1. IInv /\ Enabled => ThreadsAccounted
  BY IInvAccounts
<1> QED
  BY <1>1, Invariance, EnabledStays, PTL

(* For every number of CPUs, threads and processes: reaper_thread frees a  *)
(* process only after internal_sched_thread_drop has let go of its last    *)
(* thread, so no CPU switches to a thread whose thread->proc is gone.      *)
THEOREM ProcsOutliveThreads == Spec => []ProcOutlivesThreads
<1>1. IInv => ProcOutlivesThreads
  BY IInvOutlives
<1> QED
  BY <1>1, Invariance, PTL
---------------------------------------------------------------------------
(***************************************************************************)
(* The mutex, for any number of CPUs, threads and any SPIN_COUNT.          *)
(*                                                                         *)
(* The thread that holds mutex->lock, and the one that is about to block,  *)
(* cannot be preempted: preempt_counter of their CPU counts them.  What    *)
(* the invariant needs of the other CPUs is that a releaser finds the      *)
(* waiter gone from its own; the first releaser that does not sets raced,  *)
(* and nothing is claimed after it.                                        *)
(***************************************************************************)
Waits(t) == In(t, wait_queue)

MutexTypeOK ==
  /\ mutex_state \in {"UNLOCKED", "LOCKED", "CONTESTED"}
  /\ mutex_lock \in Thread \cup {NoThread} /\ wait_queue \in Seq(Thread)
  /\ pc \in [Thread -> {"out", "spin", "block", "back", "in", "pop", "wake"}]
  /\ spins \in [Thread -> 0 .. SPIN_COUNT]
  /\ woken \in [Thread -> Thread \cup {NoThread}]

(* Who disabled preemption keeps the CPU until it yields.                  *)
Masked == \A t \in Thread : pc[t] \in {"block", "wake"} => Runs(Home[t], t)
(* Nobody exits, and only waiters block.                                   *)
Blocks ==
  /\ \A c \in Cpu : yield_state[c] # "DESTROY"
  /\ \A c \in Cpu : phase[c] \in {"pick", "switch"} /\ yield_state[c] = "BLOCK" =>
       \A t \in Thread : current[c] = t => pc[t] = "back" /\ Waits(t)
  /\ \A t \in Thread : state[t] # "DESTROY" /\ (state[t] = "BLOCK" => Waits(t))

(* A thread in the wait queue is about to block, or has.                   *)
Waiters ==
  /\ NoDup(wait_queue)
  /\ \A t \in Thread : Waits(t) =>
       \/ pc[t] = "block"
       \/ pc[t] = "back" /\ state[t] = "BLOCK"
       \/ /\ pc[t] = "back" /\ current[Home[t]] = t /\ phase[Home[t]] \in {"pick", "switch"}
          /\ yield_state[Home[t]] = "BLOCK"
  /\ \A t \in Thread : pc[t] = "block" => Waits(t)

(* The releaser holds mutex->lock until the thread it took off the wait    *)
(* queue is on a run queue; until then that one is nowhere.                *)
Wakes ==
  /\ \A t \in Thread : mutex_lock = t <=> pc[t] = "wake"
  /\ \A t \in Thread : woken[t] # NoThread <=> pc[t] = "wake"
  /\ \A t \in Thread : pc[t] = "wake" =>
       /\ mutex_state = "CONTESTED"
       /\ woken[t] \in Owner /\ pc[woken[t]] = "back" /\ state[woken[t]] = "READY"
       /\ ~Queued(woken[t]) /\ prev[Home[woken[t]]] # woken[t]

(* The thread a releaser wakes is the only one no CPU and no queue knows.  *)
AllFound == \A t \in Thread : FoundAt(t) \/ \E u \in Thread : woken[u] = t

OwnerIsOne ==
  /\ \A t, u \in Owner : t = u
  /\ mutex_state = "UNLOCKED" <=> Owner = {}

MInv == /\ Core /\ MutexTypeOK /\ PreemptBalanced /\ Masked /\ Blocks /\ Waiters /\ Wakes
        /\ AllFound /\ OwnerIsOne /\ ContestedHasWaiter
---------------------------------------------------------------------------
(* Only the running thread of a CPU can be holding mutex->lock or be about *)
(* to block there, and nobody is while preemption is enabled.              *)
LEMMA Alone ==
  ASSUME MInv, NEW c \in Cpu
  PROVE  /\ \A t \in Thread : Home[t] = c /\ pc[t] \in {"block", "wake"} =>
              phase[c] = "run" /\ current[c] = t
         /\ preempt_counter[c] = 0 =>
              \A t \in Thread : Home[t] = c => pc[t] \notin {"block", "back", "wake"}
<1>1. \A t \in Thread : Home[t] = c /\ pc[t] \in {"block", "wake"} => phase[c] = "run" /\ current[c] = t
  BY DEF MInv, Masked, Runs
<1>2. ASSUME preempt_counter[c] = 0 PROVE Noint(c) = {}
  <2>1. IsFiniteSet(Noint(c))
    BY MutexAssumption, FS_Subset DEF Noint
  <2>2. Cardinality(Noint(c)) = 0
    BY <1>2 DEF MInv, PreemptBalanced
  <2> QED
    BY <2>1, <2>2, FS_EmptySet
<1> QED
  BY <1>1, <1>2 DEF Noint

(* One thread more, or less, of the CPU c that has disabled preemption.    *)
LEMMA CountMore ==
  ASSUME MInv, NEW c \in Cpu, NEW t \in Thread, Home[t] = c, t \notin Noint(c),
         pc' = [pc EXCEPT ![t] = pc'[t]], pc'[t] \in {"block", "back", "wake"}, AddPreempt(c, 1)
  PROVE  preempt_counter' \in [Cpu -> Nat] /\ PreemptBalanced'
<1>1. IsFiniteSet(Noint(c))
  BY MutexAssumption, FS_Subset DEF Noint
<1>2. Cardinality(Noint(c)) = preempt_counter[c] /\ Cardinality(Noint(c)) \in Nat
  BY <1>1, FS_CardinalityType DEF MInv, PreemptBalanced
<1>3. Cardinality(Noint(c) \cup {t}) = preempt_counter[c] + 1
  BY <1>1, <1>2, FS_AddElement
<1>4. Noint(c)' = Noint(c) \cup {t} /\ \A d \in Cpu : d # c => Noint(d)' = Noint(d)
  BY DEF Noint, MInv, MutexTypeOK
<1>5. preempt_counter \in [Cpu -> Nat] /\ \A d \in Cpu : preempt_counter[d] = Cardinality(Noint(d))
  BY DEF PreemptBalanced, MInv, Core, TypeOK
<1>6. /\ preempt_counter' \in [Cpu -> Nat] /\ preempt_counter'[c] = preempt_counter[c] + 1
      /\ \A d \in Cpu : d # c => preempt_counter'[d] = preempt_counter[d]
  BY <1>5 DEF AddPreempt
<1> QED
  BY <1>3, <1>4, <1>5, <1>6 DEF PreemptBalanced

LEMMA CountLess ==
  ASSUME MInv, NEW c \in Cpu, NEW t \in Noint(c),
         pc' = [pc EXCEPT ![t] = pc'[t]], pc'[t] \notin {"block", "back", "wake"}, AddPreempt(c, -1)
  PROVE  preempt_counter' \in [Cpu -> Nat] /\ PreemptBalanced'
<1>1. IsFiniteSet(Noint(c)) /\ IsFiniteSet(Noint(c) \ {t})
  BY MutexAssumption, FS_Subset, FS_RemoveElement DEF Noint
<1>2. Cardinality(Noint(c)) = preempt_counter[c]
  BY DEF MInv, PreemptBalanced
<1>3. Cardinality(Noint(c)) \in Nat /\ Cardinality(Noint(c) \ {t}) \in Nat
  BY <1>1, FS_CardinalityType
<1>4. Cardinality(Noint(c) \ {t}) = Cardinality(Noint(c)) - 1
  BY <1>1, FS_RemoveElement
<1>5. Noint(c)' = Noint(c) \ {t} /\ \A d \in Cpu : d # c => Noint(d)' = Noint(d)
  BY DEF Noint, MInv, MutexTypeOK
<1>6. preempt_counter[c] \in Nat /\ preempt_counter[c] - 1 \in Nat
  BY <1>2, <1>3, <1>4
<1>7. preempt_counter' = [preempt_counter EXCEPT ![c] = preempt_counter[c] - 1]
  BY <1>6 DEF AddPreempt
<1> QED
  BY <1>2, <1>4, <1>5, <1>6, <1>7 DEF PreemptBalanced, MInv, Core, TypeOK

(* Who has, and who has not, disabled preemption stays so.                 *)
LEMMA CountSame ==
  ASSUME PreemptBalanced, UNCHANGED preempt_counter,
         \A t \in Thread : pc'[t] \in {"block", "back", "wake"} <=> pc[t] \in {"block", "back", "wake"}
  PROVE  PreemptBalanced'
<1>1. \A c \in Cpu : Noint(c)' = Noint(c)
  BY DEF Noint
<1> QED
  BY <1>1 DEF PreemptBalanced

LEMMA InitMInv == MutexInit => MInv
<1> SUFFICES ASSUME MutexInit PROVE MInv
  OBVIOUS
<1> USE Names, EmptyQueue DEF MutexInit
<1>1. IInv
  BY InitIInv
<1>2. Core /\ Found
  BY <1>1 DEF IInv
<1>3. MutexTypeOK
  BY MutexAssumption DEF MutexTypeOK
<1>4. (\A c \in Cpu : Noint(c) = {}) /\ Owner = {}
  BY DEF Noint, Owner
<1>5. PreemptBalanced
  BY <1>4, FS_EmptySet DEF PreemptBalanced, Init
<1>6. Masked
  BY DEF Masked
<1>7. Blocks
  BY DEF Blocks, Init, IdleThread
<1>8. Waiters
  BY DEF Waiters, Waits, NoDup
<1>9. Wakes
  BY DEF Wakes
<1>10. AllFound
  BY <1>2 DEF AllFound, Found
<1>11. OwnerIsOne /\ ContestedHasWaiter
  BY <1>4 DEF OwnerIsOne, ContestedHasWaiter
<1> QED
  BY <1>2, <1>3, <1>5, <1>6, <1>7, <1>8, <1>9, <1>10, <1>11 DEF MInv
---------------------------------------------------------------------------
LEMMA PreemptCore ==
  ASSUME Core, NEW c \in Cpu, Preempt(c)
  PROVE  Core' /\ \A u \in Thread : FoundAt(u) => FoundAt(u)'
<1>1. reaping' \in {"procs", "threads"} /\ UNCHANGED <<threads, dead_threads, dead_procs, reaped>>
  BY DEF Preempt, reaperVars, Core, TypeOK
<1> QED
  BY <1>1, EnterStep DEF Preempt

(* A step of sched_yield on c: it changes nothing of the other CPUs, and   *)
(* does not touch a thread that is ready, on no queue and not being        *)
(* dropped, as the one a releaser is waking.                               *)
LEMMA YieldKeeps ==
  ASSUME MInv, NEW c \in Cpu, UNCHANGED mutexVars, UNCHANGED preempt_counter,
         Core', \A u \in Thread : FoundAt(u) => FoundAt(u)',
         \A u \in Thread : Home[u] = c => pc[u] \notin {"block", "wake"},
         \A d \in Cpu : d # c => phase'[d] = phase[d] /\ current'[d] = current[d],
         \A u \in Thread : state[u] = "READY" /\ ~Queued(u) /\ prev[Home[u]] # u =>
           state'[u] = "READY" /\ ~Queued(u)' /\ prev'[Home[u]] # u,
         Blocks', Waiters'
  PROVE  MInv'
<1>1. UNCHANGED <<mutex_state, mutex_lock, wait_queue, pc, spins, woken, preempt_counter>>
  BY DEF mutexVars
<1>2. MutexTypeOK'
  BY <1>1 DEF MInv, MutexTypeOK
<1>3. PreemptBalanced'
  BY <1>1, CountSame DEF MInv
<1>4. Masked'
  BY <1>1, Names DEF MInv, Masked, Runs
<1>5. Wakes'
  <2>1. Owner' = Owner
    BY <1>1 DEF Owner, InWaitQueue
  <2>2. ASSUME NEW t \in Thread, pc[t] = "wake"
        PROVE  /\ state'[woken[t]] = "READY" /\ prev'[Home[woken[t]]] # woken[t]
               /\ ~In(woken[t], thread_queue'[Home[woken[t]]])
    <3>1. /\ woken[t] \in Thread /\ state[woken[t]] = "READY" /\ ~Queued(woken[t])
          /\ prev[Home[woken[t]]] # woken[t]
      BY <2>2 DEF MInv, Wakes, Owner
    <3>2. \A u \in Thread : state[u] = "READY" /\ ~Queued(u) /\ prev[Home[u]] # u =>
            state'[u] = "READY" /\ ~In(u, thread_queue'[Home[u]]) /\ prev'[Home[u]] # u
      BY DEF Queued
    <3> QED
      BY <3>1, <3>2
  <2> QED
    BY <1>1, <2>1, <2>2 DEF MInv, Wakes, Queued
<1>6. AllFound'
  BY <1>1 DEF MInv, AllFound
<1>7. OwnerIsOne'
  BY <1>1 DEF MInv, OwnerIsOne, Owner, InWaitQueue
<1>8. ContestedHasWaiter'
  BY <1>1 DEF MInv, ContestedHasWaiter
<1> QED
  BY <1>2, <1>3, <1>4, <1>5, <1>6, <1>7, <1>8 DEF MInv

LEMMA MutexPick ==
  ASSUME MInv, NEW c \in Cpu, YieldPick(c), UNCHANGED mutexVars
  PROVE  MInv'
<1> USE Names DEF MInv
<1>1. Core' /\ \A u \in Thread : FoundAt(u) => FoundAt(u)'
  BY PickStep
<1>2. UNCHANGED mutexVars
  OBVIOUS
<1>3. UNCHANGED <<mutex_state, mutex_lock, wait_queue, pc, spins, woken, preempt_counter>>
  BY <1>2 DEF mutexVars, YieldPick
<1>4. \A t \in Thread : Home[t] = c => pc[t] \notin {"block", "wake"}
  BY Alone DEF YieldPick
<1>5. /\ phase[c] = "pick" /\ phase' = [phase EXCEPT ![c] = "switch"]
      /\ UNCHANGED <<current, yield_state, prev>>
      /\ \A t \in Thread : state'[t] # state[t] => state[t] = "READY" /\ state'[t] = "ACTIVE" /\ Queued(t)
      /\ \A t \in Thread : Queued(t)' => Queued(t)
  <2>1. phase[c] = "pick" /\ phase' = [phase EXCEPT ![c] = "switch"] /\ UNCHANGED <<current, yield_state, prev>>
    BY DEF YieldPick, Enter
  <2>2. CASE thread_queue[c] = <<>>
    BY <2>1, <2>2 DEF YieldPick, Queued
  <2>3. CASE thread_queue[c] # <<>>
    <3>1. /\ thread_queue' = [thread_queue EXCEPT ![c] = Tail(@)]
          /\ state' = [state EXCEPT ![Head(thread_queue[c])] = "ACTIVE"]
      BY <2>3 DEF YieldPick
    <3>2. /\ Head(thread_queue[c]) \in Thread /\ Queued(Head(thread_queue[c]))
          /\ \A d \in Cpu, u \in Thread :
               In(u, thread_queue'[d]) <=> In(u, thread_queue[d]) /\ u # Head(thread_queue[c])
      BY <2>3, <3>1, PopQueue DEF Core
    <3>3. state[Head(thread_queue[c])] = "READY"
      BY <3>2 DEF Core, Located
    <3>4. \A t \in Thread : Queued(t)' => Queued(t)
      BY <3>2 DEF Queued
    <3>5. \A t \in Thread : state'[t] # state[t] => t = Head(thread_queue[c])
      BY <3>1 DEF Core, TypeOK, AnyThread
    <3>6. state'[Head(thread_queue[c])] = "ACTIVE"
      BY <3>1, <3>2 DEF Core, TypeOK, AnyThread
    <3> QED
      BY <2>1, <3>2, <3>3, <3>4, <3>5, <3>6
  <2> QED
    BY <2>1, <2>2, <2>3
<1>6. Blocks'
  <2>1. \A d \in Cpu : phase'[d] \in {"pick", "switch"} => phase[d] \in {"pick", "switch"}
    BY <1>5 DEF Core, TypeOK
  <2>2. \A t \in Thread : state'[t] # "DESTROY" /\ (state'[t] = "BLOCK" => Waits(t))
    BY <1>5 DEF Blocks
  <2> QED
    BY <1>3, <1>5, <2>1, <2>2 DEF Blocks, Waits
<1>7. Waiters'
  <2>1. \A t \in Thread : phase[Home[t]] \in {"pick", "switch"} => phase'[Home[t]] \in {"pick", "switch"}
    BY <1>5 DEF Core, TypeOK
  <2> QED
    BY <1>3, <1>5, <2>1 DEF Waiters, Waits
<1>8. \A d \in Cpu : d # c => phase'[d] = phase[d] /\ current'[d] = current[d]
  BY <1>5 DEF Core, TypeOK
<1>9. \A u \in Thread : state[u] = "READY" /\ ~Queued(u) /\ prev[Home[u]] # u =>
           state'[u] = "READY" /\ ~Queued(u)' /\ prev'[Home[u]] # u
  BY <1>5
<1> HIDE DEF MInv
<1> QED
  BY <1>1, <1>3, <1>4, <1>6, <1>7, <1>8, <1>9, YieldKeeps

LEMMA MutexSwitch ==
  ASSUME MInv, NEW c \in Cpu, YieldSwitch(c), UNCHANGED mutexVars
  PROVE  MInv'
<1> USE Names DEF MInv
<1>1. Core' /\ \A u \in Thread : FoundAt(u) => FoundAt(u)'
  BY SwitchStep
<1>2. UNCHANGED mutexVars
  OBVIOUS
<1>3. UNCHANGED <<mutex_state, mutex_lock, wait_queue, pc, spins, woken, preempt_counter>>
  BY <1>2 DEF mutexVars, YieldSwitch
<1>4. \A t \in Thread : Home[t] = c => pc[t] \notin {"block", "wake"}
  BY Alone DEF YieldSwitch
<1>5. /\ phase[c] = "switch" /\ phase'[c] \in {"drop", "run"} /\ UNCHANGED <<yield_state, thread_queue>>
      /\ \A d \in Cpu : d # c => phase'[d] = phase[d] /\ current'[d] = current[d] /\ prev'[d] = prev[d]
      /\ next[c] # NoThread => state' = [state EXCEPT ![current[c]] = yield_state[c]] /\ prev'[c] = current[c]
      /\ next[c] = NoThread => state' = state /\ current[c] = Idle[c] /\ prev' = prev
  BY DEF YieldSwitch, Enter, Core, TypeOK, Phases
<1>6. /\ \A t \in Thread : t # current[c] => state'[t] = state[t]
      /\ \A t \in Thread : t = current[c] => state[t] = "ACTIVE" /\ state'[t] = yield_state[c] /\ Home[t] = c
  BY <1>5 DEF Core, TypeOK, AnyThread, Located, Homes
<1>7. Blocks'
  <2>1. \A t \in Thread : t = current[c] => yield_state[c] \in {"READY", "BLOCK"} /\ (yield_state[c] = "BLOCK" => Waits(t))
    BY <1>5 DEF Blocks, Core, TypeOK
  <2>2. \A t \in Thread : state'[t] # "DESTROY" /\ (state'[t] = "BLOCK" => Waits(t))
    BY <1>6, <2>1 DEF Blocks
  <2>3. \A d \in Cpu : phase'[d] \in {"pick", "switch"} => d # c
    BY <1>5
  <2> QED
    BY <1>3, <1>5, <2>2, <2>3 DEF Blocks, Waits
<1>8. Waiters'
  <2> SUFFICES ASSUME NEW t \in Thread, Waits(t)
               PROVE  \/ pc[t] = "block"
                      \/ pc[t] = "back" /\ state'[t] = "BLOCK"
                      \/ /\ pc[t] = "back" /\ current'[Home[t]] = t /\ phase'[Home[t]] \in {"pick", "switch"}
                         /\ yield_state'[Home[t]] = "BLOCK"
    BY <1>3 DEF Waiters, Waits
  <2>1. CASE Home[t] # c
    BY <1>5, <1>6, <2>1 DEF Waiters
  <2>2. CASE Home[t] = c
    BY <1>4, <1>5, <1>6, <2>2 DEF Waiters
  <2> QED
    BY <2>1, <2>2
<1>9. \A u \in Thread : state[u] = "READY" /\ ~Queued(u) /\ prev[Home[u]] # u =>
           state'[u] = "READY" /\ ~Queued(u)' /\ prev'[Home[u]] # u
  BY <1>5, <1>6 DEF Queued
<1> HIDE DEF MInv
<1> QED
  BY <1>1, <1>3, <1>4, <1>5, <1>7, <1>8, <1>9, YieldKeeps

LEMMA MutexDrop ==
  ASSUME MInv, NEW c \in Cpu, YieldDrop(c), UNCHANGED mutexVars
  PROVE  MInv'
<1> USE Names DEF MInv
<1>1. Core' /\ \A u \in Thread : FoundAt(u) => FoundAt(u)'
  BY DropStep
<1>2. UNCHANGED mutexVars
  OBVIOUS
<1>3. UNCHANGED <<mutex_state, mutex_lock, wait_queue, pc, spins, woken, preempt_counter>>
  BY <1>2 DEF mutexVars, YieldDrop
<1>4. \A t \in Thread : Home[t] = c => pc[t] \notin {"block", "wake"}
  BY Alone DEF YieldDrop
<1>5. /\ phase[c] = "drop" /\ phase' = [phase EXCEPT ![c] = "run"] /\ UNCHANGED <<state, current, yield_state>>
      /\ prev' = [prev EXCEPT ![c] = NoThread]
  BY DEF YieldDrop, Enter
<1>6. \A d \in Cpu : d # c => phase'[d] = phase[d] /\ current'[d] = current[d]
  BY <1>5 DEF Core, TypeOK
<1>7. Blocks'
  BY <1>3, <1>5 DEF Blocks, Waits, Core, TypeOK
<1>8. Waiters'
  BY <1>3, <1>5 DEF Waiters, Waits, Core, TypeOK
<1>9. ASSUME NEW u \in Thread, state[u] = "READY", ~Queued(u), prev[Home[u]] # u
      PROVE  state'[u] = "READY" /\ ~Queued(u)' /\ prev'[Home[u]] # u
  <2>1. state'[u] = "READY" /\ prev'[Home[u]] # u
    BY <1>5, <1>9 DEF Core, TypeOK
  <2>2. CASE UNCHANGED thread_queue
    BY <1>9, <2>1, <2>2 DEF Queued
  <2>3. CASE prev[c] \in Thread /\ state[prev[c]] = "READY" /\ Push(prev[c])
    <3>1. Home[prev[c]] = c /\ ~Queued(prev[c])
      BY <2>3 DEF Core, Homes, Located
    <3>2. \A d \in Cpu, x \in Thread :
            In(x, thread_queue'[d]) <=> In(x, thread_queue[d]) \/ (x = prev[c] /\ d = Home[prev[c]])
      BY <2>3, <3>1, PushQueue DEF Core
    <3> QED
      BY <1>9, <2>1, <3>1, <3>2 DEF Queued
  <2> QED
    BY <2>2, <2>3 DEF YieldDrop
<1> HIDE DEF MInv
<1> QED
  BY <1>1, <1>3, <1>4, <1>6, <1>7, <1>8, <1>9, YieldKeeps

LEMMA MutexPreempt ==
  ASSUME MInv, NEW c \in Cpu, Preempt(c), UNCHANGED mutexVars
  PROVE  MInv'
<1> USE Names DEF MInv
<1>1. Core' /\ \A u \in Thread : FoundAt(u) => FoundAt(u)'
  BY PreemptCore
<1>2. UNCHANGED mutexVars
  OBVIOUS
<1>3. UNCHANGED <<mutex_state, mutex_lock, wait_queue, pc, spins, woken, preempt_counter>>
  BY <1>2 DEF mutexVars, Preempt
<1>4. \A t \in Thread : Home[t] = c => pc[t] \notin {"block", "back", "wake"}
  BY Alone DEF Preempt
<1>5. /\ phase[c] = "run" /\ phase' = [phase EXCEPT ![c] = "pick"]
      /\ UNCHANGED <<state, current, thread_queue, prev>>
      /\ yield_state' = [yield_state EXCEPT ![c] = "READY"]
  BY DEF Preempt, sched_yield, Enter
<1>6. \A d \in Cpu : d # c => phase'[d] = phase[d] /\ current'[d] = current[d]
  BY <1>5 DEF Core, TypeOK
<1>7. Blocks'
  BY <1>3, <1>5 DEF Blocks, Waits, Core, TypeOK
<1>8. Waiters'
  BY <1>3, <1>4, <1>5 DEF Waiters, Waits, Core, TypeOK
<1>9. \A u \in Thread : state[u] = "READY" /\ ~Queued(u) /\ prev[Home[u]] # u =>
           state'[u] = "READY" /\ ~Queued(u)' /\ prev'[Home[u]] # u
  BY <1>5 DEF Queued
<1> HIDE DEF MInv
<1> QED
  BY <1>1, <1>3, <1>4, <1>6, <1>7, <1>8, <1>9, YieldKeeps

---------------------------------------------------------------------------
(* What a running thread knows.                                            *)
LEMMA Running ==
  ASSUME MInv, NEW c \in Cpu, NEW t \in Thread, Runs(c, t)
  PROVE  /\ Home[t] = c
         /\ \A u \in Thread : Home[u] = c /\ pc[u] \in {"block", "wake"} => u = t
         /\ phase[c] = "run" /\ current[c] = t /\ prev[c] = NoThread /\ next[c] = NoThread
         /\ state[t] = "ACTIVE" /\ ~Queued(t)
         /\ \A u \in Thread : Waits(u) => pc[u] \in {"block", "back"} /\ (u = t => pc[u] = "block")
<1> USE Names DEF MInv, Runs
<1>1. Home[t] = c
  BY DEF Core, Homes
<1>2. \A u \in Thread : Home[u] = c /\ pc[u] \in {"block", "wake"} => u = t
  BY Alone
<1>3. prev[c] = NoThread /\ next[c] = NoThread /\ state[t] = "ACTIVE" /\ ~Queued(t)
  BY <1>1 DEF Core, Phases, Located
<1>4. \A u \in Thread : Waits(u) => pc[u] \in {"block", "back"} /\ (u = t => pc[u] = "block")
  BY <1>1, <1>3 DEF Waiters
<1> QED
  BY <1>1, <1>2, <1>3, <1>4

(* A step that leaves the scheduler's variables alone, but for the counter.*)
LEMMA CoreStays ==
  ASSUME Core, preempt_counter' \in [Cpu -> Nat],
         UNCHANGED <<state, thread_queue, phase, yield_state, current, next, prev,
                     threads, dead_threads, dead_procs, reaping, reaped>>
  PROVE  Core' /\ \A u \in Thread : FoundAt(u)' <=> FoundAt(u)
  BY DEF Core, TypeOK, Homes, Queues, Phases, Located, IdleReady, FoundAt, Queued, Dead

(* Nor does it disturb who is being woken, if that one stays where it is.  *)
LEMMA WakesStay ==
  ASSUME MInv, Owner' = Owner,
         UNCHANGED <<state, thread_queue, prev, mutex_state, mutex_lock, woken>>,
         \A u \in Thread : /\ pc'[u] = "wake" <=> pc[u] = "wake"
                           /\ pc[u] = "back" => pc'[u] = "back"
  PROVE  Wakes'
  BY DEF MInv, Wakes, Owner, Queued

LEMMA AcquireTryStep ==
  ASSUME MInv, NEW c \in Cpu, NEW t \in Thread, AcquireTry(c, t)
  PROVE  MInv'
<1> USE Names DEF MInv
<1>1. /\ Home[t] = c
      /\ \A u \in Thread : Home[u] = c /\ pc[u] \in {"block", "wake"} => u = t
      /\ phase[c] = "run" /\ current[c] = t /\ prev[c] = NoThread /\ next[c] = NoThread
      /\ state[t] = "ACTIVE" /\ ~Queued(t)
      /\ \A u \in Thread : Waits(u) => pc[u] \in {"block", "back"} /\ (u = t => pc[u] = "block")
  BY Running DEF AcquireTry
<1>2. \A u : (InWaitQueue(u) <=> Waits(u)) /\ (InWaitQueue(u)' <=> Waits(u)')
  BY DEF InWaitQueue, Waits, In
<1>3. /\ pc[t] = "out"
      /\ UNCHANGED <<state, thread_queue, phase, yield_state, current, next, prev, preempt_counter,
                     threads, dead_threads, dead_procs, reaping, reaped>>
      /\ UNCHANGED <<mutex_lock, wait_queue, spins, woken>>
  BY DEF AcquireTry, schedVars, reaperVars
<1>4. CASE mutex_state = "UNLOCKED" /\ mutex_state' = "LOCKED" /\ pc' = [pc EXCEPT ![t] = "in"]
  <2>1. Core' /\ \A u \in Thread : FoundAt(u)' <=> FoundAt(u)
    BY <1>3, <1>4, CoreStays DEF Core, TypeOK
  <2>2. Owner = {} /\ Owner' = {t}
    BY <1>1, <1>2, <1>3, <1>4 DEF Owner, Waits, MutexTypeOK, OwnerIsOne
  <2>3. Core'
    BY <2>1
  <2>4. MutexTypeOK'
    BY <1>1, <1>3, <1>4, <2>1, <2>2 DEF MutexTypeOK
  <2>5. PreemptBalanced'
    BY <1>3, <1>4, CountSame DEF MutexTypeOK
  <2>6. Masked'
    BY <1>1, <1>3, <1>4, <2>1, <2>2 DEF MutexTypeOK, Masked, Runs
  <2>7. Blocks'
    BY <1>1, <1>3, <1>4, <2>1, <2>2 DEF MutexTypeOK, Blocks, Waits, TypeOK, AnyThread
  <2>8. Waiters'
    BY <1>1, <1>3, <1>4, <2>1, <2>2 DEF MutexTypeOK, Waiters, Waits, TypeOK, AnyThread
  <2>9. Wakes'
    BY <1>1, <1>3, <1>4, <2>1, <2>2 DEF MutexTypeOK, Wakes, Owner, InWaitQueue, TypeOK, AnyThread
  <2>10. AllFound'
    BY <1>3, <1>4, <2>1 DEF AllFound, MutexTypeOK, Wakes
  <2>11. OwnerIsOne'
    BY <1>3, <1>4, <2>2 DEF OwnerIsOne
  <2>12. ContestedHasWaiter'
    BY <1>1, <1>3, <1>4, <2>1, <2>2 DEF MutexTypeOK, ContestedHasWaiter
  <2> QED
    BY <2>3, <2>4, <2>5, <2>6, <2>7, <2>8, <2>9, <2>10, <2>11, <2>12 DEF MInv
<1>5. CASE mutex_state # "UNLOCKED" /\ pc' = [pc EXCEPT ![t] = "spin"] /\ UNCHANGED mutex_state
  <2>1. Core' /\ \A u \in Thread : FoundAt(u)' <=> FoundAt(u)
    BY <1>3, <1>5, CoreStays DEF Core, TypeOK
  <2>2. Owner' = Owner
    BY <1>1, <1>2, <1>3, <1>5 DEF Owner, Waits, MutexTypeOK, OwnerIsOne
  <2>3. Core'
    BY <2>1
  <2>4. MutexTypeOK'
    BY <1>1, <1>3, <1>5, <2>1, <2>2 DEF MutexTypeOK
  <2>5. PreemptBalanced'
    BY <1>3, <1>5, CountSame DEF MutexTypeOK
  <2>6. Masked'
    BY <1>1, <1>3, <1>5, <2>1, <2>2 DEF MutexTypeOK, Masked, Runs
  <2>7. Blocks'
    BY <1>1, <1>3, <1>5, <2>1, <2>2 DEF MutexTypeOK, Blocks, Waits, TypeOK, AnyThread
  <2>8. Waiters'
    BY <1>1, <1>3, <1>5, <2>1, <2>2 DEF MutexTypeOK, Waiters, Waits, TypeOK, AnyThread
  <2>9. Wakes'
    BY <1>3, <1>5, <2>2, WakesStay DEF MutexTypeOK
  <2>10. AllFound'
    BY <1>3, <1>5, <2>1 DEF AllFound, MutexTypeOK, Wakes
  <2>11. OwnerIsOne'
    BY <1>3, <1>5, <2>2 DEF OwnerIsOne
  <2>12. ContestedHasWaiter'
    BY <1>1, <1>3, <1>5, <2>1, <2>2 DEF MutexTypeOK, ContestedHasWaiter
  <2> QED
    BY <2>3, <2>4, <2>5, <2>6, <2>7, <2>8, <2>9, <2>10, <2>11, <2>12 DEF MInv
<1> QED
  BY <1>4, <1>5 DEF AcquireTry, Goto

LEMMA ReleaseTryStep ==
  ASSUME MInv, NEW c \in Cpu, NEW t \in Thread, ReleaseTry(c, t)
  PROVE  MInv'
<1> USE Names DEF MInv
<1>1. /\ Home[t] = c
      /\ \A u \in Thread : Home[u] = c /\ pc[u] \in {"block", "wake"} => u = t
      /\ phase[c] = "run" /\ current[c] = t /\ prev[c] = NoThread /\ next[c] = NoThread
      /\ state[t] = "ACTIVE" /\ ~Queued(t)
      /\ \A u \in Thread : Waits(u) => pc[u] \in {"block", "back"} /\ (u = t => pc[u] = "block")
  BY Running DEF ReleaseTry
<1>2. \A u : (InWaitQueue(u) <=> Waits(u)) /\ (InWaitQueue(u)' <=> Waits(u)')
  BY DEF InWaitQueue, Waits, In
<1>3. /\ pc[t] = "in"
      /\ UNCHANGED <<state, thread_queue, phase, yield_state, current, next, prev, preempt_counter,
                     threads, dead_threads, dead_procs, reaping, reaped>>
      /\ UNCHANGED <<mutex_lock, wait_queue, spins, woken>>
  BY DEF ReleaseTry, schedVars, reaperVars
<1>4. CASE mutex_state = "LOCKED" /\ mutex_state' = "UNLOCKED" /\ pc' = [pc EXCEPT ![t] = "out"]
  <2>1. Core' /\ \A u \in Thread : FoundAt(u)' <=> FoundAt(u)
    BY <1>3, <1>4, CoreStays DEF Core, TypeOK
  <2>2. Owner = {t} /\ Owner' = {}
    BY <1>1, <1>2, <1>3, <1>4 DEF Owner, Waits, MutexTypeOK, OwnerIsOne
  <2>3. Core'
    BY <2>1
  <2>4. MutexTypeOK'
    BY <1>1, <1>3, <1>4, <2>1, <2>2 DEF MutexTypeOK
  <2>5. PreemptBalanced'
    BY <1>3, <1>4, CountSame DEF MutexTypeOK
  <2>6. Masked'
    BY <1>1, <1>3, <1>4, <2>1, <2>2 DEF MutexTypeOK, Masked, Runs
  <2>7. Blocks'
    BY <1>1, <1>3, <1>4, <2>1, <2>2 DEF MutexTypeOK, Blocks, Waits, TypeOK, AnyThread
  <2>8. Waiters'
    BY <1>1, <1>3, <1>4, <2>1, <2>2 DEF MutexTypeOK, Waiters, Waits, TypeOK, AnyThread
  <2>9. Wakes'
    BY <1>1, <1>3, <1>4, <2>1, <2>2 DEF MutexTypeOK, Wakes, Owner, InWaitQueue, TypeOK, AnyThread
  <2>10. AllFound'
    BY <1>3, <1>4, <2>1 DEF AllFound, MutexTypeOK, Wakes
  <2>11. OwnerIsOne'
    BY <1>3, <1>4, <2>2 DEF OwnerIsOne
  <2>12. ContestedHasWaiter'
    BY <1>1, <1>3, <1>4, <2>1, <2>2 DEF MutexTypeOK, ContestedHasWaiter
  <2> QED
    BY <2>3, <2>4, <2>5, <2>6, <2>7, <2>8, <2>9, <2>10, <2>11, <2>12 DEF MInv
<1>5. CASE mutex_state # "LOCKED" /\ pc' = [pc EXCEPT ![t] = "pop"] /\ UNCHANGED mutex_state
  <2>1. Core' /\ \A u \in Thread : FoundAt(u)' <=> FoundAt(u)
    BY <1>3, <1>5, CoreStays DEF Core, TypeOK
  <2>2. Owner = {t} /\ Owner' = Owner
    BY <1>1, <1>2, <1>3, <1>5 DEF Owner, Waits, MutexTypeOK, OwnerIsOne
  <2>3. Core'
    BY <2>1
  <2>4. MutexTypeOK'
    BY <1>1, <1>3, <1>5, <2>1, <2>2 DEF MutexTypeOK
  <2>5. PreemptBalanced'
    BY <1>3, <1>5, CountSame DEF MutexTypeOK
  <2>6. Masked'
    BY <1>1, <1>3, <1>5, <2>1, <2>2 DEF MutexTypeOK, Masked, Runs
  <2>7. Blocks'
    BY <1>1, <1>3, <1>5, <2>1, <2>2 DEF MutexTypeOK, Blocks, Waits, TypeOK, AnyThread
  <2>8. Waiters'
    BY <1>1, <1>3, <1>5, <2>1, <2>2 DEF MutexTypeOK, Waiters, Waits, TypeOK, AnyThread
  <2>9. Wakes'
    BY <1>1, <1>3, <1>5, <2>1, <2>2 DEF MutexTypeOK, Wakes, Owner, InWaitQueue, TypeOK, AnyThread
  <2>10. AllFound'
    BY <1>3, <1>5, <2>1 DEF AllFound, MutexTypeOK, Wakes
  <2>11. OwnerIsOne'
    BY <1>3, <1>5, <2>2 DEF OwnerIsOne
  <2>12. ContestedHasWaiter'
    <3>1. mutex_lock = NoThread
      BY <1>3, <2>2 DEF Wakes, MutexTypeOK
    <3>2. mutex_state = "CONTESTED" /\ wait_queue # <<>>
      BY <1>5, <2>2, <3>1 DEF OwnerIsOne, MutexTypeOK, ContestedHasWaiter
    <3> QED
      BY <1>3, <1>5, <3>1, <3>2 DEF ContestedHasWaiter
  <2> QED
    BY <2>3, <2>4, <2>5, <2>6, <2>7, <2>8, <2>9, <2>10, <2>11, <2>12 DEF MInv
<1> QED
  BY <1>4, <1>5 DEF ReleaseTry, Goto

LEMMA AcquireSpinStep ==
  ASSUME MInv, NEW c \in Cpu, NEW t \in Thread, AcquireSpin(c, t)
  PROVE  MInv'
<1> USE Names, MutexAssumption DEF MInv
<1>1. /\ Home[t] = c
      /\ \A u \in Thread : Home[u] = c /\ pc[u] \in {"block", "wake"} => u = t
      /\ phase[c] = "run" /\ current[c] = t /\ prev[c] = NoThread /\ next[c] = NoThread
      /\ state[t] = "ACTIVE" /\ ~Queued(t)
      /\ \A u \in Thread : Waits(u) => pc[u] \in {"block", "back"} /\ (u = t => pc[u] = "block")
  BY Running DEF AcquireSpin
<1>2. \A u : (InWaitQueue(u) <=> Waits(u)) /\ (InWaitQueue(u)' <=> Waits(u)')
  BY DEF InWaitQueue, Waits, In
<1>3. /\ pc[t] = "spin" /\ spins[t] < SPIN_COUNT
      /\ UNCHANGED <<state, thread_queue, current, next, prev, preempt_counter,
                     threads, dead_threads, dead_procs, reaping, reaped>>
      /\ UNCHANGED <<mutex_lock, wait_queue, woken>>
  BY DEF AcquireSpin, quietVars, reaperVars
<1>4. CASE /\ mutex_state = "UNLOCKED" /\ mutex_state' = "LOCKED" /\ pc' = [pc EXCEPT ![t] = "in"]
           /\ spins' = [spins EXCEPT ![t] = 0] /\ UNCHANGED <<phase, yield_state>>
  <2>1. Core' /\ \A u \in Thread : FoundAt(u)' <=> FoundAt(u)
    BY <1>3, <1>4, CoreStays DEF Core, TypeOK
  <2>2. Owner = {} /\ Owner' = {t}
    BY <1>1, <1>2, <1>3, <1>4 DEF Owner, Waits, MutexTypeOK, OwnerIsOne
  <2>3. Core'
    BY <2>1
  <2>4. MutexTypeOK'
    BY <1>3, <1>4 DEF MutexTypeOK
  <2>5. PreemptBalanced'
    BY <1>3, <1>4, CountSame DEF MutexTypeOK
  <2>6. Masked'
    BY <1>1, <1>3, <1>4, <2>1, <2>2 DEF MutexTypeOK, Masked, Runs
  <2>7. Blocks'
    BY <1>1, <1>3, <1>4, <2>1, <2>2 DEF MutexTypeOK, Blocks, Waits, TypeOK, AnyThread
  <2>8. Waiters'
    BY <1>1, <1>3, <1>4, <2>1, <2>2 DEF MutexTypeOK, Waiters, Waits, TypeOK, AnyThread
  <2>9. Wakes'
    BY <1>1, <1>3, <1>4, <2>1, <2>2 DEF MutexTypeOK, Wakes, Owner, InWaitQueue, TypeOK, AnyThread
  <2>10. AllFound'
    BY <1>3, <1>4, <2>1 DEF AllFound, MutexTypeOK, Wakes
  <2>11. OwnerIsOne'
    BY <1>3, <1>4, <2>2 DEF OwnerIsOne
  <2>12. ContestedHasWaiter'
    BY <1>1, <1>3, <1>4, <2>1, <2>2 DEF MutexTypeOK, ContestedHasWaiter
  <2> QED
    BY <2>3, <2>4, <2>5, <2>6, <2>7, <2>8, <2>9, <2>10, <2>11, <2>12 DEF MInv
<1>5. CASE /\ mutex_state # "UNLOCKED" /\ sched_yield(c, "READY")
           /\ spins' = [spins EXCEPT ![t] = @ + 1] /\ UNCHANGED <<mutex_state, pc>>
  <2>1. Core' /\ \A u \in Thread : FoundAt(u) => FoundAt(u)'
    <3>1. reaping' \in {"procs", "threads"}
      BY <1>3 DEF Core, TypeOK
    <3> QED
      BY <1>1, <1>3, <1>5, <3>1, EnterStep
  <2>2. phase' = [phase EXCEPT ![c] = "pick"] /\ yield_state' = [yield_state EXCEPT ![c] = "READY"]
    BY <1>5 DEF sched_yield, Enter
  <2>3. Owner' = Owner
    BY <1>3, <1>5 DEF Owner, InWaitQueue
  <2>4. \A u \in Thread : Home[u] = c => pc[u] \notin {"block", "wake"}
    BY <1>1, <1>3
  <2>5. Core'
    BY <2>1
  <2>6. MutexTypeOK'
    BY <1>3, <1>5 DEF MutexTypeOK
  <2>7. PreemptBalanced'
    BY <1>3, <1>5, CountSame
  <2>8. Masked'
    BY <1>3, <1>5, <2>2, <2>4 DEF Masked, Runs, Core, TypeOK
  <2>9. Blocks'
    BY <1>1, <1>3, <1>5, <2>2, <2>4 DEF MutexTypeOK, Blocks, Waits, TypeOK, AnyThread, Core
  <2>10. Waiters'
    BY <1>1, <1>3, <1>5, <2>2, <2>4 DEF MutexTypeOK, Waiters, Waits, TypeOK, AnyThread, Core
  <2>11. Wakes'
    BY <1>3, <1>5, <2>3 DEF Wakes, Queued
  <2>12. AllFound'
    BY <1>3, <2>1 DEF AllFound
  <2>13. OwnerIsOne'
    BY <1>5, <2>3 DEF OwnerIsOne
  <2>14. ContestedHasWaiter'
    BY <1>1, <1>3, <1>5, <2>2, <2>4 DEF MutexTypeOK, ContestedHasWaiter
  <2> QED
    BY <2>5, <2>6, <2>7, <2>8, <2>9, <2>10, <2>11, <2>12, <2>13, <2>14 DEF MInv
<1> QED
  BY <1>4, <1>5 DEF AcquireSpin, Goto

LEMMA AcquireSlowStep ==
  ASSUME MInv, NEW c \in Cpu, NEW t \in Thread, AcquireSlow(c, t)
  PROVE  MInv'
<1> USE Names, MutexAssumption DEF MInv
<1>1. /\ Home[t] = c
      /\ \A u \in Thread : Home[u] = c /\ pc[u] \in {"block", "wake"} => u = t
      /\ phase[c] = "run" /\ current[c] = t /\ prev[c] = NoThread /\ next[c] = NoThread
      /\ state[t] = "ACTIVE" /\ ~Queued(t)
      /\ \A u \in Thread : Waits(u) => pc[u] \in {"block", "back"} /\ (u = t => pc[u] = "block")
  BY Running DEF AcquireSlow
<1>2. \A u : (InWaitQueue(u) <=> Waits(u)) /\ (InWaitQueue(u)' <=> Waits(u)')
  BY DEF InWaitQueue, Waits, In
<1>3. /\ pc[t] = "spin" /\ spins' = [spins EXCEPT ![t] = 0] /\ mutex_lock = NoThread
      /\ UNCHANGED <<state, thread_queue, phase, yield_state, current, next, prev,
                     threads, dead_threads, dead_procs, reaping, reaped>>
      /\ UNCHANGED <<mutex_lock, woken>>
  BY DEF AcquireSlow, quietVars, reaperVars
<1>4. CASE /\ mutex_state # "UNLOCKED" /\ mutex_state' = "CONTESTED"
           /\ wait_queue' = Append(wait_queue, t) /\ AddPreempt(c, 1)
           /\ pc' = [pc EXCEPT ![t] = "block"]
  <2>1. ~Waits(t) /\ t \notin Noint(c)
    BY <1>1, <1>3 DEF Noint
  <2>2. /\ wait_queue' \in Seq(Thread) /\ NoDup(wait_queue') /\ wait_queue' # <<>>
        /\ \A u : Waits(u)' <=> Waits(u) \/ u = t
    <3>1. wait_queue \in Seq(Thread) /\ NoDup(wait_queue)
      BY DEF MutexTypeOK, Waiters
    <3>2. wait_queue' # <<>>
      BY <1>4, <3>1
    <3> QED
      BY <1>4, <2>1, <3>1, <3>2, PushBack DEF Waits
  <2>3. preempt_counter' \in [Cpu -> Nat] /\ PreemptBalanced'
    <3>1. pc'[t] = "block"
      BY <1>4 DEF MutexTypeOK
    <3> QED
      BY <1>1, <1>4, <2>1, <3>1, CountMore
  <2>4. Core' /\ \A u \in Thread : FoundAt(u)' <=> FoundAt(u)
    BY <1>3, <2>3, CoreStays
  <2>5. Owner' = Owner
    <3>1. \A u \in Thread : u \in Owner' <=> u \in Owner
      BY <1>2, <1>3, <1>4, <2>1, <2>2 DEF Owner, MutexTypeOK
    <3> QED
      BY <3>1 DEF Owner
  <2>6. Core'
    BY <2>4
  <2>7. MutexTypeOK'
    BY <1>3, <1>4, <2>2 DEF MutexTypeOK
  <2>8. PreemptBalanced'
    BY <2>3
  <2>9. Masked'
    BY <1>1, <1>3, <1>4, <2>2 DEF MutexTypeOK, Masked, Runs
  <2>10. Blocks'
    BY <1>1, <1>3, <1>4, <2>2 DEF Blocks, MutexTypeOK
  <2>11. Waiters'
    BY <1>1, <1>3, <1>4, <2>2 DEF Waiters, MutexTypeOK
  <2>12. Wakes'
    BY <1>1, <1>3, <1>4 DEF Wakes, MutexTypeOK
  <2>13. AllFound'
    BY <1>3, <2>4 DEF AllFound
  <2>14. OwnerIsOne'
    BY <1>4, <2>5 DEF OwnerIsOne
  <2>15. ContestedHasWaiter'
    BY <1>1, <1>3, <1>4, <2>2 DEF ContestedHasWaiter, MutexTypeOK
  <2> QED
    BY <2>6, <2>7, <2>8, <2>9, <2>10, <2>11, <2>12, <2>13, <2>14, <2>15 DEF MInv
<1>5. CASE /\ mutex_state = "UNLOCKED" /\ mutex_state' = "LOCKED"
           /\ pc' = [pc EXCEPT ![t] = "in"] /\ UNCHANGED <<wait_queue, preempt_counter>>
  <2>1. Core' /\ \A u \in Thread : FoundAt(u)' <=> FoundAt(u)
    BY <1>3, <1>5, CoreStays DEF Core, TypeOK
  <2>2. Owner = {} /\ Owner' = {t}
    BY <1>1, <1>2, <1>3, <1>5 DEF Owner, Waits, MutexTypeOK, OwnerIsOne
  <2>3. Core'
    BY <2>1
  <2>4. MutexTypeOK'
    BY <1>3, <1>5 DEF MutexTypeOK
  <2>5. PreemptBalanced'
    BY <1>3, <1>5, CountSame DEF MutexTypeOK
  <2>6. Masked'
    BY <1>1, <1>3, <1>5, <2>1, <2>2 DEF MutexTypeOK, Masked, Runs
  <2>7. Blocks'
    BY <1>1, <1>3, <1>5, <2>1, <2>2 DEF MutexTypeOK, Blocks, Waits, TypeOK, AnyThread
  <2>8. Waiters'
    BY <1>1, <1>3, <1>5, <2>1, <2>2 DEF MutexTypeOK, Waiters, Waits, TypeOK, AnyThread
  <2>9. Wakes'
    BY <1>1, <1>3, <1>5, <2>1, <2>2 DEF MutexTypeOK, Wakes, Owner, InWaitQueue, TypeOK, AnyThread
  <2>10. AllFound'
    BY <1>3, <1>5, <2>1 DEF AllFound, MutexTypeOK, Wakes
  <2>11. OwnerIsOne'
    BY <1>3, <1>5, <2>2 DEF OwnerIsOne
  <2>12. ContestedHasWaiter'
    BY <1>1, <1>3, <1>5, <2>1, <2>2 DEF MutexTypeOK, ContestedHasWaiter
  <2> QED
    BY <2>3, <2>4, <2>5, <2>6, <2>7, <2>8, <2>9, <2>10, <2>11, <2>12 DEF MInv
<1> QED
  BY <1>4, <1>5 DEF AcquireSlow, Goto

LEMMA AcquireBlockStep ==
  ASSUME MInv, NEW c \in Cpu, NEW t \in Thread, AcquireBlock(c, t)
  PROVE  MInv'
<1> USE Names DEF MInv
<1>1. /\ Home[t] = c
      /\ \A u \in Thread : Home[u] = c /\ pc[u] \in {"block", "wake"} => u = t
      /\ phase[c] = "run" /\ current[c] = t /\ prev[c] = NoThread /\ next[c] = NoThread
      /\ state[t] = "ACTIVE" /\ ~Queued(t)
      /\ \A u \in Thread : Waits(u) => pc[u] \in {"block", "back"} /\ (u = t => pc[u] = "block")
  BY Running DEF AcquireBlock
<1>2. \A u : (InWaitQueue(u) <=> Waits(u)) /\ (InWaitQueue(u)' <=> Waits(u)')
  BY DEF InWaitQueue, Waits, In
<1>3. /\ pc[t] = "block" /\ pc' = [pc EXCEPT ![t] = "back"] /\ sched_yield(c, "BLOCK")
      /\ UNCHANGED <<state, thread_queue, current, next, prev, preempt_counter,
                     threads, dead_threads, dead_procs, reaping, reaped>>
      /\ UNCHANGED <<mutex_state, mutex_lock, wait_queue, spins, woken>>
  BY DEF AcquireBlock, Goto, quietVars, reaperVars
<1>4. Core' /\ \A u \in Thread : FoundAt(u) => FoundAt(u)'
  <2>1. reaping' \in {"procs", "threads"}
    BY <1>3 DEF Core, TypeOK
  <2>2. current[c] # Idle[c]
    BY <1>1
  <2> QED
    BY <1>1, <1>3, <2>1, <2>2, EnterStep
<1>5. /\ phase' = [phase EXCEPT ![c] = "pick"] /\ yield_state' = [yield_state EXCEPT ![c] = "BLOCK"]
      /\ Waits(t)
  BY <1>3 DEF sched_yield, Enter, Waiters
<1>6. Owner' = Owner
  <2>1. \A u \in Thread : u \in Owner' <=> u \in Owner
    BY <1>3 DEF Owner, InWaitQueue, MutexTypeOK
  <2> QED
    BY <2>1 DEF Owner
<1>7. PreemptBalanced'
  BY <1>3, CountSame DEF MutexTypeOK
<1>8. Core'
  BY <1>4
<1>9. MutexTypeOK'
  BY <1>3 DEF MutexTypeOK
<1>10. PreemptBalanced'
  BY <1>7
<1>11. Masked'
  BY <1>1, <1>3, <1>5 DEF MutexTypeOK, Masked, Runs
<1>12. Blocks'
  BY <1>1, <1>3, <1>5 DEF MutexTypeOK, Blocks, Waits, TypeOK, AnyThread, Core
<1>13. Waiters'
  BY <1>1, <1>3, <1>5 DEF MutexTypeOK, Waiters, Waits, TypeOK, AnyThread, Core
<1>14. Wakes'
  BY <1>3, <1>6, WakesStay DEF MutexTypeOK
<1>15. AllFound'
  BY <1>3, <1>4 DEF AllFound
<1>16. OwnerIsOne'
  BY <1>3, <1>6 DEF OwnerIsOne
<1>17. ContestedHasWaiter'
  BY <1>1, <1>3, <1>5 DEF MutexTypeOK, ContestedHasWaiter
<1> QED
  BY <1>8, <1>9, <1>10, <1>11, <1>12, <1>13, <1>14, <1>15, <1>16, <1>17 DEF MInv

LEMMA AcquireBackStep ==
  ASSUME MInv, NEW c \in Cpu, NEW t \in Thread, AcquireBack(c, t)
  PROVE  MInv'
<1> USE Names DEF MInv
<1>1. /\ Home[t] = c
      /\ \A u \in Thread : Home[u] = c /\ pc[u] \in {"block", "wake"} => u = t
      /\ phase[c] = "run" /\ current[c] = t /\ prev[c] = NoThread /\ next[c] = NoThread
      /\ state[t] = "ACTIVE" /\ ~Queued(t)
      /\ \A u \in Thread : Waits(u) => pc[u] \in {"block", "back"} /\ (u = t => pc[u] = "block")
  BY Running DEF AcquireBack
<1>2. \A u : (InWaitQueue(u) <=> Waits(u)) /\ (InWaitQueue(u)' <=> Waits(u)')
  BY DEF InWaitQueue, Waits, In
<1>3. /\ pc[t] = "back" /\ pc' = [pc EXCEPT ![t] = "in"] /\ AddPreempt(c, -1) /\ mutex_lock = NoThread
      /\ UNCHANGED <<state, thread_queue, phase, yield_state, current, next, prev,
                     threads, dead_threads, dead_procs, reaping, reaped>>
      /\ UNCHANGED <<mutex_state, mutex_lock, wait_queue, spins, woken>>
  BY DEF AcquireBack, Goto, quietVars, reaperVars
<1>4. preempt_counter' \in [Cpu -> Nat] /\ PreemptBalanced'
  <2>1. t \in Noint(c) /\ pc'[t] = "in"
    BY <1>1, <1>3 DEF Noint, MutexTypeOK
  <2> QED
    BY <1>3, <2>1, CountLess
<1>5. Core' /\ \A u \in Thread : FoundAt(u)' <=> FoundAt(u)
  BY <1>3, <1>4, CoreStays
<1>6. ~Waits(t) /\ \A u : Waits(u)' <=> Waits(u)
  BY <1>1, <1>3 DEF Waits
<1>7. Owner' = Owner
  <2>1. \A u \in Thread : u \in Owner' <=> u \in Owner
    BY <1>2, <1>3, <1>6 DEF Owner, MutexTypeOK
  <2> QED
    BY <2>1 DEF Owner
<1>8. \A u \in Thread : pc[u] # "wake"
  BY <1>3 DEF Wakes
<1>9. Core'
  BY <1>5
<1>10. MutexTypeOK'
  BY <1>1, <1>3, <1>6, <1>8 DEF MutexTypeOK
<1>11. PreemptBalanced'
  BY <1>4
<1>12. Masked'
  BY <1>1, <1>3, <1>6, <1>8 DEF MutexTypeOK, Masked, Runs
<1>13. Blocks'
  BY <1>1, <1>3, <1>6, <1>8 DEF MutexTypeOK, Blocks, Waits, TypeOK, AnyThread
<1>14. Waiters'
  BY <1>1, <1>3, <1>6, <1>8 DEF MutexTypeOK, Waiters, Waits, TypeOK, AnyThread
<1>15. Wakes'
  BY <1>1, <1>3, <1>6, <1>8 DEF MutexTypeOK, Wakes, Owner, InWaitQueue, TypeOK, AnyThread
<1>16. AllFound'
  BY <1>3, <1>5 DEF AllFound
<1>17. OwnerIsOne'
  BY <1>3, <1>7 DEF OwnerIsOne
<1>18. ContestedHasWaiter'
  BY <1>1, <1>3, <1>6, <1>8 DEF MutexTypeOK, ContestedHasWaiter
<1> QED
  BY <1>9, <1>10, <1>11, <1>12, <1>13, <1>14, <1>15, <1>16, <1>17, <1>18 DEF MInv

LEMMA ReleasePopStep ==
  ASSUME MInv, NEW c \in Cpu, NEW t \in Thread, ReleasePop(c, t), ~OnItsCpu(Head(wait_queue))
  PROVE  MInv'
<1> USE Names DEF MInv
<1>1. /\ Home[t] = c
      /\ \A u \in Thread : Home[u] = c /\ pc[u] \in {"block", "wake"} => u = t
      /\ phase[c] = "run" /\ current[c] = t /\ prev[c] = NoThread /\ next[c] = NoThread
      /\ state[t] = "ACTIVE" /\ ~Queued(t)
      /\ \A u \in Thread : Waits(u) => pc[u] \in {"block", "back"} /\ (u = t => pc[u] = "block")
  BY Running DEF ReleasePop
<1>2. \A u : (InWaitQueue(u) <=> Waits(u)) /\ (InWaitQueue(u)' <=> Waits(u)')
  BY DEF InWaitQueue, Waits, In
<1> DEFINE h == Head(wait_queue)
<1>3. /\ pc[t] = "pop" /\ pc' = [pc EXCEPT ![t] = "wake"] /\ AddPreempt(c, 1)
      /\ mutex_lock = NoThread /\ mutex_lock' = t
      /\ wait_queue # <<>> /\ wait_queue' = Tail(wait_queue)
      /\ woken' = [woken EXCEPT ![t] = h] /\ state' = [state EXCEPT ![h] = "READY"]
      /\ UNCHANGED <<thread_queue, phase, yield_state, current, next, prev,
                     threads, dead_threads, dead_procs, reaping, reaped>>
      /\ UNCHANGED <<mutex_state, spins>>
  BY DEF ReleasePop, Goto, quietVars, reaperVars
<1>4. /\ h \in Thread /\ Waits(h) /\ wait_queue' \in Seq(Thread) /\ NoDup(wait_queue')
      /\ \A u : Waits(u)' <=> Waits(u) /\ u # h
  <2>1. wait_queue \in Seq(Thread) /\ NoDup(wait_queue)
    BY DEF MutexTypeOK, Waiters
  <2> QED
    BY <1>3, <2>1, PopFront DEF Waits
<1>5. /\ h # t /\ pc[h] = "back" /\ state[h] = "BLOCK" /\ ~Queued(h) /\ ~Dead(h) /\ h \notin reaped
      /\ current[Home[h]] # h /\ prev[Home[h]] # h
  <2>1. current[Home[h]] # h /\ prev[Home[h]] # h
    BY DEF OnItsCpu
  <2>2. h # t /\ pc[h] = "back" /\ state[h] = "BLOCK"
    BY <1>1, <1>4, <2>1 DEF Waiters, Masked, Runs
  <2> QED
    BY <1>4, <2>1, <2>2 DEF Core, Located
<1> HIDE DEF h
<1>6. preempt_counter' \in [Cpu -> Nat] /\ PreemptBalanced'
  <2>1. t \notin Noint(c) /\ pc'[t] = "wake"
    BY <1>3 DEF Noint, MutexTypeOK
  <2> QED
    BY <1>1, <1>3, <2>1, CountMore
<1>7. Owner = {t} /\ Owner' = {h}
  <2>1. Owner = {t}
    BY <1>3 DEF OwnerIsOne, Owner
  <2>2. \A u \in Thread : u \in Owner' <=> u = h
    BY <1>2, <1>3, <1>4, <1>5, <2>1 DEF Owner, MutexTypeOK
  <2> QED
    BY <1>4, <2>1, <2>2 DEF Owner
<1>8. mutex_state = "CONTESTED"
  BY <1>3 DEF ContestedHasWaiter
<1>9. \A u \in Thread : pc[u] # "wake"
  BY <1>3 DEF Wakes
<1>10. Core'
  <2>1. TypeOK'
    BY <1>3, <1>4, <1>6 DEF Core, TypeOK, AnyThread
  <2>2. Homes' /\ Queues'
    BY <1>3 DEF Core, Homes, Queues
  <2>3. Phases'
    <3>1. \A d \in Cpu : prev[d] \in Thread /\ state[prev[d]] = "DESTROY" => state'[prev[d]] = "DESTROY"
      BY <1>3, <1>5 DEF Core, TypeOK, AnyThread
    <3> QED
      BY <1>3, <3>1 DEF Core, Phases
  <2>4. Located'
    BY <1>1, <1>3, <1>4, <1>5 DEF Core, TypeOK, AnyThread, Located, Queued, Dead
  <2>5. IdleReady'
    BY <1>3, <1>4 DEF Core, TypeOK, AnyThread, IdleReady
  <2> QED
    BY <2>1, <2>2, <2>3, <2>4, <2>5 DEF Core
<1>11. MutexTypeOK'
  BY <1>3, <1>4 DEF MutexTypeOK
<1>12. PreemptBalanced'
  BY <1>6
<1>13. Masked'
  BY <1>1, <1>3, <1>4, <1>5 DEF MutexTypeOK, Masked, Runs
<1>14. Blocks'
  <2>1. \A d \in Cpu : current[d] # h
    BY <1>4, <1>5 DEF Core, Homes
  <2>2. \A u \in Thread : state'[u] # "DESTROY" /\ (state'[u] = "BLOCK" => Waits(u) /\ u # h)
    BY <1>3, <1>4 DEF Blocks, Core, TypeOK, AnyThread
  <2>3. \A u \in Thread : u # t => pc'[u] = pc[u]
    BY <1>3 DEF MutexTypeOK
  <2>4. \A d \in Cpu : current[d] = t => d = c
    BY <1>1 DEF Core, Homes
  <2> QED
    BY <1>1, <1>3, <1>4, <2>1, <2>2, <2>3, <2>4 DEF Blocks
<1>15. Waiters'
  <2>1. \A u \in Thread : u # t => pc'[u] = pc[u]
    BY <1>3 DEF MutexTypeOK
  <2>2. pc'[t] = "wake" /\ ~Waits(t)
    BY <1>1, <1>3 DEF MutexTypeOK
  <2>3. \A u \in Thread : u # h => state'[u] = state[u]
    BY <1>3 DEF Core, TypeOK, AnyThread
  <2>4. \A u \in Thread : Waits(u)' => u # t /\ u # h /\ Waits(u)
    BY <1>4, <2>2
  <2>5. \A u \in Thread : pc'[u] = "block" => u # t /\ u # h /\ pc[u] = "block"
    BY <1>5, <2>1, <2>2
  <2> QED
    BY <1>3, <1>4, <2>1, <2>3, <2>4, <2>5 DEF Waiters
<1>16. Wakes'
  <2>1. woken'[t] = h /\ pc'[t] = "wake" /\ pc'[h] = "back" /\ state'[h] = "READY"
    BY <1>3, <1>4, <1>5 DEF MutexTypeOK, Core, TypeOK, AnyThread
  <2>2. \A u \in Thread : u # t => pc'[u] # "wake" /\ woken'[u] = woken[u] /\ woken[u] = NoThread
    BY <1>3, <1>9 DEF MutexTypeOK, Wakes
  <2>3. ~In(h, thread_queue'[Home[h]]) /\ prev'[Home[h]] # h
    BY <1>1, <1>3, <1>4, <1>5 DEF Queued
  <2> QED
    BY <1>3, <1>4, <1>7, <1>8, <2>1, <2>2, <2>3 DEF Wakes, Queued
<1>17. AllFound'
  <2> SUFFICES ASSUME NEW u \in Thread PROVE FoundAt(u)' \/ \E x \in Thread : woken'[x] = u
    BY DEF AllFound
  <2>1. CASE u = h
    BY <1>3, <2>1 DEF MutexTypeOK
  <2>2. CASE u # h
    <3>1. FoundAt(u)
      <4>1. \A x \in Thread : woken[x] # u
        BY <1>9 DEF Wakes
      <4> QED
        BY <4>1 DEF AllFound
    <3>2. state'[u] = state[u]
      BY <1>3, <2>2 DEF Core, TypeOK, AnyThread
    <3> QED
      BY <1>3, <3>1, <3>2 DEF FoundAt, Queued, Dead
  <2> QED
    BY <2>1, <2>2
<1>18. OwnerIsOne'
  BY <1>3, <1>7, <1>8 DEF OwnerIsOne
<1>19. ContestedHasWaiter'
  <2>1. \A u \in Thread : pc'[u] # "pop"
    BY <1>3, <1>7 DEF Owner, MutexTypeOK
  <2> QED
    BY <1>3, <2>1 DEF ContestedHasWaiter
<1> QED
  BY <1>10, <1>11, <1>12, <1>13, <1>14, <1>15, <1>16, <1>17, <1>18, <1>19 DEF MInv

LEMMA ReleaseWakeStep ==
  ASSUME MInv, NEW c \in Cpu, NEW t \in Thread, ReleaseWake(c, t)
  PROVE  MInv'
<1> USE Names DEF MInv
<1>1. /\ Home[t] = c
      /\ \A u \in Thread : Home[u] = c /\ pc[u] \in {"block", "wake"} => u = t
      /\ phase[c] = "run" /\ current[c] = t /\ prev[c] = NoThread /\ next[c] = NoThread
      /\ state[t] = "ACTIVE" /\ ~Queued(t)
      /\ \A u \in Thread : Waits(u) => pc[u] \in {"block", "back"} /\ (u = t => pc[u] = "block")
  BY Running DEF ReleaseWake
<1>2. \A u : (InWaitQueue(u) <=> Waits(u)) /\ (InWaitQueue(u)' <=> Waits(u)')
  BY DEF InWaitQueue, Waits, In
<1> DEFINE h == woken[t]
<1>3. /\ pc[t] = "wake" /\ pc' = [pc EXCEPT ![t] = "out"] /\ AddPreempt(c, -1)
      /\ mutex_lock' = NoThread /\ Push(h)
      /\ mutex_state' = IF wait_queue = <<>> THEN "LOCKED" ELSE mutex_state
      /\ woken' = [woken EXCEPT ![t] = NoThread]
      /\ UNCHANGED <<state, phase, yield_state, current, next, prev,
                     threads, dead_threads, dead_procs, reaping, reaped>>
      /\ UNCHANGED <<wait_queue, spins>>
  BY DEF ReleaseWake, Goto, quietVars, reaperVars
<1>4. /\ h \in Owner /\ h \in Thread /\ pc[h] = "back" /\ state[h] = "READY" /\ ~Queued(h)
      /\ mutex_state = "CONTESTED" /\ h # t /\ prev[Home[h]] # h
      /\ \A u \in Thread : u # t => pc[u] # "wake" /\ woken[u] = NoThread
  BY <1>1, <1>3 DEF Wakes, Owner
<1>5. /\ thread_queue' \in [Cpu -> Seq(Thread)]
      /\ \A d \in Cpu : NoDup(thread_queue'[d])
      /\ \A d \in Cpu, u \in Thread :
           In(u, thread_queue'[d]) <=> In(u, thread_queue[d]) \/ (u = h /\ d = Home[h])
  <2> HIDE DEF h
  <2> QED
    BY <1>3, <1>4, PushQueue DEF Core
<1>6. preempt_counter' \in [Cpu -> Nat] /\ PreemptBalanced'
  <2>1. t \in Noint(c) /\ pc'[t] = "out"
    BY <1>1, <1>3 DEF Noint, MutexTypeOK
  <2> QED
    BY <1>3, <2>1, CountLess
<1>7. Owner' = Owner
  <2>1. \A u : Waits(u)' <=> Waits(u)
    BY <1>3 DEF Waits
  <2>2. \A u \in Thread : u \in Owner' <=> u \in Owner
    BY <1>2, <1>3, <2>1 DEF Owner, MutexTypeOK
  <2> QED
    BY <2>2 DEF Owner
<1>8. mutex_state' \in {"LOCKED", "CONTESTED"} /\ (mutex_state' = "CONTESTED" <=> wait_queue # <<>>)
  BY <1>3, <1>4
<1>9. /\ pc' \in [Thread -> {"out", "spin", "block", "back", "in", "pop", "wake"}] /\ pc'[t] = "out"
      /\ \A u \in Thread : u # t => pc'[u] = pc[u]
      /\ \A u \in Thread : woken'[u] = NoThread
  BY <1>3, <1>4 DEF MutexTypeOK
<1>10. \A u \in Thread : u # h => FoundAt(u)
  <2>1. \A u, x \in Thread : u # h => woken[x] # u
    BY <1>4
  <2> QED
    BY <2>1 DEF AllFound
<1> HIDE DEF h
<1>11. Core'
  <2>1. TypeOK'
    BY <1>3, <1>5, <1>6 DEF Core, TypeOK
  <2>2. Homes'
    BY <1>3, <1>4, <1>5 DEF Core, Homes
  <2>3. Queues' /\ IdleReady'
    BY <1>3, <1>5 DEF Core, Queues, IdleReady
  <2>4. Phases'
    BY <1>3 DEF Core, Phases
  <2>5. Located'
    BY <1>1, <1>3, <1>4, <1>5 DEF Core, Located, Queued, Dead
  <2> QED
    BY <2>1, <2>2, <2>3, <2>4, <2>5 DEF Core
<1>12. MutexTypeOK'
  BY <1>3, <1>8, <1>9 DEF MutexTypeOK
<1>13. PreemptBalanced'
  BY <1>6
<1>14. Masked'
  BY <1>1, <1>3, <1>4, <1>9 DEF MutexTypeOK, Masked, Runs
<1>15. Blocks'
  BY <1>1, <1>3, <1>4, <1>9 DEF MutexTypeOK, Blocks, Waits, TypeOK, AnyThread
<1>16. Waiters'
  BY <1>1, <1>3, <1>4, <1>9 DEF MutexTypeOK, Waiters, Waits, TypeOK, AnyThread
<1>17. Wakes'
  <2>1. \A u \in Thread : pc'[u] # "wake"
    BY <1>4, <1>9
  <2> QED
    BY <1>3, <1>9, <2>1 DEF Wakes
<1>18. AllFound'
  <2> SUFFICES ASSUME NEW u \in Thread PROVE FoundAt(u)'
    BY DEF AllFound
  <2>1. CASE u = h
    BY <1>1, <1>3, <1>4, <1>5, <2>1 DEF FoundAt, Queued
  <2>2. CASE u # h
    <3>1. FoundAt(u)
      BY <1>10, <2>2
    <3> QED
      BY <1>1, <1>3, <1>5, <3>1 DEF FoundAt, Queued, Dead
  <2> QED
    BY <2>1, <2>2
<1>19. OwnerIsOne'
  BY <1>4, <1>7, <1>8 DEF OwnerIsOne
<1>20. ContestedHasWaiter'
  <2>1. \A u \in Thread : pc'[u] # "pop"
    BY <1>4, <1>9 DEF OwnerIsOne, Owner
  <2> QED
    BY <1>3, <1>8, <2>1 DEF ContestedHasWaiter
<1> QED
  BY <1>11, <1>12, <1>13, <1>14, <1>15, <1>16, <1>17, <1>18, <1>19, <1>20 DEF MInv

---------------------------------------------------------------------------
LEMMA StepMInv ==
  ASSUME MInv, [MutexNext]_vars, ~raced'
  PROVE  MInv'
<1>1. CASE UNCHANGED vars
  <2>1. /\ UNCHANGED <<state, thread_queue, phase, yield_state, current, next, prev, preempt_counter,
                       threads, dead_threads, dead_procs, reaping, reaped>>
        /\ UNCHANGED <<mutex_state, mutex_lock, wait_queue, pc, spins, woken>>
    BY <1>1 DEF vars, schedVars, reaperVars, mutexVars
  <2>2. Core' /\ \A u \in Thread : FoundAt(u)' <=> FoundAt(u)
    BY <2>1, CoreStays DEF MInv, Core, TypeOK
  <2>3. Owner' = Owner /\ PreemptBalanced'
    BY <2>1, CountSame DEF Owner, InWaitQueue, MInv
  <2> QED
    BY <2>1, <2>2, <2>3 DEF MInv, MutexTypeOK, Masked, Runs, Blocks, Waiters, Waits, Wakes,
                            Queued, AllFound, OwnerIsOne, ContestedHasWaiter
<1>2. ASSUME NEW c \in Cpu, NEW t \in Thread, ReleasePop(c, t) PROVE MInv'
  <2>1. ~OnItsCpu(Head(wait_queue))
    BY <1>2 DEF ReleasePop
  <2> QED
    BY <1>2, <2>1, ReleasePopStep
<1>3. ASSUME NEW c \in Cpu, NEW t \in Thread, MutexStep(c, t) PROVE MInv'
  BY <1>2, <1>3, AcquireTryStep, AcquireSpinStep, AcquireSlowStep, AcquireBlockStep, AcquireBackStep,
     ReleaseTryStep, ReleaseWakeStep DEF MutexStep
<1> QED
  BY <1>1, <1>3, MutexPick, MutexSwitch, MutexDrop, MutexPreempt DEF MutexNext

LEMMA RacedStays == raced /\ [MutexNext]_vars => raced'
<1> SUFFICES ASSUME [MutexNext]_vars PROVE UNCHANGED raced \/ raced' = (raced \/ OnItsCpu(Head(wait_queue)))
  OBVIOUS
<1>1. CASE UNCHANGED vars
  BY <1>1 DEF vars, mutexVars
<1>2. ASSUME NEW c \in Cpu, NEW t \in Thread, MutexStep(c, t)
      PROVE  UNCHANGED raced \/ raced' = (raced \/ OnItsCpu(Head(wait_queue)))
  BY <1>2 DEF MutexStep, AcquireTry, AcquireSpin, AcquireSlow, AcquireBlock, AcquireBack,
              ReleaseTry, ReleasePop, ReleaseWake
<1>3. CASE UNCHANGED mutexVars
  BY <1>3 DEF mutexVars
<1> QED
  BY <1>1, <1>2, <1>3 DEF MutexNext

LEMMA MutexInvariance == MutexSpec => [](raced \/ MInv)
<1>1. MutexInit => MInv
  BY InitMInv
<1>2. MInv /\ [MutexNext]_vars => raced' \/ MInv'
  BY StepMInv
<1>3. raced /\ [MutexNext]_vars => raced'
  BY RacedStays
<1> QED
  BY <1>1, <1>2, <1>3, PTL DEF MutexSpec

LEMMA MInvOneOwner == raced \/ MInv => OneOwner
<1> SUFFICES ASSUME MInv PROVE Cardinality(Owner) <= 1
  BY DEF OneOwner, MInv, OwnerIsOne
<1>1. CASE Owner = {}
  BY <1>1, FS_EmptySet
<1>2. CASE Owner # {}
  <2>1. PICK x : x \in Owner
    BY <1>2
  <2>2. Owner = {x}
    BY <2>1 DEF MInv, OwnerIsOne
  <2> QED
    BY <2>2, FS_Singleton
<1> QED
  BY <1>1, <1>2

LEMMA MInvWaiters == raced \/ MInv => WaitersKept
<1> SUFFICES ASSUME MInv PROVE NoLostWakeup
  BY DEF WaitersKept, MInv
<1> SUFFICES ASSUME NEW t \in Thread
             PROVE  /\ Cardinality(Places(t)) <= 1
                    /\ Places(t) = {} /\ state[t] # "NEW" =>
                         InWaitQueue(t) \/ \E u \in Thread : woken[u] = t
  BY DEF NoLostWakeup
<1>1. /\ Cardinality(Places(t)) <= 1
      /\ Places(t) = {} => ~Queued(t) /\ ~Dead(t) /\ current[Home[t]] # t
                           /\ next[Home[t]] # t /\ prev[Home[t]] # t
  BY PlacesAreOne DEF MInv
<1>2. state[t] \in {"NEW", "READY", "ACTIVE", "BLOCK"}
  BY DEF MInv, Core, TypeOK, AnyThread, Blocks
<1>3. state[t] = "BLOCK" => InWaitQueue(t)
  BY DEF MInv, Blocks, Waits, In, InWaitQueue
<1>4. FoundAt(t) \/ \E u \in Thread : woken[u] = t
  BY DEF MInv, AllFound
<1> QED
  BY <1>1, <1>2, <1>3, <1>4 DEF FoundAt

(* For every number of CPUs and threads and every SPIN_COUNT, until a      *)
(* releaser meets a waiter still on its CPU: one thread owns the mutex,    *)
(* UNLOCKED means that nobody does, and mutex_release hands it over        *)
(* without a second thread, of this CPU or another, getting in.            *)
THEOREM MutexHasOneOwner == MutexSpec => []OneOwner
<1>1. raced \/ MInv => OneOwner
  BY MInvOneOwner
<1> QED
  BY <1>1, MutexInvariance, PTL

(* For every number of CPUs and threads and every SPIN_COUNT, until a      *)
(* releaser meets a waiter still on its CPU: the assertions of             *)
(* mutex_release hold, it knows every thread that mutex_acquire has put to *)
(* sleep, no thread is in two places, and preempt_counter of a CPU counts  *)
(* its threads inside the mutex's spinlock and no others.                  *)
THEOREM WaitersAreKept == MutexSpec => []WaitersKept
<1>1. raced \/ MInv => WaitersKept
  BY MInvWaiters
<1> QED
  BY <1>1, MutexInvariance, PTL
===========================================================================
