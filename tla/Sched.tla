------------------------------- MODULE Sched -------------------------------
(***************************************************************************)
(* The scheduler (sched/sched.c and the switch of arch/x86_64/sched.c),    *)
(* thread and process creation and the reaper (sched/reaper.c).            *)
(*                                                                         *)
(* Every thread belongs to the run queue of one CPU, thread->scheduler.    *)
(* sched_yield runs with interrupts masked, so a CPU in the middle of it   *)
(* does nothing else, but other CPUs do: choosing the next thread,         *)
(* switching to it and dropping the old one are separate actions.          *)
(* Sections under the scheduler, process and reaper spinlocks are one      *)
(* action.  The timer event that asks for preemption may come at any time. *)
(***************************************************************************)
EXTENDS Integers, Sequences, FiniteSets

CONSTANTS
  Cpu, Thread, Proc,
  Home,           \* thread->scheduler: a CPU for every thread
  ProcOf,         \* thread->proc, or NoProc for a kernel thread
  Idle,           \* the idle thread of every CPU
  Reaper,         \* the reaper thread
  Initial,        \* for every CPU, the threads that boot schedules there, in this order
  NoThread, NoProc

IdleThread == { Idle[c] : c \in Cpu }

ASSUME ThreadAssumption ==
  /\ Home \in [Thread -> Cpu] /\ ProcOf \in [Thread -> Proc \cup {NoProc}]
  /\ Reaper \in Thread /\ ProcOf[Reaper] = NoProc
  /\ Idle \in [Cpu -> IdleThread] /\ \A c, d \in Cpu : Idle[c] = Idle[d] => c = d
  /\ IdleThread \cap Thread = {} /\ NoThread \notin Thread \cup IdleThread
  /\ NoProc \notin Proc /\ Thread \cap Proc = {}

ASSUME InitialAssumption ==
  /\ Initial \in [Cpu -> Seq(Thread)]
  /\ \A c \in Cpu : \A i, j \in 1 .. Len(Initial[c]) :
       /\ Home[Initial[c][i]] = c /\ ProcOf[Initial[c][i]] = NoProc
       /\ Initial[c][i] = Initial[c][j] => i = j

VARIABLES
  state,            \* thread->state, or "NEW" before create_thread
  thread_queue,     \* sched->thread_queue of every CPU
  current,          \* arch.current_thread of every CPU
  phase,            \* how far sched_yield on every CPU has got
  yield_state,      \* its argument
  next, prev,       \* the thread it switches to, the thread it drops
  preempt_counter,  \* sched.status.preempt_counter of every CPU
  threads,          \* proc->threads
  dead_threads, dead_procs,   \* g_thread_queue and g_process_queue of the reaper
  reaping,          \* which of the reaper's two loops it is in
  reaped            \* the threads and processes the reaper is done with

reaperVars == <<threads, dead_threads, dead_procs, reaping, reaped>>
schedVars == <<state, thread_queue, current, phase, yield_state, next, prev, preempt_counter, reaperVars>>

Init ==
  /\ state = [t \in Thread \cup IdleThread |->
                IF t \in IdleThread \/ \E c \in Cpu : \E i \in 1 .. Len(Initial[c]) : t = Initial[c][i]
                THEN "READY" ELSE "NEW"]
  /\ thread_queue = Initial
  /\ current = Idle
  /\ phase = [c \in Cpu |-> "run"]
  /\ yield_state = [c \in Cpu |-> "READY"]
  /\ next = [c \in Cpu |-> NoThread] /\ prev = [c \in Cpu |-> NoThread]
  /\ preempt_counter = [c \in Cpu |-> 0]
  /\ threads = [p \in Proc |-> {}]
  /\ dead_threads = <<>> /\ dead_procs = <<>> /\ reaping = "procs" /\ reaped = {}
---------------------------------------------------------------------------
(* Mutant: the thread goes to the front of the queue.                      *)
PushFront(t) == thread_queue' = [thread_queue EXCEPT ![Home[t]] = <<t>> \o @]

(* sched_thread_schedule, once the state is READY: the locked push.        *)
Push(t) == thread_queue' = [thread_queue EXCEPT ![Home[t]] = Append(@, t)]

Enter(c, ph) == phase' = [phase EXCEPT ![c] = ph]

(* Entry of sched_yield(s) on c.                                           *)
sched_yield(c, s) ==
  /\ Enter(c, "pick")
  /\ yield_state' = [yield_state EXCEPT ![c] = s]

(* Mutant: the next thread is read but not taken off the queue.            *)
YieldPickPeeks(c) ==
  /\ phase[c] = "pick" /\ thread_queue[c] # <<>>
  /\ next' = [next EXCEPT ![c] = Head(thread_queue[c])]
  /\ Enter(c, "switch")
  /\ UNCHANGED <<state, thread_queue, current, yield_state, prev, preempt_counter, reaperVars>>

(* sched_thread_next, or the idle thread when nobody is ready.             *)
YieldPick(c) ==
  /\ phase[c] = "pick"
  /\ \/ /\ thread_queue[c] # <<>>
        /\ LET t == Head(thread_queue[c]) IN
           /\ thread_queue' = [thread_queue EXCEPT ![c] = Tail(@)]
           /\ state' = [state EXCEPT ![t] = "ACTIVE"]
           /\ next' = [next EXCEPT ![c] = t]
     \/ /\ thread_queue[c] = <<>>
        /\ next' = [next EXCEPT ![c] = IF current[c] # Idle[c] THEN Idle[c] ELSE NoThread]
        /\ UNCHANGED <<thread_queue, state>>
  /\ Enter(c, "switch")
  /\ UNCHANGED <<current, yield_state, prev, preempt_counter, reaperVars>>

(* Set the old thread's state and switch stacks; without a next thread     *)
(* sched_yield returns.                                                    *)
YieldSwitch(c) ==
  /\ phase[c] = "switch"
  /\ \/ /\ next[c] # NoThread
        /\ state' = [state EXCEPT ![current[c]] = yield_state[c]]
        /\ prev' = [prev EXCEPT ![c] = current[c]]
        /\ current' = [current EXCEPT ![c] = next[c]]
        /\ Enter(c, "drop")
     \/ next[c] = NoThread /\ Enter(c, "run") /\ UNCHANGED <<state, prev, current>>
  /\ next' = [next EXCEPT ![c] = NoThread]
  /\ UNCHANGED <<thread_queue, yield_state, preempt_counter, reaperVars>>

(* internal_sched_thread_drop on the new thread's stack: the idle thread   *)
(* and a blocked one are let go, a ready one goes to the end of the queue. *)
YieldDrop(c) ==
  LET t == prev[c] IN
  /\ phase[c] = "drop"
  /\ \/ t \in IdleThread /\ UNCHANGED thread_queue
     \/ t \in Thread /\ state[t] = "BLOCK" /\ UNCHANGED thread_queue
     \/ t \in Thread /\ state[t] = "READY" /\ Push(t)
  /\ prev' = [prev EXCEPT ![c] = NoThread]
  /\ Enter(c, "run")
  /\ UNCHANGED <<state, current, yield_state, next, preempt_counter, reaperVars>>

(* Mutant: the process goes to the reaper with its first dead thread.      *)
DropDestroyedEager(c) ==
  LET t == prev[c] IN
  /\ phase[c] = "drop" /\ t \in Thread /\ state[t] = "DESTROY"
  /\ ProcOf[t] # NoProc
  /\ threads' = [threads EXCEPT ![ProcOf[t]] = @ \ {t}]
  /\ dead_procs' = Append(dead_procs, ProcOf[t])
  /\ Enter(c, "reap")
  /\ UNCHANGED <<state, thread_queue, current, yield_state, next, prev, preempt_counter,
                 dead_threads, reaping, reaped>>

(* ... and a destroyed thread leaves its process, which goes to the reaper *)
(* with its last thread (proc->lock then stays taken) ...                  *)
DropDestroyed(c) ==
  LET t == prev[c]  p == ProcOf[t] IN
  /\ phase[c] = "drop" /\ t \in Thread /\ state[t] = "DESTROY"
  /\ \/ p = NoProc /\ UNCHANGED <<threads, dead_procs>>
     \/ /\ p # NoProc
        /\ threads' = [threads EXCEPT ![p] = @ \ {t}]
        /\ dead_procs' = IF threads[p] = {t} THEN Append(dead_procs, p) ELSE dead_procs
  /\ Enter(c, "reap")
  /\ UNCHANGED <<state, thread_queue, current, yield_state, next, prev, preempt_counter,
                 dead_threads, reaping, reaped>>

(* ... before the thread itself does.                                      *)
DropReap(c) ==
  /\ phase[c] = "reap"
  /\ dead_threads' = Append(dead_threads, prev[c])
  /\ prev' = [prev EXCEPT ![c] = NoThread]
  /\ Enter(c, "run")
  /\ UNCHANGED <<state, thread_queue, current, yield_state, next, preempt_counter,
                 threads, dead_procs, reaping, reaped>>

(* The timer event ends in sched_preempt_dec, which yields; a thread that  *)
(* gives up the CPU by itself does the same.  It may also never come: the  *)
(* timer fires once, and the flag it sets may be left unread (CpuLocal).   *)
Preempt(c) ==
  /\ phase[c] = "run" /\ preempt_counter[c] = 0
  /\ sched_yield(c, "READY")
  /\ UNCHANGED <<state, thread_queue, current, next, prev, preempt_counter, reaperVars>>

Yield(c) == YieldPick(c) \/ YieldSwitch(c) \/ YieldDrop(c) \/ DropDestroyed(c) \/ DropReap(c)
---------------------------------------------------------------------------
(* What threads do with the scheduler.                                     *)
Runs(c, t) == phase[c] = "run" /\ current[c] = t

(* create_thread and sched_thread_schedule.  A user thread is created by a *)
(* thread of its process, or is the first of a new one.                    *)
Spawn(c) ==
  \E s \in Thread \ {Reaper}, t \in Thread :
    /\ Runs(c, s) /\ state[t] = "NEW"
    /\ \/ ProcOf[t] = NoProc /\ UNCHANGED threads
       \/ /\ ProcOf[t] # NoProc
          /\ ProcOf[s] = ProcOf[t] \/ \A u \in Thread : ProcOf[u] = ProcOf[t] => state[u] = "NEW"
          /\ threads' = [threads EXCEPT ![ProcOf[t]] = @ \cup {t}]
    /\ state' = [state EXCEPT ![t] = "READY"]
    /\ Push(t)
  /\ UNCHANGED <<current, phase, yield_state, next, prev, preempt_counter,
                 dead_threads, dead_procs, reaping, reaped>>

(* kernel_thread_exit and syscall_exit.                                    *)
Exit(c) ==
  /\ \E t \in Thread \ {Reaper} : Runs(c, t)
  /\ sched_yield(c, "DESTROY")
  /\ UNCHANGED <<state, thread_queue, current, next, prev, preempt_counter, reaperVars>>

(* One iteration of either loop of reaper_thread, or its final yield.      *)
Reap(c) ==
  /\ Runs(c, Reaper)
  /\ \/ /\ reaping = "procs" /\ dead_procs # <<>>
        /\ reaped' = reaped \cup {Head(dead_procs)} /\ dead_procs' = Tail(dead_procs)
        /\ UNCHANGED <<phase, yield_state, dead_threads, reaping>>
     \/ /\ reaping = "procs" /\ dead_procs = <<>>
        /\ reaping' = "threads"
        /\ UNCHANGED <<phase, yield_state, dead_threads, dead_procs, reaped>>
     \/ /\ reaping = "threads" /\ dead_threads # <<>>
        /\ reaped' = reaped \cup {Head(dead_threads)} /\ dead_threads' = Tail(dead_threads)
        /\ UNCHANGED <<phase, yield_state, dead_procs, reaping>>
     \/ /\ reaping = "threads" /\ dead_threads = <<>>
        /\ sched_yield(c, "BLOCK")
        /\ reaping' = "procs"
        /\ UNCHANGED <<dead_threads, dead_procs, reaped>>
  /\ UNCHANGED <<state, thread_queue, current, next, prev, preempt_counter, threads>>

Next == \E c \in Cpu : Yield(c) \/ Preempt(c) \/ Spawn(c) \/ Exit(c) \/ Reap(c)

(* A CPU finishes a sched_yield it has begun, as it runs with interrupts   *)
(* masked.  Nothing is said of when a CPU enters it.                       *)
Fairness == \A c \in Cpu : WF_schedVars(Yield(c))

Spec == Init /\ [][Next]_schedVars
FairSpec == Spec /\ Fairness
---------------------------------------------------------------------------
(* Properties.                                                             *)

AnyThread == Thread \cup IdleThread

TypeOK ==
  /\ state \in [AnyThread -> {"NEW", "READY", "ACTIVE", "BLOCK", "DESTROY"}]
  /\ thread_queue \in [Cpu -> Seq(Thread)]
  /\ current \in [Cpu -> AnyThread]
  /\ phase \in [Cpu -> {"run", "pick", "switch", "drop", "reap"}]
  /\ yield_state \in [Cpu -> {"READY", "BLOCK", "DESTROY"}]
  /\ next \in [Cpu -> AnyThread \cup {NoThread}] /\ prev \in [Cpu -> AnyThread \cup {NoThread}]
  /\ preempt_counter \in [Cpu -> Nat]
  /\ threads \in [Proc -> SUBSET Thread]
  /\ dead_threads \in Seq(Thread) /\ dead_procs \in Seq(Proc)
  /\ reaping \in {"procs", "threads"} /\ reaped \subseteq Thread \cup Proc

(* The places a thread is in: the entries of the run queues and of the     *)
(* reaper's queue, the CPUs that run it, and the CPUs in sched_yield that  *)
(* are about to switch to it or to drop it.                                *)
Places(t) ==
  (UNION { { <<"queue", c, i>> : i \in { j \in DOMAIN thread_queue[c] : thread_queue[c][j] = t } } : c \in Cpu })
  \cup { <<"dead", NoThread, i>> : i \in { j \in DOMAIN dead_threads : dead_threads[j] = t } }
  \cup { <<"current", c, 0>> : c \in { d \in Cpu : current[d] = t } }
  \cup { <<"next", c, 0>> : c \in { d \in Cpu : next[d] = t } }
  \cup { <<"prev", c, 0>> : c \in { d \in Cpu : prev[d] = t } }

(* A thread is never in two places, so its list_node_sched is never linked *)
(* twice and no two CPUs run on one stack, and it is in none only before   *)
(* it is created, while it is blocked, and after the reaper took it.       *)
OnePlace ==
  \A t \in Thread :
    /\ Cardinality(Places(t)) <= 1
    /\ Places(t) = {} <=> state[t] = "NEW" \/ t \in reaped \/
                           (state[t] = "BLOCK" /\ \A c \in Cpu : t # prev[c])

(* The assertions of sched_yield and internal_sched_thread_drop: preemption*)
(* is enabled on entry (deferred work is CpuLocal's), a thread never       *)
(* switches to itself, the idle thread that finds nobody ready has the     *)
(* state it yields with, and a dropped thread is not active.               *)
YieldAsserts ==
  \A c \in Cpu :
    /\ phase[c] = "pick" => preempt_counter[c] = 0
    /\ phase[c] = "switch" => current[c] # next[c]
    /\ phase[c] = "switch" /\ next[c] = NoThread => state[current[c]] = yield_state[c]
    /\ phase[c] = "drop" /\ prev[c] \in Thread => state[prev[c]] \in {"READY", "BLOCK", "DESTROY"}

(* No interleaving of sched_yield, internal_sched_thread_drop, thread      *)
(* creation, exit and the reaper on two CPUs loses a thread, links it      *)
(* twice or trips an assertion of the scheduler.                           *)
ThreadsAccounted == TypeOK /\ OnePlace /\ YieldAsserts

(* The reaper frees a process only when its last thread is gone: whatever  *)
(* CPU switches to a thread, thread->proc is still there.                  *)
ProcOutlivesThreads ==
  \A p \in Proc : p \in reaped =>
    \A t \in Thread : ProcOf[t] = p => state[t] \in {"NEW", "DESTROY"} /\ \A c \in Cpu : current[c] # t

(* The run queue starves nobody: a thread that is ready to run gets its    *)
(* CPU as long as that CPU keeps entering sched_yield, whatever the others *)
(* on its queue do, and however many are created, woken or destroyed.      *)
ReadyRuns ==
  \A t \in Thread :
    []<>(phase[Home[t]] = "pick") => ((state[t] = "READY") ~> (current[Home[t]] = t))
===========================================================================
