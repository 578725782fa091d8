------------------------------- MODULE Mutex -------------------------------
(***************************************************************************)
(* common/lock/mutex.c on top of the scheduler: threads that acquire and   *)
(* release one mutex, spin on it by yielding, and block on it.             *)
(*                                                                         *)
(* A section under mutex->lock is one action, except that of mutex_release:*)
(* it schedules the thread it wakes, and the CPU of that thread, which may *)
(* be in sched_yield, does not take mutex->lock.  spinlock_acquire_noint   *)
(* and its release raise and lower preempt_counter of the CPU.             *)
(*                                                                         *)
(* A waiter calls sched_yield with preempt_counter raised: it fails the    *)
(* assertion of sched_yield (the first part of YieldAsserts), and the CPU  *)
(* it leaves is not preempted again until it is back.  ASSERT is compiled  *)
(* out of production builds, so execution goes on past it.  Where the CPU  *)
(* falls back to its idle thread, nobody ever takes it from there: the     *)
(* waiter does not come back, and the whole system may come to rest.       *)
(***************************************************************************)
EXTENDS Sched

CONSTANT SPIN_COUNT

ASSUME MutexAssumption == IsFiniteSet(Thread) /\ SPIN_COUNT \in Nat

VARIABLES
  mutex_state,    \* mutex->state
  mutex_lock,     \* the thread that holds mutex->lock, or NoThread
  wait_queue,     \* mutex->wait_queue
  pc, spins,      \* of every thread: where it is, its iterations of the loop
  woken,          \* the thread a releaser has taken off the wait queue
  raced           \* history: some releaser met a waiter that was still on its CPU

mutexVars == <<mutex_state, mutex_lock, wait_queue, pc, spins, woken, raced>>
vars == <<schedVars, mutexVars>>
quietVars == <<current, next, prev, reaperVars>>

MutexInit ==
  /\ Init
  /\ mutex_state = "UNLOCKED" /\ mutex_lock = NoThread /\ wait_queue = <<>>
  /\ pc = [t \in Thread |-> "out"]
  /\ spins = [t \in Thread |-> 0]
  /\ woken = [t \in Thread |-> NoThread]
  /\ raced = FALSE
---------------------------------------------------------------------------
Goto(t, label) == pc' = [pc EXCEPT ![t] = label]
AddPreempt(c, n) == preempt_counter' = [preempt_counter EXCEPT ![c] = @ + n]

(* The first try_lock of mutex_acquire.                                    *)
AcquireTry(c, t) ==
  /\ Runs(c, t) /\ pc[t] = "out"
  /\ \/ mutex_state = "UNLOCKED" /\ mutex_state' = "LOCKED" /\ Goto(t, "in")
     \/ mutex_state # "UNLOCKED" /\ Goto(t, "spin") /\ UNCHANGED mutex_state
  /\ UNCHANGED <<schedVars, mutex_lock, wait_queue, spins, woken, raced>>

(* An iteration of the spin loop: try_lock, or yield and try again.        *)
AcquireSpin(c, t) ==
  /\ Runs(c, t) /\ pc[t] = "spin" /\ spins[t] < SPIN_COUNT
  /\ \/ /\ mutex_state = "UNLOCKED" /\ mutex_state' = "LOCKED"
        /\ Goto(t, "in")
        /\ spins' = [spins EXCEPT ![t] = 0]
        /\ UNCHANGED <<phase, yield_state>>
     \/ /\ mutex_state # "UNLOCKED" /\ sched_yield(c, "READY")
        /\ spins' = [spins EXCEPT ![t] = @ + 1]
        /\ UNCHANGED <<mutex_state, pc>>
  /\ UNCHANGED <<state, thread_queue, preempt_counter, quietVars, mutex_lock, wait_queue, woken, raced>>

(* Mutant: a free mutex that was marked contested stays so.                *)
AcquireSlowStaysContested(c, t) ==
  /\ Runs(c, t) /\ pc[t] = "spin" /\ spins[t] = SPIN_COUNT /\ mutex_lock = NoThread
  /\ mutex_state' = "CONTESTED"
  /\ \/ /\ mutex_state # "UNLOCKED"
        /\ wait_queue' = Append(wait_queue, t)
        /\ AddPreempt(c, 1)
        /\ Goto(t, "block")
     \/ mutex_state = "UNLOCKED" /\ Goto(t, "in") /\ UNCHANGED <<wait_queue, preempt_counter>>
  /\ spins' = [spins EXCEPT ![t] = 0]
  /\ UNCHANGED <<state, thread_queue, phase, yield_state, quietVars, mutex_lock, woken, raced>>

(* Under mutex->lock: mark the mutex contested and join the wait queue, or *)
(* take it if it turned out to be free.  A waiter keeps interrupts masked  *)
(* and preemption off when it drops the lock with spinlock_release_raw.    *)
AcquireSlow(c, t) ==
  /\ Runs(c, t) /\ pc[t] = "spin" /\ spins[t] = SPIN_COUNT /\ mutex_lock = NoThread
  /\ \/ /\ mutex_state # "UNLOCKED"
        /\ mutex_state' = "CONTESTED"
        /\ wait_queue' = Append(wait_queue, t)
        /\ AddPreempt(c, 1)
        /\ Goto(t, "block")
     \/ /\ mutex_state = "UNLOCKED" /\ mutex_state' = "LOCKED"
        /\ Goto(t, "in")
        /\ UNCHANGED <<wait_queue, preempt_counter>>
  /\ spins' = [spins EXCEPT ![t] = 0]
  /\ UNCHANGED <<state, thread_queue, phase, yield_state, quietVars, mutex_lock, woken, raced>>

(* Mutant: yields as ready instead of blocking.                            *)
AcquireBlockReady(c, t) ==
  /\ Runs(c, t) /\ pc[t] = "block"
  /\ sched_yield(c, "READY")
  /\ Goto(t, "back")
  /\ UNCHANGED <<state, thread_queue, preempt_counter, quietVars,
                 mutex_state, mutex_lock, wait_queue, spins, woken, raced>>

AcquireBlock(c, t) ==
  /\ Runs(c, t) /\ pc[t] = "block"
  /\ sched_yield(c, "BLOCK")
  /\ Goto(t, "back")
  /\ UNCHANGED <<state, thread_queue, preempt_counter, quietVars,
                 mutex_state, mutex_lock, wait_queue, spins, woken, raced>>

(* The thread runs again and holds the mutex.                              *)
AcquireBack(c, t) ==
  /\ Runs(c, t) /\ pc[t] = "back" /\ mutex_lock = NoThread
  /\ AddPreempt(c, -1)
  /\ Goto(t, "in")
  /\ UNCHANGED <<state, thread_queue, phase, yield_state, quietVars,
                 mutex_state, mutex_lock, wait_queue, spins, woken, raced>>

(* mutex_release: LOCKED becomes UNLOCKED, or there are waiters.           *)
ReleaseTry(c, t) ==
  /\ Runs(c, t) /\ pc[t] = "in"
  /\ \/ mutex_state = "LOCKED" /\ mutex_state' = "UNLOCKED" /\ Goto(t, "out")
     \/ mutex_state # "LOCKED" /\ Goto(t, "pop") /\ UNCHANGED mutex_state
  /\ UNCHANGED <<schedVars, mutex_lock, wait_queue, spins, woken, raced>>

(* The window of mutex_acquire between spinlock_release_raw and the drop   *)
(* of the waiter on its CPU ("race condition here ?").                     *)
OnItsCpu(t) == current[Home[t]] = t \/ prev[Home[t]] = t

(* Take mutex->lock, pop a waiter and set its state ...                    *)
ReleasePop(c, t) ==
  /\ Runs(c, t) /\ pc[t] = "pop" /\ mutex_lock = NoThread /\ wait_queue # <<>>
  /\ mutex_lock' = t
  /\ AddPreempt(c, 1)
  /\ woken' = [woken EXCEPT ![t] = Head(wait_queue)]
  /\ wait_queue' = Tail(wait_queue)
  /\ state' = [state EXCEPT ![Head(wait_queue)] = "READY"]
  /\ raced' = (raced \/ OnItsCpu(Head(wait_queue)))
  /\ Goto(t, "wake")
  /\ UNCHANGED <<thread_queue, phase, yield_state, quietVars, mutex_state, spins>>

(* ... push it onto its CPU's queue, and hand the mutex to it.             *)
ReleaseWake(c, t) ==
  /\ Runs(c, t) /\ pc[t] = "wake"
  /\ Push(woken[t])
  /\ mutex_state' = IF wait_queue = <<>> THEN "LOCKED" ELSE mutex_state
  /\ mutex_lock' = NoThread
  /\ AddPreempt(c, -1)
  /\ woken' = [woken EXCEPT ![t] = NoThread]
  /\ Goto(t, "out")
  /\ UNCHANGED <<state, phase, yield_state, quietVars, wait_queue, spins, raced>>

MutexStep(c, t) ==
  \/ AcquireTry(c, t) \/ AcquireSpin(c, t) \/ AcquireSlow(c, t) \/ AcquireBlock(c, t)
  \/ AcquireBack(c, t) \/ ReleaseTry(c, t) \/ ReleasePop(c, t) \/ ReleaseWake(c, t)

MutexNext ==
  \E c \in Cpu :
    \/ (YieldPick(c) \/ YieldSwitch(c) \/ YieldDrop(c) \/ Preempt(c)) /\ UNCHANGED mutexVars
    \/ \E t \in Thread : MutexStep(c, t)

MutexSpec == MutexInit /\ [][MutexNext]_vars
---------------------------------------------------------------------------
(* Properties.                                                             *)

(* The threads that own the mutex: inside it, or taken off the wait queue  *)
(* by the thread that handed it over.                                      *)
InWaitQueue(t) == \E i \in 1 .. Len(wait_queue) : wait_queue[i] = t
Owner == { t \in Thread : pc[t] \in {"in", "pop"} \/ (pc[t] \in {"block", "back"} /\ ~InWaitQueue(t)) }

(* Unless a releaser met a waiter still on its CPU: one thread owns the    *)
(* mutex, and it is UNLOCKED exactly while nobody does.  Neither a         *)
(* spinning thread nor a woken one gets in beside another, and a blocked   *)
(* thread does not return before it has been handed the mutex.             *)
OneOwner ==
  raced \/ /\ Cardinality(Owner) <= 1
           /\ mutex_state = "UNLOCKED" <=> Owner = {}

(* The assertions of mutex_release: who finds the mutex not LOCKED finds   *)
(* it CONTESTED with somebody waiting.  So no waiter is forgotten.         *)
ContestedHasWaiter ==
  /\ \A t \in Thread : pc[t] = "pop" => mutex_state = "CONTESTED" /\ wait_queue # <<>>
  /\ mutex_lock = NoThread => (mutex_state = "CONTESTED" <=> wait_queue # <<>>)

(* No wake-up is lost or delivered twice: a thread that no CPU and no run  *)
(* queue knows is in the wait queue or being woken, and no thread is in    *)
(* two places.                                                             *)
NoLostWakeup ==
  \A t \in Thread :
    /\ Cardinality(Places(t)) <= 1
    /\ Places(t) = {} /\ state[t] # "NEW" => InWaitQueue(t) \/ \E u \in Thread : woken[u] = t

(* preempt_counter of a CPU counts its threads between the acquire_noint   *)
(* and the release_noint of the mutex's spinlock, those asleep in between  *)
(* too: once they are back, the CPU can be preempted again.                *)
Noint(c) == { t \in Thread : Home[t] = c /\ pc[t] \in {"block", "back", "wake"} }
PreemptBalanced == \A c \in Cpu : preempt_counter[c] = Cardinality(Noint(c))

(* Unless a releaser met a waiter still on its CPU: whoever waits for the  *)
(* mutex is known to the one who will release it until it is handed the    *)
(* mutex, the assertions of mutex_release hold, and every CPU gets back    *)
(* the preemption its waiters disabled.                                    *)
WaitersKept == raced \/ (ContestedHasWaiter /\ NoLostWakeup /\ PreemptBalanced)
===========================================================================
