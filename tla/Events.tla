------------------------------- MODULE Events -------------------------------
(* The one-shot timer queue of one CPU: sys/event.c over the local APIC     *)
(* timer of arch/x86_64/event.c.  Times are relative to now: `due` is what   *)
(* is left of a deadline (0 once it has passed), `timer` what is left of    *)
(* the armed count.  The trees of events are abstracted to the sequence     *)
(* that the search for value 0 sees (RbTree shows that they implement it);  *)
(* event_queue runs masked and events_process in the hard part of an        *)
(* interrupt, so neither interrupts the other on its CPU, but time passes.  *)
EXTENDS Integers, FiniteSets, SequencesExt

CONSTANTS Req,          \* dw_function_t/data pairs a caller may queue
          Delay,        \* the delays in use
          TICK,         \* nanoseconds per tick of the lapic timer
          FREQUENCY,    \* lapic_timer_frequency: ticks per TICK * FREQUENCY nanoseconds
          WIDTH,        \* values a uint64_t holds, scaled down
          MAX_TICKS     \* UINT32_MAX, scaled down

ASSUME EventAssumption ==
  /\ Delay \subseteq Nat \ {0} /\ TICK \in Nat \ {0} /\ FREQUENCY \in Nat \ {0}
  /\ WIDTH \in Nat \ {0} /\ MAX_TICKS \in Nat \ {0}

VARIABLES events,       \* sequence of [req, due], by deadline: cpu->events
          free_events,  \* event structs waiting in cpu->free_events
          structs,      \* event structs taken from g_event_cache
          dw_items,     \* requests whose item is in the CPU's deferred work
          timer,        \* what is left of the lapic count; OFF when stopped
          pending,      \* the timer vector is requested, not yet taken
          handling      \* events_process is running

eventVars == <<events, free_events, structs, dw_items, timer, pending, handling>>
OFF == -1
Queued == {events[i].req : i \in DOMAIN events}

EventInit ==
  /\ events = <<>> /\ free_events = 0 /\ structs = 0 /\ dw_items = {}
  /\ timer = OFF /\ pending = FALSE /\ handling = FALSE

----------------------------------------------------------------------------
(* The count the timer is given: the product wraps, the quotient is cut off *)
(* and then clamped, so it may be shorter or longer than the delay.         *)
Ticks(delay) ==
  LET t == ((delay * FREQUENCY) % WIDTH) \div (TICK * FREQUENCY)
  IN IF t < 1 THEN 1 ELSE IF t > MAX_TICKS THEN MAX_TICKS ELSE t

(* Mutant: a delay below one tick starts the timer with 0, which stops it. *)
arm_unclamped(delay) == timer' = IF delay < TICK THEN OFF ELSE Ticks(delay) * TICK

arch_event_timer_arm(delay) == timer' = Ticks(delay) * TICK

(* Mutant: the timer is only started for the first event. *)
event_queue_arms_once(r, delay) ==
  /\ r \notin Queued \union dw_items /\ ~handling
  /\ IF free_events # 0 THEN free_events' = 0 /\ structs' = structs - free_events + 1
     ELSE structs' = structs + 1 /\ UNCHANGED free_events
  /\ IF events = <<>> THEN arch_event_timer_arm(delay) ELSE UNCHANGED timer
  /\ events' = InsertAt(events, Cardinality({i \in DOMAIN events : events[i].due <= delay}) + 1,
                        [req |-> r, due |-> delay])
  /\ UNCHANGED <<dw_items, pending, handling>>

(* event_queue: a spare struct is reused and the other spares are freed, or *)
(* one is allocated; the timer is started again only for an event earlier   *)
(* than all others.                                                         *)
event_queue(r, delay) ==
  /\ r \notin Queued \union dw_items /\ ~handling
  /\ IF free_events # 0 THEN free_events' = 0 /\ structs' = structs - free_events + 1
     ELSE structs' = structs + 1 /\ UNCHANGED free_events
  /\ IF events = <<>> \/ Head(events).due > delay
     THEN arch_event_timer_arm(delay) ELSE UNCHANGED timer
  /\ events' = InsertAt(events, Cardinality({i \in DOMAIN events : events[i].due <= delay}) + 1,
                        [req |-> r, due |-> delay])
  /\ UNCHANGED <<dw_items, pending, handling>>

(* The vector is taken; a second expiry before that is the same request. *)
TakeInterrupt ==
  /\ pending /\ ~handling
  /\ pending' = FALSE /\ handling' = TRUE
  /\ UNCHANGED <<events, free_events, structs, dw_items, timer>>

(* One turn of the loop of events_process: hand over a due event (its       *)
(* struct is kept, the slab must not be entered here), or start the timer   *)
(* for the next one and leave, or leave.                                    *)
events_process ==
  /\ handling
  /\ \/ /\ events # <<>> /\ Head(events).due = 0
        /\ events' = Tail(events)
        /\ dw_items' = dw_items \union {Head(events).req}
        /\ free_events' = free_events + 1
        /\ UNCHANGED <<structs, timer, handling>>
     \/ /\ events # <<>> /\ Head(events).due > 0
        /\ arch_event_timer_arm(Head(events).due)
        /\ handling' = FALSE
        /\ UNCHANGED <<events, free_events, structs, dw_items>>
     \/ /\ events = <<>>
        /\ handling' = FALSE
        /\ UNCHANGED <<events, free_events, structs, dw_items, timer>>
  /\ UNCHANGED pending

(* The deferred work of a request runs and its item is released. *)
WorkDone(r) ==
  /\ r \in dw_items /\ ~handling
  /\ dw_items' = dw_items \ {r}
  /\ UNCHANGED <<events, free_events, structs, timer, pending, handling>>

(* One nanosecond passes, also while events_process runs. *)
Tick ==
  /\ events # <<>> \/ timer # OFF
  /\ events' = [i \in DOMAIN events |-> [events[i] EXCEPT !.due = IF @ = 0 THEN 0 ELSE @ - 1]]
  /\ timer' = IF timer \in {OFF, 1} THEN OFF ELSE timer - 1
  /\ pending' = (pending \/ timer = 1)
  /\ UNCHANGED <<free_events, structs, dw_items, handling>>

EventNext ==
  \/ \E r \in Req, d \in Delay : event_queue(r, d)
  \/ TakeInterrupt \/ events_process
  \/ \E r \in Req : WorkDone(r)
  \/ Tick

(* Time passes, a requested vector is taken once interrupts are unmasked    *)
(* (masked sections end), and the handler runs to its end.                  *)
EventSpec ==
  /\ EventInit /\ [][EventNext]_eventVars
  /\ WF_eventVars(Tick) /\ WF_eventVars(TakeInterrupt) /\ WF_eventVars(events_process)

----------------------------------------------------------------------------
(* Whenever an event waits, something will look at it in time: the handler  *)
(* runs, its vector is requested, or the timer expires no later than the    *)
(* earliest deadline, up to one tick.  A timer that fires early (wrapped,   *)
(* cut off or clamped count) is started again by events_process.            *)
Armed ==
  events # <<>> /\ ~handling /\ ~pending =>
    timer # OFF /\ timer <= Max({Head(events).due, TICK})

(* Every event struct taken from the slab is linked in exactly one of the   *)
(* two trees: the structs that the interrupt could not free are reused or   *)
(* freed by the next event_queue.                                           *)
StructsKept == structs = Len(events) + free_events /\ Queued \intersect dw_items = {}

(* An event that waits has a timer that wakes the CPU for it, and its      *)
(* struct is kept: none of the paths of event_queue and events_process     *)
(* drops either.                                                           *)
EventsKept == Armed /\ StructsKept

(* An event handed to event_queue reaches the CPU's deferred work, however  *)
(* later and earlier events are queued around it.                           *)
EventDelivered == \A r \in Req : (r \in Queued) ~> (r \in dw_items)
============================================================================
