------------------------------ MODULE EventBus ------------------------------
(***************************************************************************)
(* The kernel event bus, os/kernel/event_bus.c: a ring of Capacity slots   *)
(* with head and tail indices and an entry count, all plain static         *)
(* variables.                                                              *)
(*                                                                         *)
(* Two contexts use it.  The kernel task posts and pops; each call is      *)
(* split before the store to s_count, whose increment or decrement is a    *)
(* load, an addition and a store.  An interrupt or driver callback posts   *)
(* and runs to completion; if Preempt it may strike while the task is      *)
(* inside a call, otherwise only between the task's calls.                 *)
(*                                                                         *)
(* mk_event_bus_init stores the values static storage starts with, so the  *)
(* lazy initialisation of mk_event_bus_post changes nothing.               *)
(* mk_event_bus_peek changes no state.  Definitions named Bad... are       *)
(* faulty variants of the definition that follows them.                    *)
(***************************************************************************)
EXTENDS Integers, Sequences

CONSTANTS
    Events,      \* the events posted
    Capacity,    \* MK_EVENT_QUEUE_SIZE
    NoEvent,     \* contents of a slot never written
    CounterMod,  \* 2^32: the statistics counters wrap here
    Preempt      \* callbacks interrupt the task inside its calls

ASSUME BusAssumption ==
    /\ Capacity \in Nat \ {0}
    /\ CounterMod \in Nat
    /\ CounterMod > Capacity
    /\ Preempt \in BOOLEAN
    /\ NoEvent \notin Events

VARIABLES
    slots,   \* s_queue
    head,    \* s_head
    tail,    \* s_tail
    count,   \* s_count
    stats,   \* s_stats: events posted, dispatched, refused, current depth
    pc,      \* where the task is: "idle", "posting" or "popping"
    reg,     \* the value of s_count the task has loaded
    out      \* *out_event of the task's latest successful pop
vars == <<slots, head, tail, count, stats, pc, reg, out>>

Slots == 0 .. (Capacity - 1)
Counters == 0 .. (CounterMod - 1)

BusTypeOK ==
    /\ slots \in [Slots -> Events \cup {NoEvent}]
    /\ head \in Slots
    /\ tail \in Slots
    /\ count \in 0 .. Capacity
    /\ stats \in [posted : Counters, dispatched : Counters,
                  refused : Counters, depth : 0 .. Capacity]
    /\ pc \in {"idle", "posting", "popping"}
    /\ reg \in 0 .. Capacity
    /\ out \in Events \cup {NoEvent}
-----------------------------------------------------------------------------
(* mk_event_bus_init.                                                      *)
Init ==
    /\ slots = [i \in Slots |-> NoEvent]
    /\ head = 0
    /\ tail = 0
    /\ count = 0
    /\ stats = [posted |-> 0, dispatched |-> 0, refused |-> 0, depth |-> 0]
    /\ pc = "idle"
    /\ reg = 0
    /\ out = NoEvent

(* (i + 1) % MK_EVENT_QUEUE_SIZE for an index i.                           *)
After(i) == IF i = Capacity - 1 THEN 0 ELSE i + 1

(* uint32 increment of a statistics counter.                               *)
Bump(c) == IF c = CounterMod - 1 THEN 0 ELSE c + 1

(* The early return of mk_event_bus_post: the queue is full.               *)
Refuse ==
    /\ count >= Capacity
    /\ stats' = [stats EXCEPT !.refused = Bump(@)]
    /\ UNCHANGED <<slots, head, tail, count, pc, reg, out>>

(* The copy into the ring and the step of s_head.                          *)
BadEnqueue(e) ==  \* steps s_head first
    /\ head' = After(head)
    /\ slots' = [slots EXCEPT ![head'] = e]

Enqueue(e) ==
    /\ slots' = [slots EXCEPT ![head] = e]
    /\ head' = After(head)

BadTally(n) ==  \* forgets total_events_posted
    [stats EXCEPT !.depth = n]

Tally(n) == [stats EXCEPT !.posted = Bump(@), !.depth = n]

(* mk_event_bus_post by the kernel task, up to the load of s_count ...     *)
TaskPost(e) ==
    /\ pc = "idle"
    /\ count < Capacity
    /\ Enqueue(e)
    /\ pc' = "posting"
    /\ reg' = count
    /\ UNCHANGED <<tail, count, stats, out>>

(* ... and from the store of s_count to the return.                        *)
TaskPosted ==
    /\ pc = "posting"
    /\ count' = reg + 1
    /\ stats' = Tally(reg + 1)
    /\ pc' = "idle"
    /\ UNCHANGED <<slots, head, tail, reg, out>>

TaskRefused == pc = "idle" /\ Refuse

(* mk_event_bus_pop up to the load of s_count ...                          *)
TaskPop ==
    /\ pc = "idle"
    /\ count # 0
    /\ out' = slots[tail]
    /\ tail' = After(tail)
    /\ pc' = "popping"
    /\ reg' = count
    /\ UNCHANGED <<slots, head, count, stats>>

(* ... and from the store of s_count to the return.                        *)
TaskPopped ==
    /\ pc = "popping"
    /\ count' = reg - 1
    /\ stats' = [stats EXCEPT !.dispatched = Bump(@), !.depth = reg - 1]
    /\ pc' = "idle"
    /\ UNCHANGED <<slots, head, tail, reg, out>>

(* mk_event_bus_post by an interrupt handler or driver callback.           *)
IsrPost(e) ==
    /\ Preempt \/ pc = "idle"
    /\ count < Capacity
    /\ Enqueue(e)
    /\ count' = count + 1
    /\ stats' = Tally(count + 1)
    /\ UNCHANGED <<tail, pc, reg, out>>

IsrRefused == (Preempt \/ pc = "idle") /\ Refuse

Next ==
    \/ \E e \in Events : TaskPost(e) \/ IsrPost(e)
    \/ TaskPosted
    \/ TaskRefused
    \/ TaskPop
    \/ TaskPopped
    \/ IsrRefused

Spec == Init /\ [][Next]_vars
-----------------------------------------------------------------------------
(* The number of events in the queue.  A pop removes its event when it     *)
(* steps s_tail, a post adds its event when it stores s_count.             *)
Pending == IF pc = "popping" THEN count - 1 ELSE count

(* The slot of the i-th pending event.                                     *)
Position(i) == IF tail + i <= Capacity THEN tail + i - 1
                                       ELSE tail + i - 1 - Capacity

Contents == [i \in 1 .. Pending |-> slots[Position(i)]]

Fifo == INSTANCE BoundedFifo WITH queue <- Contents

(* The ring buffer implements the bounded FIFO: events leave in order,     *)
(* none twice, none skipped, and only a full queue refuses one.            *)
FifoSpec == Fifo!FifoSpec

(* The telemetry of mk_event_bus_get_stats adds up whenever the task is    *)
(* outside the bus, also after the counters wrap.                          *)
StatsAddUp ==
    pc = "idle" =>
        /\ stats.depth = count
        /\ (stats.posted - stats.dispatched) % CounterMod = count

(* "Safe to call from ISR or driver callback context"                      *)
(* (os/kernel/event_bus.h:30): between the task's calls s_count is the     *)
(* number of slots from s_tail up to s_head.                               *)
CountMatchesRing ==
    pc = "idle" => (head - tail) % Capacity = count % Capacity
=============================================================================
