---------------------------- MODULE BoundedFifo ----------------------------
(***************************************************************************)
(* What os/kernel/event_bus.h promises: a queue of at most Capacity events *)
(* from which events leave in the order they entered, each exactly once,   *)
(* and which refuses an event only when it is full.                        *)
(***************************************************************************)
EXTENDS Naturals, Sequences

CONSTANTS
    Events,     \* what can be posted
    Capacity,   \* MK_EVENT_QUEUE_SIZE
    NoEvent     \* the consumer has not received anything yet

VARIABLES
    queue,      \* the events posted and not yet popped, oldest first
    out         \* the event most recently handed to the consumer
fifo == <<queue, out>>

FifoInit == queue = <<>> /\ out = NoEvent

Put(e) ==
    /\ Len(queue) < Capacity
    /\ queue' = Append(queue, e)
    /\ out' = out

Take ==
    /\ queue # <<>>
    /\ out' = Head(queue)
    /\ queue' = Tail(queue)

FifoNext == Take \/ \E e \in Events : Put(e)

FifoSpec == FifoInit /\ [][FifoNext]_fifo
=============================================================================
