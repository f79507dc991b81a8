------------------------------- MODULE WifiRing -------------------------------
(***************************************************************************)
(* The passive Wi-Fi monitor: the ring of os/hal/hal_wifi.c, filled by the *)
(* receive callback of the Wi-Fi driver, and the cooperative task of       *)
(* os/apps/wifi_diagnostics/wifi_diagnostics.c that drains it, at most     *)
(* Batch frames a slice.                                                   *)
(*                                                                         *)
(* On the device the callback runs in a task of higher priority: it may    *)
(* preempt the draining task anywhere, and is never preempted by it.  On   *)
(* the host build frames are injected between two slices, and some made up *)
(* when the ring is empty.  preempts says which build it is.  A pop loads  *)
(* s_count and stores it back one smaller; where in between the compiler   *)
(* loads it is open, the action Pop takes the earliest place.  Frames are  *)
(* numbered as they are captured; what the statistics say of them, the     *)
(* clock (an input of SliceEnds) and the line appended to wifi_audit.log   *)
(* are left out.                                                           *)
(* Definitions named Bad... are faulty variants of the one that follows.   *)
(***************************************************************************)
EXTENDS Integers

CONSTANTS
    RingSize,  \* HAL_WIFI_QUEUE_CAPACITY
    Batch,     \* frames drained in one slice
    Channels,  \* the channels hopped over
    MaxFrames  \* bound: frames captured or dropped

ASSUME WifiAssumption ==
    /\ RingSize \in Nat \ {0} /\ Batch \in Nat \ {0} /\ Channels \in Nat \ {0}
    /\ MaxFrames \in Nat

VARIABLES
    preempts,   \* the callback may interrupt a pop
    monitoring, \* s_active of the application
    receiving,  \* s_promiscuous_active
    channel,    \* s_current_channel, and active_channel of the statistics
    ring,       \* s_queue
    head, tail, count,  \* s_head, s_tail, s_count
    dropped, captured,  \* s_dropped, s_captured
    analyzed,   \* total_frames_analyzed
    slice,      \* where the task is: "out", "loop" or inside "pop"
    drained,    \* processed
    loaded,     \* the value of s_count that a pop works with
    hit         \* history: a frame was queued inside a pop
wifiVars == <<preempts, monitoring, receiving, channel, ring, head, tail, count,
              dropped, captured, analyzed, slice, drained, loaded, hit>>

WifiInit ==
    /\ preempts \in BOOLEAN
    /\ monitoring = FALSE /\ receiving = FALSE
    /\ channel = 1
    /\ ring = [i \in 0 .. (RingSize - 1) |-> 0]
    /\ head = 0 /\ tail = 0 /\ count = 0
    /\ dropped = 0 /\ captured = 0 /\ analyzed = 0
    /\ slice = "out" /\ drained = 0 /\ loaded = 0
    /\ hit = FALSE

NextSlot(i) == (i + 1) % RingSize
-----------------------------------------------------------------------------
BadRingFull == count > RingSize  \* one entry too many

RingFull == count >= RingSize

(* wifi_promiscuous_rx_cb, and hal_wifi_inject_frame_for_test: a full ring *)
(* drops the frame that arrives.                                           *)
FrameDropped ==
    /\ RingFull
    /\ dropped' = dropped + 1
    /\ UNCHANGED <<ring, head, count, captured, hit>>

FrameQueued ==
    /\ ~RingFull
    /\ ring' = [ring EXCEPT ![head] = captured + 1]
    /\ head' = NextSlot(head)
    /\ count' = count + 1
    /\ captured' = captured + 1
    /\ hit' = (hit \/ slice = "pop")
    /\ UNCHANGED dropped

Receive ==
    /\ receiving
    /\ slice = "out" \/ preempts
    /\ captured + dropped < MaxFrames
    /\ FrameDropped \/ FrameQueued
    /\ UNCHANGED <<preempts, monitoring, receiving, channel, tail, analyzed, slice,
                   drained, loaded>>
-----------------------------------------------------------------------------
(* wifi_diagnostics_start; the driver may refuse.                          *)
StartMonitor ==
    /\ slice = "out"
    /\ monitoring' = TRUE
    /\ receiving' \in {TRUE, receiving}
    /\ UNCHANGED <<preempts, channel, ring, head, tail, count, dropped, captured,
                   analyzed, slice, drained, loaded, hit>>

(* wifi_diagnostics_stop: the frames in the ring stay there.               *)
StopMonitor ==
    /\ slice = "out"
    /\ monitoring' = FALSE
    /\ receiving' = FALSE
    /\ UNCHANGED <<preempts, channel, ring, head, tail, count, dropped, captured,
                   analyzed, slice, drained, loaded, hit>>

(* wifi_diagnostics_task.                                                  *)
SliceBegins ==
    /\ slice = "out" /\ monitoring
    /\ slice' = "loop"
    /\ drained' = 0
    /\ UNCHANGED <<preempts, monitoring, receiving, channel, ring, head, tail, count,
                   dropped, captured, analyzed, loaded, hit>>

(* hal_wifi_queue_pop up to and with the load of s_count.                  *)
Pop ==
    /\ slice = "loop" /\ drained < Batch /\ count # 0
    /\ tail' = NextSlot(tail)
    /\ loaded' = count
    /\ slice' = "pop"
    /\ UNCHANGED <<preempts, monitoring, receiving, channel, ring, head, count, dropped,
                   captured, analyzed, drained, hit>>

(* The store of s_count, and the statistics of the frame.                  *)
Popped ==
    /\ slice = "pop"
    /\ count' = loaded - 1
    /\ loaded' = 0
    /\ analyzed' = analyzed + 1
    /\ drained' = drained + 1
    /\ slice' = "loop"
    /\ UNCHANGED <<preempts, monitoring, receiving, channel, ring, head, tail, dropped,
                   captured, hit>>

(* On the host build, every fifth pop of an empty ring makes up a frame.   *)
MakeUp ==
    /\ slice = "loop" /\ drained < Batch /\ count = 0
    /\ ~preempts
    /\ captured + dropped < MaxFrames
    /\ captured' = captured + 1
    /\ analyzed' = analyzed + 1
    /\ drained' = drained + 1
    /\ UNCHANGED <<preempts, monitoring, receiving, channel, ring, head, tail, count,
                   dropped, slice, loaded, hit>>

(* The end of the slice: the channel hops when it is time.                 *)
SliceEnds ==
    /\ slice = "loop" /\ (drained = Batch \/ count = 0)
    /\ channel' \in {channel, (channel % Channels) + 1}
    /\ slice' = "out"
    /\ drained' = 0
    /\ UNCHANGED <<preempts, monitoring, receiving, ring, head, tail, count, dropped,
                   captured, analyzed, loaded, hit>>

WifiNext ==
    \/ Receive \/ StartMonitor \/ StopMonitor
    \/ SliceBegins \/ Pop \/ Popped \/ MakeUp \/ SliceEnds
-----------------------------------------------------------------------------
(* The frames in the ring, but for the one a pop in progress has taken.    *)
Waiting == IF slice = "pop" THEN count - 1 ELSE count

(* However the callback and the task interleave, the page is never shown   *)
(* more frames than were captured, and as long as no frame arrived inside  *)
(* a pop, every frame captured has been analysed or is in the ring, in the *)
(* order of arrival, so that a full ring costs only the frames that are    *)
(* counted as dropped (wifi_promiscuous_rx_cb against hal_wifi_queue_pop). *)
RingFaithful ==
    LET taken == analyzed + (IF slice = "pop" THEN 1 ELSE 0)
    IN  /\ taken + Waiting <= captured
        /\ ~hit =>
             /\ taken + Waiting = captured
             /\ \A k \in 0 .. (Waiting - 1) :
                   ring[(tail + k) % RingSize] = taken + 1 + k
=============================================================================
