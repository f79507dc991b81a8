---------------------------- MODULE RecentFaults ----------------------------
(***************************************************************************)
(* What the fault log promises its readers: the RingSize most recent       *)
(* faults, in the order they were recorded.                                *)
(***************************************************************************)
EXTENDS Naturals, Sequences

CONSTANTS RingSize, FaultCodes

VARIABLE log

Newest(s) == IF Len(s) <= RingSize THEN s ELSE Tail(s)

LogInit == log = <<>>

LogNext == \E code \in FaultCodes : log' = Newest(Append(log, code))

LogSpec == LogInit /\ [][LogNext]_log
=============================================================================
