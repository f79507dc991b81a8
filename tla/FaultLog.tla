------------------------------ MODULE FaultLog ------------------------------
(***************************************************************************)
(* The fault log, os/kernel/fault_manager.c: a ring of the RingSize most   *)
(* recent fault records.  Every other kernel part writes to it, so the     *)
(* modules of those parts extend this one.                                 *)
(*                                                                         *)
(* A record is abstracted to its fault code.  The total count matters only *)
(* through min(total, RingSize), which is what is kept; at 2^32 faults the *)
(* real counter starts again from zero.                                    *)
(***************************************************************************)
EXTENDS Integers, Sequences

CONSTANTS
    RingSize,   \* MK_FAULT_RING_SIZE
    FaultCodes, \* mk_fault_code_t
    NoFault     \* contents of a slot never written

ASSUME FaultLogAssumption == RingSize \in Nat \ {0} /\ NoFault \notin FaultCodes

VARIABLES
    ring,       \* s_fault_ring
    writeIndex, \* s_write_index
    total       \* s_total_faults, at most RingSize
faultVars == <<ring, writeIndex, total>>

RingSlots == 0 .. (RingSize - 1)

FaultTypeOK ==
    /\ ring \in [RingSlots -> FaultCodes \cup {NoFault}]
    /\ writeIndex \in RingSlots
    /\ total \in 0 .. RingSize

(* mk_fault_manager_init.                                                  *)
FaultInit ==
    /\ ring = [i \in RingSlots |-> NoFault]
    /\ writeIndex = 0
    /\ total = 0

BadStep(i) == IF i = RingSize - 1 THEN i ELSE i + 1  \* sticks at the end

(* (i + 1) % MK_FAULT_RING_SIZE.                                           *)
Step(i) == IF i = RingSize - 1 THEN 0 ELSE i + 1

(* mk_fault_record_full.                                                   *)
Record(code) ==
    /\ ring' = [ring EXCEPT ![writeIndex] = code]
    /\ writeIndex' = Step(writeIndex)
    /\ total' = IF total = RingSize THEN total ELSE total + 1

(* mk_fault_get_at for an offset below the number of valid entries.        *)
LastIndex == IF writeIndex = 0 THEN RingSize - 1 ELSE writeIndex - 1

GetAt(offset) ==
    IF offset <= LastIndex THEN ring[LastIndex - offset]
                           ELSE ring[LastIndex + RingSize - offset]

(* What a reader of the log sees, oldest fault first.                      *)
Readable == [i \in 1 .. total |-> GetAt(total - i)]
=============================================================================
