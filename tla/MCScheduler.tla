---------------------------- MODULE MCScheduler ----------------------------
(***************************************************************************)
(* Instances of Scheduler for TLC.  Three slots and a tick of five values, *)
(* so that the counter wraps while tasks of period 1 and 2 sleep; a task   *)
(* of period 0; two priorities, one of them asked for out of range.        *)
(***************************************************************************)
EXTENDS Scheduler

MCPriorities == {0, 7}
MCPeriods == {0, 1, 2}
MCSettable == {"BLOCKED"}
=============================================================================
