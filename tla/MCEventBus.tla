---------------------------- MODULE MCEventBus -----------------------------
(***************************************************************************)
(* Instances of EventBus for TLC: two events and three slots, so that the  *)
(* ring fills, empties and wraps; counters of five values, so that they    *)
(* wrap too.                                                               *)
(***************************************************************************)
EXTENDS EventBus
=============================================================================
