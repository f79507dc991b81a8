------------------------------ MODULE MCMemory ------------------------------
(***************************************************************************)
(* Memory for TLC: an arena of ten units with headers of two, room for up  *)
(* to three blocks, so that splits, refusals to split, coalescing on       *)
(* either and on both sides and exhaustion all happen; two pool classes,   *)
(* one of two blocks and one of a single block; a log of two entries.      *)
(***************************************************************************)
EXTENDS Memory, TLC

MCRequests == {1, 2, 4}
MCClasses == {0, 1}
MCBlockSize == (0 :> 16) @@ (1 :> 32)
MCBlockCount == (0 :> 2) @@ (1 :> 1)
MCPoolRequests == {12, 16, 28}
=============================================================================
