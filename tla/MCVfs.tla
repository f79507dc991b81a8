------------------------------- MODULE MCVfs -------------------------------
(***************************************************************************)
(* Instances of Vfs for TLC: the two default files and one more, as many   *)
(* inodes as files, two descriptors, sectors that two writes fill.         *)
(***************************************************************************)
EXTENDS Vfs
=============================================================================
