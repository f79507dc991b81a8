------------------------------- MODULE MCFlasher -------------------------------
(***************************************************************************)
(* Instances of Flasher for TLC: both chips, answers framed on one side or *)
(* on both, one or two answers to a SYNC, with and without a driver that   *)
(* can reset the chip; three images, one of them begun after two others.   *)
(***************************************************************************)
EXTENDS Flasher

MCDevices ==
    [kind : {"esp32s3", "other"}, framed : {FALSE}, echoes : {1, 2}, signals : {TRUE}]
      \cup [kind : {"esp32s3"}, framed : BOOLEAN, echoes : {1}, signals : {FALSE}]

MCFramedDevices == [kind : {"esp32s3"}, framed : {TRUE}, echoes : {1}, signals : {TRUE}]
=============================================================================
