----------------------------- MODULE MCSession -----------------------------
(***************************************************************************)
(* Session for TLC: the default application and another one, two calls at  *)
(* a time, so that a disconnect or a second connect overtakes a connect;   *)
(* buffers of two frames, which the answers to CONNECT fill; four acts, as *)
(* in connect, launch, unplug, connect.                                    *)
(***************************************************************************)
EXTENDS Session
=============================================================================
