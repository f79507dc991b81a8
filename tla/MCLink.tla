------------------------------- MODULE MCLink -------------------------------
(***************************************************************************)
(* Link for TLC: payloads of none and of two octets, one of them an "S";   *)
(* four frames, so that frames follow the damage for longer than the       *)
(* longest frame; every cut; octets changed into an "S" or a longer        *)
(* length; noise that looks like the start of a frame, too long a one too. *)
(***************************************************************************)
EXTENDS Link

MCPayloads == {<<>>, <<7, S>>}
MCNoises == {<<7>>, <<S>>, <<S, 76>>, Magic \o <<Version, 0, 2>>,
             Magic \o <<Version, 0, 9>>}
MCOctets == {S, 2}
MCChunks == {1, 5, 13}

(* What the proof of DeviceResyncs requires of payloads and noises.        *)
ASSUME MCUnmistakable == Unmistakable
=============================================================================
