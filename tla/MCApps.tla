-------------------------------- MODULE MCApps --------------------------------
(***************************************************************************)
(* The instance of Apps for TLC: a ring of two frames drained two at a     *)
(* time, seven frames; every macro of up to three of the lines below, the  *)
(* last with and without its newline; one target besides the loopback; a   *)
(* game whose numbers are small enough to wrap.                            *)
(***************************************************************************)
EXTENDS Apps

MCLines == {
    <<"STRING", " ", "a", "!", "B", "\n">>,
    <<"STRING", " ", "a", " ", "B", "a", "B", "\n">>,  \* longer than StrCap
    <<"STRING", " ", "\n">>,
    <<"ENTER", "\n">>,
    <<"DELAY", " ", "2", "\n">>,
    <<"\n">>,
    <<"a", "B", "a", "!", "B", "\n">>}                 \* longer than WordCap

MCFullMacros == UNION {[1 .. n -> MCLines] : n \in 0 .. 3}

MCCutLast(m) == [m EXCEPT ![Len(m)] = SubSeq(@, 1, Len(@) - 1)]

MCMacroFiles == MCFullMacros \cup {MCCutLast(m) : m \in {f \in MCFullMacros :
                    f # <<>> /\ Len(f[Len(f)]) > 1}}

MCTicks(digit) == IF digit = "2" THEN 2 ELSE 1
=============================================================================
