--------------------------------- MODULE Apps ---------------------------------
(***************************************************************************)
(* The applications that main.c registers as tasks.  They share no state   *)
(* with one another but the file system (Vfs.tla) and are never inside a   *)
(* call at the same time, so that what one of them does is the same        *)
(* whatever the others do: a behaviour follows the application subject,    *)
(* and the others stand still.                                             *)
(***************************************************************************)
EXTENDS WifiRing, MacroPlayer, NetScan, Lander

VARIABLE subject  \* the application that the behaviour is about
appVars == <<subject, wifiVars, macroVars, scanVars, landerVars>>

Init ==
    /\ subject \in {"wifi", "macro", "scan", "lander"}
    /\ WifiInit /\ MacroInit /\ ScanInit /\ LanderInit
    /\ subject # "macro" => macro = CHOOSE m \in MacroFiles : TRUE
    /\ subject # "wifi" => ~preempts

Next ==
    \/ subject = "wifi" /\ WifiNext /\ UNCHANGED <<subject, macroVars, scanVars, landerVars>>
    \/ subject = "macro" /\ MacroNext /\ UNCHANGED <<subject, wifiVars, scanVars, landerVars>>
    \/ subject = "scan" /\ ScanNext /\ UNCHANGED <<subject, wifiVars, macroVars, landerVars>>
    \/ subject = "lander" /\ LanderNext /\ UNCHANGED <<subject, wifiVars, macroVars, scanVars>>

(* The scheduler runs a registered task again and again (StarvationFree in *)
(* Scheduler.tla); the macro player is one.                                *)
Fairness ==
    WF_appVars(subject = "macro" /\ PlayerTask
                 /\ UNCHANGED <<subject, wifiVars, scanVars, landerVars>>)

Spec == Init /\ [][Next]_appVars /\ Fairness
=============================================================================
