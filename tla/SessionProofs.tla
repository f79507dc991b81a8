--------------------------- MODULE SessionProofs ---------------------------
(***************************************************************************)
(* The executive under the host's commands, for every set of applications, *)
(* buffer size and number of calls: its types, a boot without refused      *)
(* transitions, and applications that stay in usable states.               *)
(***************************************************************************)
EXTENDS Session, TLAPS

(* What app_main has done when the given stage comes next.                 *)
Progress ==
    /\ stage = "kernel_boot" => kernel = "RESET"
    /\ stage \in {"fault_init", "kernel_init", "service_init",
                  "register_apps", "apps_ready", "kernel_ready"} => kernel = "INIT"
    /\ stage = "apps_ready" => \A a \in Apps : app[a] = "INIT"
    /\ stage \in {"kernel_ready", "kernel_run"} => \A a \in Apps : app[a] = "READY"
    /\ stage = "kernel_run" => kernel = "READY"
    /\ stage = "loop" => kernel = "RUNNING"

InLoop ==
    stage = "loop" =>
        /\ \A a \in Apps : app[a] \in {"READY", "ACTIVE"}
        /\ app[activeApp] = "ACTIVE" \/ activeApp = Default

BootDefault == stage # "loop" => activeApp = Default

ExecInv == ExecTypeOK /\ Progress /\ InLoop /\ BootDefault /\ BootFaultless

(* The invariant holds when the device gets power.                         *)
LEMMA PoweredUpInv == PoweredUp => ExecInv
  BY DefaultIsApp
  DEF PoweredUp, ExecInv, ExecTypeOK, Progress, InLoop, BootDefault,
      BootFaultless, AllOff, KernelStates, AppStates, Stages

(* The transitions that the boot sequence and the commands ask for.        *)
LEMMA LegalMoves ==
    /\ <<"RESET", "INIT">> \in KernelMoves
    /\ <<"INIT", "READY">> \in KernelMoves
    /\ <<"READY", "RUNNING">> \in KernelMoves
    /\ <<"OFF", "INIT">> \in AppMoves
    /\ <<"INIT", "READY">> \in AppMoves
    /\ <<"READY", "ACTIVE">> \in AppMoves
    /\ <<"ACTIVE", "READY">> \notin AppMoves
    /\ <<"READY", "READY">> \notin AppMoves
  BY DEF KernelMoves, AppMoves

(* Every step of the boot sequence, every launch and exit and every reset  *)
(* keeps the invariant.                                                    *)
LEMMA ExecStep == ExecInv /\ [ExecNext]_execVars => ExecInv'
<1> SUFFICES ASSUME ExecInv, [ExecNext]_execVars PROVE ExecInv'
  OBVIOUS
<1> USE DEF ExecInv, ExecTypeOK, Progress, InLoop, BootDefault, BootFaultless
<1>1. CASE KernelBoot
  BY <1>1, LegalMoves, DefaultIsApp DEF KernelBoot, AtStage, KernelTo, KernelStates, Stages
<1>2. CASE FaultManagerInit
  BY <1>2 DEF FaultManagerInit, AtStage, Stages
<1>3. CASE KernelInit
  BY <1>3 DEF KernelInit, AtStage, AllOff, AppStates, Stages
<1>4. CASE ServiceInit
  BY <1>4 DEF ServiceInit, AtStage, Stages
<1>5. CASE RegisterApps
  BY <1>5, LegalMoves DEF RegisterApps, AtStage, AppsTo, AllOff, AppStates, Stages
<1>6. CASE AppsReady
  BY <1>6, LegalMoves DEF AppsReady, AtStage, AppsTo, AppStates, Stages
<1>7. CASE KernelReady
  BY <1>7, LegalMoves DEF KernelReady, AtStage, KernelTo, KernelStates, Stages
<1>8. CASE KernelRun
  BY <1>8, LegalMoves DEF KernelRun, AtStage, KernelTo, KernelStates, Stages
<1>9. ASSUME NEW a \in Apps, HandleLaunch(a) PROVE ExecInv'
  BY <1>9, LegalMoves DEF HandleLaunch, Looping, AppsTo, AppStates
<1>10. ASSUME NEW a \in Apps, HandleExit(a) PROVE ExecInv'
  BY <1>10, LegalMoves DEF HandleExit, Looping, AppsTo, AppStates
<1>11. CASE Reset
  BY <1>11, DefaultIsApp DEF Reset, AllOff, KernelStates, AppStates, Stages
<1>12. CASE UNCHANGED execVars
  BY <1>12 DEF execVars
<1> QED
  BY <1>1, <1>2, <1>3, <1>4, <1>5, <1>6, <1>7, <1>8, <1>9, <1>10, <1>11, <1>12
  DEF ExecNext, BootStep

(* Whatever the host asks for and whenever the device restarts, the        *)
(* executive alone keeps its types and the three properties.               *)
THEOREM ExecutiveSound ==
    ExecSpec => [](ExecTypeOK /\ BootFaultless /\ AppsServe /\ LaunchedIsActive)
<1>1. ExecInv => ExecTypeOK /\ BootFaultless /\ AppsServe /\ LaunchedIsActive
  BY DEF ExecInv, InLoop, AppsServe, LaunchedIsActive, Looping
<1> QED
  BY <1>1, PoweredUpInv, ExecStep, PTL DEF ExecSpec
-----------------------------------------------------------------------------
(* A handled command is a step of the executive or leaves it alone.        *)
LEMMA HandleStep ==
    ASSUME NEW command, Handle(command) PROVE [ExecNext]_execVars
<1>1. CASE \E a \in Apps : HandleLaunch(a) \/ HandleExit(a)
  BY <1>1 DEF ExecNext
<1>2. CASE UNCHANGED execVars
  BY <1>2
<1> QED
  BY <1>1, <1>2 DEF Handle, execVars

(* Every step of the session is a step of the executive or leaves it alone.*)
LEMMA SessionStep == [Next]_vars => [ExecNext]_execVars
<1> SUFFICES ASSUME [Next]_vars PROVE [ExecNext]_execVars
  OBVIOUS
<1>1. CASE DeviceBoots
  BY <1>1 DEF DeviceBoots, ExecNext
<1>2. CASE DeviceHandles
  <2>1. CASE Restart
    BY <2>1 DEF Restart, ExecNext
  <2>2. CASE Handle(Head(toDevice))
    BY <2>2, HandleStep
  <2> QED
    BY <1>2, <2>1, <2>2 DEF DeviceHandles
<1>3. CASE Unplug \/ Crash
  BY <1>3 DEF Unplug, Crash, Restart, ExecNext
<1>4. CASE Telemetry \/ Deliver \/ Poll \/ Replug
  BY <1>4 DEF Telemetry, Deliver, Poll, Replug, deviceVars, execVars
<1>5. ASSUME NEW command \in Commands, UserCommand(command) PROVE UNCHANGED execVars
  BY <1>5 DEF UserCommand, deviceVars, execVars
<1>6. ASSUME NEW n \in Calls,
             CallStep(n) \/ PickerStep(n) \/ LossSeen(n)
             \/ PressConnect(n) \/ PressDisconnect(n)
      PROVE  UNCHANGED execVars
  BY <1>6
  DEF CallStep, PickerStep, LossSeen, PressConnect, PressDisconnect, deviceVars, execVars
<1>7. CASE UNCHANGED vars
  BY <1>7 DEF vars, deviceVars, execVars
<1> QED
  BY <1>1, <1>2, <1>3, <1>4, <1>5, <1>6, <1>7 DEF Next

(* The session drives the executive only through its own transitions.      *)
THEOREM SessionImplementsExecutive == Spec => ExecSpec
<1>1. Init => PoweredUp
  BY DEF Init
<1> QED
  BY <1>1, SessionStep, PTL DEF Spec, ExecSpec

(* Boot asks for no transition that is refused, whatever happens on the    *)
(* cable and in the page.                                                  *)
THEOREM BootFaultlessHolds == Spec => []BootFaultless
  BY ExecutiveSound, SessionImplementsExecutive, PTL

(* Every application stays usable under all commands and restarts.         *)
THEOREM AppsServeHolds == Spec => []AppsServe
  BY ExecutiveSound, SessionImplementsExecutive, PTL

(* The active application reported to the page is ACTIVE or the default.   *)
THEOREM LaunchedIsActiveHolds == Spec => []LaunchedIsActive
  BY ExecutiveSound, SessionImplementsExecutive, PTL
-----------------------------------------------------------------------------
(* The page's connection.                                                  *)

Client == [isConnected : BOOLEAN, isConnecting : BOOLEAN, deviceInfo : BOOLEAN,
           reader : BOOLEAN, writer : BOOLEAN, port : BOOLEAN]

Points == {"idle"} \cup ConnectPoints \cup DisconnectPoints

(* The points of a connect whose port has been opened.                     *)
Attached == {"greeting", "waiting", "asking", "pausing"}

PageTypeOK ==
    /\ client \in Client
    /\ pc \in [Calls -> Points]
    /\ port \in {"closed", "open"}
    /\ plugged \in BOOLEAN /\ lost \in BOOLEAN /\ locked \in BOOLEAN
    /\ looping \in BOOLEAN /\ raced \in BOOLEAN

Usable ==
    /\ port = "open" /\ locked = TRUE /\ looping = TRUE
    /\ client.writer = TRUE /\ client.reader = TRUE /\ client.port = TRUE

(* Unless a disconnect overtook it, a connect is alone and has not set     *)
(* isConnected; a disconnect has cleared it; and from the port's opening   *)
(* on nothing but the loss of the port takes away what reading and writing *)
(* need.                                                                   *)
Alone ==
    \A n \in Calls : pc[n] \in ConnectPoints =>
        /\ client.isConnected = FALSE
        /\ \A m \in Calls \ {n} : pc[m] = "idle"

HungUp == \A n \in Calls : pc[n] \in DisconnectPoints => client.isConnected = FALSE

Backed ==
    client.isConnected = TRUE \/ (\E n \in Calls : pc[n] \in Attached)
        => lost = TRUE \/ Usable

CallInv ==
    /\ PageTypeOK
    /\ lost = TRUE => plugged = FALSE
    /\ raced = FALSE => Alone /\ HungUp /\ Backed

(* Call n does no more than part of a disconnect.                          *)
Leaves(n) ==
    /\ client' \in Client
    /\ client'.isConnected = FALSE
    /\ \E p \in {"idle"} \cup DisconnectPoints : pc' = [pc EXCEPT ![n] = p]

LEMMA ToPortLeaves ==
    ASSUME NEW n \in Calls, NEW c \in Client, c.isConnected = FALSE, ToPort(n, c)
    PROVE  Leaves(n)
  BY DEF ToPort, Leaves, DisconnectPoints

LEMMA ToWriterLeaves ==
    ASSUME NEW n \in Calls, NEW c \in Client, c.isConnected = FALSE, ToWriter(n, c)
    PROVE  Leaves(n)
<1>1. CASE ToPort(n, c)
  BY <1>1, ToPortLeaves
<1>2. CASE client' = c /\ pc' = [pc EXCEPT ![n] = "closing"]
  BY <1>2 DEF Leaves, DisconnectPoints
<1> QED
  BY <1>1, <1>2 DEF ToWriter

LEMMA ClearedType ==
    ASSUME NEW c \in Client
    PROVE  Cleared(c) \in Client /\ Cleared(c).isConnected = FALSE
  BY DEF Cleared, Client

LEMMA DisconnectLeaves ==
    ASSUME PageTypeOK, NEW n \in Calls, NEW c \in Client, Disconnect(n, c)
    PROVE  /\ Leaves(n)
           /\ locked' \in BOOLEAN /\ looping' \in BOOLEAN /\ raced' \in BOOLEAN
           /\ raced' = FALSE => raced = FALSE /\ ~Connecting(n)
<1>1. raced' = (raced \/ Connecting(n))
  BY DEF Disconnect
<1>2. raced' \in BOOLEAN /\ (raced' = FALSE => raced = FALSE /\ ~Connecting(n))
  BY <1>1 DEF PageTypeOK
<1>3. CASE ToWriter(n, Cleared(c)) /\ UNCHANGED <<looping, locked>>
  BY <1>2, <1>3, ClearedType, ToWriterLeaves DEF PageTypeOK
<1>4. CASE \E again \in BOOLEAN :
               /\ looping' = again /\ locked' = again
               /\ client' = [Cleared(c) EXCEPT !.reader = again]
               /\ pc' = [pc EXCEPT ![n] = "cancelling"]
  <2>1. PICK again \in BOOLEAN :
               /\ looping' = again /\ locked' = again
               /\ client' = [Cleared(c) EXCEPT !.reader = again]
               /\ pc' = [pc EXCEPT ![n] = "cancelling"]
    BY <1>4
  <2>2. client' \in Client /\ client'.isConnected = FALSE
    BY <2>1, ClearedType DEF Client
  <2> QED
    BY <1>2, <2>1, <2>2 DEF Leaves, DisconnectPoints
<1> QED
  BY <1>3, <1>4 DEF Disconnect

(* A disconnect that no connect waits beside leaves a page that does not   *)
(* say CONNECTED and no connect at all.                                    *)
LEMMA LeavesKeeps ==
    ASSUME CallInv, NEW n \in Calls, Leaves(n),
           locked' \in BOOLEAN, looping' \in BOOLEAN, raced' \in BOOLEAN,
           port' \in {"closed", "open"}, plugged' = plugged, lost' \in {FALSE, lost},
           raced' = FALSE => raced = FALSE /\ ~Connecting(n)
    PROVE  CallInv'
<1>1. PICK p \in {"idle"} \cup DisconnectPoints : pc' = [pc EXCEPT ![n] = p]
  BY DEF Leaves
<1>2. PageTypeOK'
  BY <1>1 DEF CallInv, PageTypeOK, Leaves, Points
<1>3. lost' = TRUE => plugged' = FALSE
  BY DEF CallInv
<1>4. ASSUME raced' = FALSE
      PROVE  \A m \in Calls : pc'[m] \notin ConnectPoints
  <2>1. \A m \in Calls \ {n} : pc[m] \notin ConnectPoints
    BY <1>4 DEF Connecting
  <2>2. p \notin ConnectPoints
    BY DEF ConnectPoints, DisconnectPoints
  <2> QED
    BY <1>1, <2>1, <2>2 DEF CallInv, PageTypeOK
<1>5. client'.isConnected = FALSE
  BY DEF Leaves
<1>6. Attached \subseteq ConnectPoints
  BY DEF Attached, ConnectPoints
<1> QED
  BY <1>2, <1>3, <1>4, <1>5, <1>6 DEF CallInv, Alone, HungUp, Backed
-----------------------------------------------------------------------------
(* What a waiting call does.                                               *)

LEMMA InitCallInv == Init => CallInv
<1> SUFFICES ASSUME Init PROVE CallInv
  OBVIOUS
<1>1. PageTypeOK
  BY DEF Init, PageTypeOK, Client, Points
<1>2. client.isConnected = FALSE /\ lost = FALSE /\ \A n \in Calls : pc[n] = "idle"
  BY DEF Init
<1> QED
  BY <1>1, <1>2 DEF CallInv, Alone, HungUp, Backed, ConnectPoints, DisconnectPoints, Attached

LEMMA FailKeeps ==
    ASSUME CallInv, NEW n \in Calls, Fail(n), UNCHANGED <<plugged, lost>>
    PROVE  CallInv'
<1>1. [client EXCEPT !.isConnecting = FALSE] \in Client
  BY DEF CallInv, PageTypeOK, Client
<1>2. PageTypeOK /\ Disconnect(n, [client EXCEPT !.isConnecting = FALSE]) /\ port' = port
  BY DEF CallInv, Fail
<1> QED
  BY <1>1, <1>2, DisconnectLeaves, LeavesKeeps DEF PageTypeOK

(* A connect goes on to a later point without touching the connection.     *)
LEMMA GotoKeeps ==
    ASSUME CallInv, NEW n \in Calls, NEW q \in Attached, pc[n] \in Attached, Goto(n, q),
           UNCHANGED <<client, port, locked, looping, raced, plugged, lost>>
    PROVE  CallInv'
<1>1. Attached \subseteq ConnectPoints /\ Attached \subseteq Points /\ q \notin DisconnectPoints
  BY DEF Attached, ConnectPoints, DisconnectPoints, Points
<1>2. pc' = [pc EXCEPT ![n] = q] /\ pc \in [Calls -> Points]
  BY DEF Goto, CallInv, PageTypeOK
<1>3. pc'[n] = q /\ \A m \in Calls \ {n} : pc'[m] = pc[m]
  BY <1>2
<1>4. PageTypeOK'
  BY <1>1, <1>2 DEF CallInv, PageTypeOK
<1>5. ASSUME raced = FALSE PROVE Alone' /\ HungUp' /\ Backed'
  <2>1. /\ client.isConnected = FALSE
        /\ lost = TRUE \/ Usable
        /\ \A m \in Calls \ {n} : pc[m] = "idle"
    BY <1>1, <1>5 DEF CallInv, Alone, Backed
  <2>2. (lost' = TRUE \/ Usable') /\ client'.isConnected = FALSE
    BY <2>1 DEF Usable
  <2>3. \A m \in Calls \ {n} : pc'[m] = "idle"
    BY <1>3, <2>1
  <2>4. "idle" \notin ConnectPoints
    BY DEF ConnectPoints
  <2>5. Alone'
    BY <2>2, <2>3, <2>4 DEF Alone
  <2>6. HungUp' /\ Backed'
    BY <2>2 DEF HungUp, Backed
  <2> QED
    BY <2>5, <2>6
<1> QED
  BY <1>4, <1>5 DEF CallInv

LEMMA WrittenKeeps ==
    ASSUME CallInv, NEW n \in Calls, NEW command, NEW q \in Attached, pc[n] \in Attached,
           Written(n, command, q), UNCHANGED <<plugged, lost>>
    PROVE  CallInv'
<1>1. CASE Fail(n)
  BY <1>1, FailKeeps
<1>2. CASE Goto(n, q) /\ UNCHANGED <<client, port, locked, looping, raced>>
  BY <1>2, GotoKeeps
<1> QED
  BY <1>1, <1>2 DEF Written

LEMMA EstablishedKeeps ==
    ASSUME CallInv, NEW n \in Calls, pc[n] \in Attached, Established(n),
           UNCHANGED <<plugged, lost>>
    PROVE  CallInv'
<1>1. /\ client' = [client EXCEPT !.isConnected = TRUE, !.isConnecting = FALSE]
      /\ pc' = [pc EXCEPT ![n] = "idle"]
      /\ UNCHANGED <<port, locked, looping, raced>>
  BY DEF Established, Goto
<1>2. client \in Client /\ pc \in [Calls -> Points]
  BY DEF CallInv, PageTypeOK
<1>3. /\ client' \in Client /\ client'.writer = client.writer
      /\ client'.reader = client.reader /\ client'.port = client.port
  BY <1>1, <1>2 DEF Client
<1>4. PageTypeOK'
  BY <1>1, <1>2, <1>3 DEF CallInv, PageTypeOK, Points
<1>5. ASSUME raced = FALSE PROVE Alone' /\ HungUp' /\ Backed'
  <2>1. /\ lost = TRUE \/ Usable
        /\ \A m \in Calls \ {n} : pc[m] = "idle"
    BY <1>5 DEF CallInv, Alone, Backed, Attached, ConnectPoints
  <2>2. lost' = TRUE \/ Usable'
    BY <1>1, <1>3, <2>1 DEF Usable
  <2>3. \A m \in Calls : pc'[m] = "idle"
    BY <1>1, <1>2, <2>1
  <2> QED
    BY <2>2, <2>3 DEF Alone, HungUp, Backed, ConnectPoints, DisconnectPoints
<1> QED
  BY <1>1, <1>4, <1>5 DEF CallInv

LEMMA OpenedKeeps ==
    ASSUME CallInv, NEW n \in Calls, Opened(n), UNCHANGED <<plugged, lost>>
    PROVE  CallInv'
<1>1. CASE Fail(n)
  BY <1>1, FailKeeps
<1>2. CASE /\ client.port /\ port' = "open" /\ locked' = TRUE /\ looping' = TRUE
           /\ client' = [client EXCEPT !.writer = TRUE, !.reader = TRUE]
           /\ Goto(n, "greeting")
           /\ UNCHANGED raced
  <2>1. client \in Client /\ pc \in [Calls -> Points] /\ client.port = TRUE
    BY <1>2 DEF CallInv, PageTypeOK, Client
  <2>2. /\ client' \in Client /\ client'.writer = TRUE /\ client'.reader = TRUE
        /\ client'.port = TRUE /\ client'.isConnected = client.isConnected
    BY <1>2, <2>1 DEF Client
  <2>3. pc'[n] = "greeting" /\ \A m \in Calls \ {n} : pc'[m] = pc[m]
    BY <1>2, <2>1 DEF Goto
  <2>4. PageTypeOK'
    BY <1>2, <2>1, <2>2 DEF CallInv, PageTypeOK, Goto, Points, ConnectPoints
  <2>5. Usable'
    BY <1>2, <2>2 DEF Usable
  <2>6. ASSUME raced = FALSE PROVE Alone' /\ HungUp' /\ Backed'
    <3>1. /\ client.isConnected = FALSE
          /\ \A m \in Calls \ {n} : pc[m] = "idle"
      BY <2>6 DEF Opened, CallInv, Alone, ConnectPoints
    <3> QED
      BY <2>2, <2>3, <2>5, <3>1 DEF Alone, HungUp, Backed, ConnectPoints, DisconnectPoints
  <2> QED
    BY <1>2, <2>4, <2>6 DEF CallInv
<1> QED
  BY <1>1, <1>2 DEF Opened

(* The later parts of a disconnect.                                        *)
LEMMA LeavingKeeps ==
    ASSUME CallInv, NEW n \in Calls, Cancelled(n) \/ WriterClosed(n) \/ PortClosed(n),
           UNCHANGED <<plugged, lost>>
    PROVE  CallInv'
<1>1. pc[n] \in DisconnectPoints
  BY DEF Cancelled, WriterClosed, PortClosed, DisconnectPoints
<1>2. client \in Client /\ raced' = raced /\ UNCHANGED <<locked, looping>>
      /\ port' \in {"closed", "open"} /\ raced \in BOOLEAN
      /\ locked \in BOOLEAN /\ looping \in BOOLEAN
  BY DEF CallInv, PageTypeOK, Cancelled, WriterClosed, PortClosed
<1>3. CASE raced = FALSE
  <2>1. client.isConnected = FALSE
    BY <1>1, <1>3 DEF CallInv, HungUp
  <2>2. ~Connecting(n)
    BY <1>1, <1>3 DEF CallInv, Alone, Connecting, DisconnectPoints
  <2>3. CASE Cancelled(n)
    <3>1. [client EXCEPT !.reader = FALSE] \in Client
          /\ [client EXCEPT !.reader = FALSE].isConnected = FALSE
      BY <1>2, <2>1 DEF Client
    <3>2. Leaves(n)
      BY <2>3, <3>1, ToWriterLeaves DEF Cancelled
    <3> QED
      BY <1>2, <2>2, <3>2, LeavesKeeps
  <2>4. CASE WriterClosed(n)
    <3> DEFINE w == client.writer /\ ~Up
    <3>1. w \in BOOLEAN
      OBVIOUS
    <3>2. [client EXCEPT !.writer = w] \in Client
          /\ [client EXCEPT !.writer = w].isConnected = FALSE
      <4> HIDE DEF w
      <4> QED
        BY <1>2, <2>1, <3>1 DEF Client
    <3>3. Leaves(n)
      BY <2>4, <3>2, ToPortLeaves DEF WriterClosed
    <3> QED
      BY <1>2, <2>2, <3>3, LeavesKeeps
  <2>5. CASE PortClosed(n)
    <3>1. client' \in Client /\ client'.isConnected = FALSE
      BY <1>2, <2>1, <2>5 DEF PortClosed, Client
    <3>2. Leaves(n)
      BY <2>5, <3>1 DEF PortClosed, Leaves
    <3> QED
      BY <1>2, <2>2, <3>2, LeavesKeeps
  <2> QED
    BY <2>3, <2>4, <2>5
<1>4. CASE raced = TRUE
  <2>1. client' \in Client /\ pc' \in [Calls -> Points]
    BY <1>2 DEF CallInv, PageTypeOK, Cancelled, WriterClosed, PortClosed, ToWriter, ToPort,
                Client, Points, DisconnectPoints
  <2>2. PageTypeOK'
    BY <1>2, <2>1 DEF CallInv, PageTypeOK
  <2> QED
    BY <1>2, <1>4, <2>2 DEF CallInv
<1> QED
  BY <1>2, <1>3, <1>4
-----------------------------------------------------------------------------
LEMMA CallStepKeeps ==
    ASSUME CallInv, NEW n \in Calls, CallStep(n)
    PROVE  CallInv'
<1>1. UNCHANGED <<plugged, lost>>
  BY DEF CallStep
<1>2. CASE Opened(n)
  BY <1>1, <1>2, OpenedKeeps
<1>3. CASE Greeted(n)
  BY <1>1, <1>3, WrittenKeeps DEF Greeted, Attached
<1>4. CASE Answered(n) \/ Paused(n)
  BY <1>1, <1>4, EstablishedKeeps DEF Answered, Paused, Attached
<1>5. CASE TimedOut(n)
  <2>1. PICK q \in {"asking", "pausing"} : Goto(n, q)
    BY <1>5 DEF TimedOut
  <2>2. q \in Attached /\ pc[n] \in Attached
    BY <1>5 DEF TimedOut, Attached
  <2>3. UNCHANGED <<client, port, locked, looping, raced>>
    BY <1>5 DEF TimedOut
  <2> QED
    BY <1>1, <2>1, <2>2, <2>3, GotoKeeps
<1>6. CASE Asked(n)
  BY <1>1, <1>6, WrittenKeeps DEF Asked, Attached
<1>7. CASE Cancelled(n) \/ WriterClosed(n) \/ PortClosed(n)
  BY <1>1, <1>7, LeavingKeeps
<1> QED
  BY <1>2, <1>3, <1>4, <1>5, <1>6, <1>7 DEF CallStep

LEMMA PickerStepKeeps ==
    ASSUME CallInv, NEW n \in Calls, PickerStep(n)
    PROVE  CallInv'
<1>1. UNCHANGED <<plugged, lost>>
  BY DEF PickerStep
<1>2. CASE Dismissed(n)
  BY <1>1, <1>2, FailKeeps DEF Dismissed
<1>3. CASE Picked(n)
  <2>1. /\ pc[n] = "picking" /\ client' = [client EXCEPT !.port = TRUE]
        /\ pc' = [pc EXCEPT ![n] = "opening"]
        /\ UNCHANGED <<port, locked, looping, raced>>
        /\ client \in Client /\ pc \in [Calls -> Points]
    BY <1>3 DEF Picked, Goto, CallInv, PageTypeOK
  <2>2. client' \in Client /\ client'.isConnected = client.isConnected
    BY <2>1 DEF Client
  <2>3. pc'[n] = "opening" /\ \A m \in Calls \ {n} : pc'[m] = pc[m]
    BY <2>1
  <2>4. PageTypeOK'
    BY <1>1, <2>1, <2>2 DEF CallInv, PageTypeOK, Points, ConnectPoints
  <2>5. ASSUME raced = FALSE PROVE Alone' /\ HungUp' /\ Backed'
    <3>1. client.isConnected = FALSE /\ \A m \in Calls \ {n} : pc[m] = "idle"
      BY <2>1, <2>5 DEF CallInv, Alone, ConnectPoints
    <3> QED
      BY <2>2, <2>3, <3>1
      DEF Alone, HungUp, Backed, ConnectPoints, DisconnectPoints, Attached
  <2> QED
    BY <1>1, <2>1, <2>4, <2>5 DEF CallInv
<1> QED
  BY <1>2, <1>3 DEF PickerStep

LEMMA LossSeenKeeps ==
    ASSUME CallInv, NEW n \in Calls, LossSeen(n)
    PROVE  CallInv'
<1> DEFINE c == [client EXCEPT !.reader = FALSE]
<1>1. c \in Client
  BY DEF CallInv, PageTypeOK, Client
<1>2. Leaves(n)
  BY <1>1, ClearedType, ToWriterLeaves DEF LossSeen
<1>3. raced' = (raced \/ Connecting(n)) /\ raced \in BOOLEAN
  BY DEF LossSeen, CallInv, PageTypeOK
<1>4. raced' \in BOOLEAN /\ (raced' = FALSE => raced = FALSE /\ ~Connecting(n))
  BY <1>3
<1>5. /\ looping' \in BOOLEAN /\ locked' \in BOOLEAN /\ lost' = FALSE
      /\ plugged' = plugged /\ port' = port /\ port \in {"closed", "open"}
  BY DEF LossSeen, CallInv, PageTypeOK
<1> QED
  BY <1>2, <1>4, <1>5, LeavesKeeps

LEMMA PressConnectKeeps ==
    ASSUME CallInv, NEW n \in Calls, PressConnect(n)
    PROVE  CallInv'
<1>1. /\ pc[n] = "idle" /\ ~client.isConnected
      /\ client' = [client EXCEPT !.isConnecting = TRUE]
      /\ pc' = [pc EXCEPT ![n] = "picking"]
      /\ raced' = \E m \in Calls : pc[m] # "idle"
      /\ UNCHANGED <<plugged, port, locked, lost, looping>>
      /\ client \in Client /\ pc \in [Calls -> Points]
  BY DEF PressConnect, Idle, Goto, portVars, CallInv, PageTypeOK
<1>2. client' \in Client /\ client'.isConnected = FALSE
  BY <1>1 DEF Client
<1>3. raced' \in BOOLEAN /\ (raced' = FALSE => \A m \in Calls : pc[m] = "idle")
  BY <1>1
<1>4. PageTypeOK'
  BY <1>1, <1>2, <1>3 DEF CallInv, PageTypeOK, Points, ConnectPoints
<1>5. pc'[n] = "picking" /\ \A m \in Calls \ {n} : pc'[m] = pc[m]
  BY <1>1
<1>6. ASSUME raced' = FALSE PROVE Alone' /\ HungUp' /\ Backed'
  BY <1>2, <1>3, <1>5, <1>6
  DEF Alone, HungUp, Backed, ConnectPoints, DisconnectPoints, Attached
<1> QED
  BY <1>1, <1>4, <1>6 DEF CallInv

LEMMA PressDisconnectKeeps ==
    ASSUME CallInv, NEW n \in Calls, PressDisconnect(n)
    PROVE  CallInv'
<1>1. PageTypeOK /\ client \in Client /\ Disconnect(n, client) /\ UNCHANGED <<plugged, port, lost>>
  BY DEF PressDisconnect, CallInv, PageTypeOK
<1> QED
  BY <1>1, DisconnectLeaves, LeavesKeeps DEF PageTypeOK

LEMMA DeliverKeeps == ASSUME CallInv, Deliver PROVE CallInv'
<1>1. /\ client \in Client /\ looping' = client.reader
      /\ UNCHANGED <<portVars, pc, raced>>
      /\ client' \in {client, [client EXCEPT !.deviceInfo = TRUE]}
  BY DEF Deliver, CallInv, PageTypeOK
<1>2. /\ client' \in Client /\ client'.isConnected = client.isConnected
      /\ client'.reader = client.reader /\ client'.writer = client.writer
      /\ client'.port = client.port /\ client.reader \in BOOLEAN
  BY <1>1 DEF Client
<1>3. UNCHANGED <<plugged, port, locked, lost>>
  BY <1>1 DEF portVars
<1>4. PageTypeOK'
  BY <1>1, <1>2, <1>3 DEF CallInv, PageTypeOK
<1>5. Usable => Usable'
  BY <1>1, <1>2, <1>3 DEF Usable
<1>6. (Alone => Alone') /\ (HungUp => HungUp') /\ (Backed => Backed')
  BY <1>1, <1>2, <1>3, <1>5 DEF Alone, HungUp, Backed
<1> QED
  BY <1>1, <1>3, <1>4, <1>6 DEF CallInv

(* The device, the poll and the user's commands touch nothing of it.       *)
LEMMA ElsewhereKeeps ==
    ASSUME CallInv, UNCHANGED <<portVars, client, looping, pc, raced>>
    PROVE  CallInv'
  BY DEF portVars, CallInv, PageTypeOK, Alone, HungUp, Backed, Usable

LEMMA UnplugKeeps == ASSUME CallInv, Unplug PROVE CallInv'
<1>1. /\ plugged = TRUE /\ plugged' = FALSE /\ lost' = (port = "open") /\ port' = "closed"
      /\ UNCHANGED <<locked, client, looping, pc, raced>>
  BY DEF Unplug, clientVars, CallInv, PageTypeOK
<1>2. lost = FALSE
  BY <1>1 DEF CallInv, PageTypeOK
<1>3. PageTypeOK'
  BY <1>1 DEF CallInv, PageTypeOK
<1>4. Usable => lost' = TRUE
  BY <1>1 DEF Usable
<1>5. (Alone => Alone') /\ (HungUp => HungUp') /\ (Backed => Backed')
  BY <1>1, <1>2, <1>4 DEF Alone, HungUp, Backed
<1> QED
  BY <1>1, <1>3, <1>5 DEF CallInv

LEMMA ReplugKeeps == ASSUME CallInv, Replug PROVE CallInv'
<1>1. /\ lost = FALSE /\ lost' = FALSE /\ plugged' = TRUE
      /\ UNCHANGED <<port, locked, client, looping, pc, raced>>
  BY DEF Replug, clientVars, CallInv, PageTypeOK
<1>2. PageTypeOK'
  BY <1>1 DEF CallInv, PageTypeOK
<1>3. (Usable => Usable') /\ (Alone => Alone') /\ (HungUp => HungUp')
  BY <1>1 DEF Usable, Alone, HungUp
<1>4. Backed => Backed'
  BY <1>1, <1>3 DEF Backed
<1> QED
  BY <1>1, <1>2, <1>3, <1>4 DEF CallInv

LEMMA CallInvStep == ASSUME CallInv, [Next]_vars PROVE CallInv'
<1>1. CASE DeviceBoots \/ DeviceHandles \/ Telemetry \/ Poll \/ Crash
           \/ (\E command \in Commands : UserCommand(command)) \/ UNCHANGED vars
  <2>1. UNCHANGED <<portVars, client, looping, pc, raced>>
    BY <1>1 DEF DeviceBoots, DeviceHandles, Telemetry, Poll, Crash, UserCommand, vars, clientVars
  <2> QED
    BY <2>1, ElsewhereKeeps
<1>2. ASSUME NEW n \in Calls,
             \/ CallStep(n) \/ PickerStep(n) \/ LossSeen(n)
             \/ PressConnect(n) \/ PressDisconnect(n)
      PROVE  CallInv'
  BY <1>2, CallStepKeeps, PickerStepKeeps, LossSeenKeeps, PressConnectKeeps,
     PressDisconnectKeeps
<1>3. CASE Deliver
  BY <1>3, DeliverKeeps
<1>4. CASE Unplug
  BY <1>4, UnplugKeeps
<1>5. CASE Replug
  BY <1>5, ReplugKeeps
<1> QED
  BY <1>1, <1>2, <1>3, <1>4, <1>5 DEF Next

(* A page that says CONNECTED can read and write, or is about to be told   *)
(* of the loss, for every number of calls, of acts and of buffered frames, *)
(* unless a disconnect overtook a connect.                                 *)
THEOREM ConnectedMeansOpenHolds == Spec => []ConnectedMeansOpen
<1>1. CallInv => ConnectedMeansOpen
  <2> SUFFICES ASSUME CallInv, client.isConnected, ~raced
               PROVE  ConnectedMeansOpen
    BY DEF ConnectedMeansOpen
  <2>1. client.isConnected = TRUE /\ raced = FALSE
    BY DEF CallInv, PageTypeOK, Client
  <2>2. lost = TRUE \/ Usable
    BY <2>1 DEF CallInv, Backed
  <2> QED
    BY <2>2 DEF Usable, ConnectedMeansOpen
<1> QED
  BY <1>1, InitCallInv, CallInvStep, PTL DEF Spec
=============================================================================
