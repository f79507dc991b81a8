------------------------------ MODULE Session ------------------------------
(***************************************************************************)
(* The browser's SliverClient and the firmware's protocol service over one *)
(* USB cable.  Each call of requestDeviceAndConnect or disconnect is a     *)
(* process that other calls, the read loop and the device overtake while   *)
(* it waits at an await; the device handles one command at a time and      *)
(* restarts at any moment.                                                 *)
(*                                                                         *)
(* Kept of the messages: those that change what either end does next or    *)
(* what the page shows of the executive.  Ticks, the other telemetry and   *)
(* the bytes (module Link) are abstracted.  The browser's serial port is   *)
(* modelled from how the client uses it.                                   *)
(***************************************************************************)
EXTENDS Executive, Sequences

CONSTANTS
    NoView,      \* the page before the first DEVICE_STATUS
    MaxCalls,    \* bound: calls of connect and disconnect at a time
    Buffer,      \* bound: commands, and messages, in the USB buffers
    MaxActs      \* bound: acts of the user, of the cable and restarts

ASSUME CallsAssumption == MaxCalls \in Nat \ {0}

VARIABLES
    connected,   \* s_connected of the device
    toDevice,    \* commands under way
    toHost,      \* messages under way
    plugged,     \* the cable
    port,        \* the browser's serial port: closed or open
    locked,      \* whether a reader holds port.readable
    lost,        \* the cable was pulled and the page has not been told
    client,      \* isConnected, isConnecting, deviceInfo; whether reader,
                 \* writer and port are not null
    looping,     \* whether _startReadLoop waits for data
    view,        \* the active application the page shows
    pc,          \* where each call of connect or disconnect waits
    raced,       \* history: a connect and a disconnect were waiting together
    acts         \* the number of acts so far
deviceVars == <<kernel, app, activeApp, faulted, stage, connected>>
portVars == <<plugged, port, locked, lost>>
clientVars == <<client, looping, view, pc, raced>>
vars == <<deviceVars, toDevice, toHost, portVars, clientVars, acts>>

Calls == 1 .. MaxCalls
ConnectPoints == {"picking", "opening", "greeting", "waiting", "asking", "pausing"}
DisconnectPoints == {"cancelling", "closing", "releasing"}

Init ==
    /\ PoweredUp
    /\ connected = FALSE
    /\ toDevice = <<>> /\ toHost = <<>>
    /\ plugged = TRUE /\ port = "closed" /\ locked = FALSE /\ lost = FALSE
    /\ client = [isConnected |-> FALSE, isConnecting |-> FALSE, deviceInfo |-> FALSE,
                 reader |-> FALSE, writer |-> FALSE, port |-> FALSE]
    /\ looping = FALSE
    /\ view = NoView
    /\ pc = [n \in Calls |-> "idle"]
    /\ raced = FALSE
    /\ acts = 0
-----------------------------------------------------------------------------
(* The device.                                                             *)

Info == <<"DEVICE_INFO">>
Status == <<"DEVICE_STATUS", activeApp>>

(* Messages are written with a timeout of zero: what does not fit is lost. *)
Transmit(messages) ==
    LET queue == toHost \o messages
    IN  toHost' = IF Len(queue) <= Buffer THEN queue ELSE SubSeq(queue, 1, Buffer)

(* Everything in the device's RAM is gone; what the cable's other end      *)
(* already holds may be delivered.                                         *)
Restart ==
    /\ Reset
    /\ connected' = FALSE
    /\ toDevice' = <<>>
    /\ toHost' \in {<<>>, toHost}

(* handle_incoming_frame.                                                  *)
Handle(command) ==
    \/ /\ command = <<"CONNECT">>
       /\ connected' = TRUE
       /\ Transmit(<<Info, Status>>)
       /\ UNCHANGED execVars
    \/ /\ \/ command = <<"GET_INFO">> /\ Transmit(<<Info>>)
          \/ command = <<"GET_STATUS">> /\ Transmit(<<Status>>)
       /\ UNCHANGED <<execVars, connected>>
    \/ /\ \E a \in Apps : \/ command = <<"LAUNCH_APP", a>> /\ HandleLaunch(a)
                          \/ command = <<"EXIT_APP", a>> /\ HandleExit(a)
       /\ Transmit(<<Status'>>)
       /\ UNCHANGED connected

(* protocol_service_task drains its input in the kernel's loop; the        *)
(* terminal's "reboot" restarts the chip at once.                          *)
DeviceHandles ==
    /\ plugged /\ Looping /\ toDevice # <<>>
    /\ IF Head(toDevice) = <<"REBOOT">>
         THEN Restart
         ELSE Handle(Head(toDevice)) /\ toDevice' = Tail(toDevice)
    /\ UNCHANGED <<portVars, clientVars, acts>>

(* The periodic broadcast, which no disconnect ever stops.                 *)
Telemetry ==
    /\ plugged /\ Looping /\ connected
    /\ Transmit(<<Status>>)
    /\ UNCHANGED <<deviceVars, toDevice, portVars, clientVars, acts>>

(* Before the driver is installed what the host sends may be lost.         *)
DeviceBoots ==
    /\ plugged /\ BootStep
    /\ IF stage = "service_init"
         THEN connected' = FALSE /\ toDevice' \in {<<>>, toDevice}
         ELSE UNCHANGED <<connected, toDevice>>
    /\ UNCHANGED <<toHost, portVars, clientVars, acts>>
-----------------------------------------------------------------------------
(* The client: disconnect().                                               *)

Idle(n) == pc[n] = "idle" /\ \A m \in Calls : m < n => pc[m] # "idle"
Up == plugged /\ port = "open"
Connecting(n) == \E m \in Calls \ {n} : pc[m] \in ConnectPoints

(* Faulty variant: isConnecting is cleared, isConnected is not.            *)
BadCleared(c) == [c EXCEPT !.isConnecting = FALSE, !.deviceInfo = FALSE]

Cleared(c) ==
    [c EXCEPT !.isConnected = FALSE, !.isConnecting = FALSE, !.deviceInfo = FALSE]

(* port.close() fails while a reader or a writer holds its stream and when *)
(* the port is not open; the error is swallowed and the call ends.         *)
ToPort(n, c) ==
    /\ client' = c
    /\ pc' = [pc EXCEPT ![n] =
                IF c.port /\ Up /\ ~locked /\ ~c.writer /\ \A m \in Calls : pc[m] # "releasing"
                  THEN "releasing" ELSE "idle"]

(* On a lost port cancel() and close() fail at once, a second close() of   *)
(* the writer does too; both are swallowed as well.                        *)
ToWriter(n, c) ==
    IF c.writer /\ Up /\ \A m \in Calls : pc[m] # "closing"
      THEN client' = c /\ pc' = [pc EXCEPT ![n] = "closing"]
      ELSE ToPort(n, c)

(* Up to the first await.  reader.cancel() ends the stream, and the read   *)
(* loop runs before the cancellation is reported: it sets this.reader to   *)
(* null, and takes a new reader if the port still has a readable stream.   *)
Disconnect(n, c) ==
    /\ raced' = (raced \/ Connecting(n))
    /\ IF c.reader /\ Up
         THEN \E again \in BOOLEAN :
                /\ looping' = again /\ locked' = again
                /\ client' = [Cleared(c) EXCEPT !.reader = again]
                /\ pc' = [pc EXCEPT ![n] = "cancelling"]
         ELSE /\ ToWriter(n, Cleared(c))
              /\ UNCHANGED <<looping, locked>>

(* this.reader is set to null even if the read loop has a new reader.      *)
Cancelled(n) ==
    /\ pc[n] = "cancelling"
    /\ ToWriter(n, [client EXCEPT !.reader = FALSE])
    /\ UNCHANGED <<looping, locked, raced, port>>

WriterClosed(n) ==
    /\ pc[n] = "closing"
    /\ ToPort(n, [client EXCEPT !.writer = client.writer /\ ~Up])
    /\ UNCHANGED <<looping, locked, raced, port>>

PortClosed(n) ==
    /\ pc[n] = "releasing"
    /\ port' = "closed"
    /\ client' = [client EXCEPT !.port = FALSE]
    /\ pc' = [pc EXCEPT ![n] = "idle"]
    /\ UNCHANGED <<looping, locked, raced>>
-----------------------------------------------------------------------------
(* The client: requestDeviceAndConnect().                                  *)

Goto(n, point) == pc' = [pc EXCEPT ![n] = point]

(* sendCommand: without a writer nothing is sent and nothing is reported.  *)
Submit(command) ==
    /\ Len(toDevice) < Buffer
    /\ toDevice' = Append(toDevice, command)

(* The catch block.                                                        *)
Fail(n) ==
    /\ Disconnect(n, [client EXCEPT !.isConnecting = FALSE])
    /\ UNCHANGED <<port, toDevice>>

Picked(n) ==
    /\ pc[n] = "picking" /\ plugged
    /\ client' = [client EXCEPT !.port = TRUE]
    /\ Goto(n, "opening")
    /\ UNCHANGED <<toDevice, port, locked, looping, raced>>

Dismissed(n) == pc[n] = "picking" /\ Fail(n)

(* port.open() and all up to the write of CONNECT: the writer, the reset   *)
(* parser, the read loop with its reader.                                  *)
Opened(n) ==
    /\ pc[n] = "opening"
    /\ IF plugged /\ port = "closed" /\ client.port
         THEN /\ port' = "open" /\ locked' = TRUE /\ looping' = TRUE
              /\ client' = [client EXCEPT !.writer = TRUE, !.reader = TRUE]
              /\ Goto(n, "greeting")
              /\ UNCHANGED <<toDevice, raced>>
         ELSE Fail(n)

(* A write that reaches an open port, or fails.                            *)
Written(n, command, next) ==
    IF Up THEN /\ Submit(command)
               /\ Goto(n, next)
               /\ UNCHANGED <<client, port, locked, looping, raced>>
          ELSE Fail(n)

Greeted(n) == pc[n] = "greeting" /\ Written(n, <<"CONNECT">>, "waiting")

Established(n) ==
    /\ client' = [client EXCEPT !.isConnected = TRUE, !.isConnecting = FALSE]
    /\ Goto(n, "idle")
    /\ UNCHANGED <<toDevice, port, locked, looping, raced>>

(* _waitForHandshake sees deviceInfo at one of its polls.                  *)
Answered(n) == pc[n] = "waiting" /\ client.deviceInfo /\ Established(n)

(* Faulty variant: the handshake waits without a limit.                    *)
BadTimedOut(n) ==
    /\ pc[n] = "waiting" /\ client.deviceInfo
    /\ Goto(n, "asking")
    /\ UNCHANGED <<client, toDevice, port, locked, looping, raced>>

(* Three seconds pass between two polls of deviceInfo: GET_INFO is tried.  *)
TimedOut(n) ==
    /\ pc[n] = "waiting"
    /\ Goto(n, IF client.writer THEN "asking" ELSE "pausing")
    /\ UNCHANGED <<client, toDevice, port, locked, looping, raced>>

Asked(n) == pc[n] = "asking" /\ Written(n, <<"GET_INFO">>, "pausing")

(* Whatever came of it, the connection is declared established.            *)
Paused(n) == pc[n] = "pausing" /\ Established(n)

CallStep(n) ==
    /\ \/ Opened(n) \/ Greeted(n) \/ Answered(n) \/ TimedOut(n)
       \/ Asked(n) \/ Paused(n)
       \/ Cancelled(n) /\ UNCHANGED toDevice
       \/ WriterClosed(n) /\ UNCHANGED toDevice
       \/ PortClosed(n) /\ UNCHANGED toDevice
    /\ UNCHANGED <<deviceVars, toHost, plugged, lost, view, acts>>

PickerStep(n) ==
    /\ Picked(n) \/ Dismissed(n)
    /\ UNCHANGED <<deviceVars, toHost, plugged, lost, view, acts>>
-----------------------------------------------------------------------------
(* The client: received frames and the poll.                               *)

(* The read loop hands one frame to _onFrame.  If disconnect() has set     *)
(* this.reader to null behind its back, reading on throws and the stream   *)
(* stays locked.                                                           *)
Deliver ==
    /\ Up /\ looping /\ toHost # <<>>
    /\ toHost' = Tail(toHost)
    /\ IF Head(toHost)[1] = "DEVICE_INFO"
         THEN client' = [client EXCEPT !.deviceInfo = TRUE] /\ UNCHANGED view
         ELSE view' = Head(toHost)[2] /\ UNCHANGED client
    /\ looping' = client.reader
    /\ UNCHANGED <<deviceVars, toDevice, portVars, pc, raced, acts>>

(* Faulty variant: the timer asks for DEVICE_INFO.                         *)
BadPoll ==
    /\ client.isConnected /\ client.writer /\ Up
    /\ Submit(<<"GET_INFO">>)
    /\ UNCHANGED <<deviceVars, toHost, portVars, clientVars, acts>>

(* keepAliveTimer.                                                         *)
Poll ==
    /\ client.isConnected /\ client.writer /\ Up
    /\ Submit(<<"GET_STATUS">>)
    /\ UNCHANGED <<deviceVars, toHost, portVars, clientVars, acts>>

(* The read fails and the disconnect event fires.                          *)
LossSeen(n) ==
    /\ lost /\ lost' = FALSE
    /\ Idle(n)
    /\ looping' = FALSE /\ locked' = FALSE
    /\ raced' = (raced \/ Connecting(n))
    /\ ToWriter(n, Cleared([client EXCEPT !.reader = FALSE]))
    /\ UNCHANGED <<deviceVars, toDevice, toHost, plugged, port, view, acts>>
-----------------------------------------------------------------------------
(* The user, the cable and the power.                                      *)

Act == acts < MaxActs /\ acts' = acts + 1

(* The button is shown unless the page says CONNECTED; the call returns at *)
(* once when a connection exists or is being made.                         *)
PressConnect(n) ==
    /\ Act /\ Idle(n)
    /\ ~client.isConnected /\ ~client.isConnecting
    /\ client' = [client EXCEPT !.isConnecting = TRUE]
    /\ Goto(n, "picking")
    /\ raced' = \E m \in Calls : pc[m] # "idle"
    /\ UNCHANGED <<deviceVars, toDevice, toHost, portVars, looping, view>>

PressDisconnect(n) ==
    /\ Act /\ Idle(n)
    /\ client.isConnected
    /\ Disconnect(n, client)
    /\ UNCHANGED <<deviceVars, toDevice, toHost, plugged, port, lost, view>>

(* launchApp, exitApp and sendTerminalCommand("reboot").                   *)
Commands == ({"LAUNCH_APP", "EXIT_APP"} \X Apps) \cup {<<"REBOOT">>}

UserCommand(command) ==
    /\ Act
    /\ client.isConnected /\ client.writer /\ Up
    /\ Submit(command)
    /\ UNCHANGED <<deviceVars, toHost, portVars, clientVars>>

(* Without the cable the device has no power and the port is gone.         *)
Unplug ==
    /\ Act
    /\ plugged /\ plugged' = FALSE
    /\ Reset /\ connected' = FALSE
    /\ toDevice' = <<>> /\ toHost' = <<>>
    /\ lost' = (port = "open") /\ port' = "closed"
    /\ UNCHANGED <<locked, clientVars>>

(* By then what waited for the lost port has failed; a call that waits for *)
(* a timer or for the user may still be waiting.                           *)
Replug ==
    /\ ~plugged /\ ~lost /\ plugged' = TRUE
    /\ \A n \in Calls : pc[n] \in {"idle", "picking", "waiting", "pausing"}
    /\ UNCHANGED <<deviceVars, toDevice, toHost, port, locked, lost, clientVars, acts>>

Crash ==
    /\ Act /\ plugged
    /\ Restart
    /\ UNCHANGED <<portVars, clientVars>>
-----------------------------------------------------------------------------
Next ==
    \/ DeviceBoots \/ DeviceHandles \/ Telemetry
    \/ \E n \in Calls :
          \/ CallStep(n) \/ PickerStep(n) \/ LossSeen(n)
          \/ PressConnect(n) \/ PressDisconnect(n)
    \/ Deliver \/ Poll
    \/ \E command \in Commands : UserCommand(command)
    \/ Unplug \/ Replug \/ Crash

(* The kernel's loop and the browser's event loop do not stop; writes wait *)
(* in the order of their calls for room in the buffer, so none waits for   *)
(* ever.  Nothing is assumed of the user, the cable and the power.         *)
Fairness ==
    /\ WF_vars(DeviceBoots) /\ WF_vars(DeviceHandles)
    /\ \A n \in Calls : SF_vars(CallStep(n)) /\ WF_vars(LossSeen(n))
    /\ WF_vars(Deliver) /\ WF_vars(Poll)

Spec == Init /\ [][Next]_vars /\ Fairness
-----------------------------------------------------------------------------
SessionTypeOK ==
    /\ ExecTypeOK
    /\ connected \in BOOLEAN
    /\ Len(toDevice) <= Buffer /\ Len(toHost) <= Buffer
    /\ \A i \in DOMAIN toHost : toHost[i] \in {Info} \cup {"DEVICE_STATUS"} \X Apps
    /\ port \in {"closed", "open"}
    /\ {plugged, locked, lost, looping, raced} \subseteq BOOLEAN
    /\ client \in [isConnected : BOOLEAN, isConnecting : BOOLEAN, deviceInfo : BOOLEAN,
                   reader : BOOLEAN, writer : BOOLEAN, port : BOOLEAN]
    /\ view \in Apps \cup {NoView}
    /\ pc \in [Calls -> {"idle"} \cup ConnectPoints \cup DisconnectPoints]

(* A page that says CONNECTED has an open port, a writer and a read loop   *)
(* with its reader, or is about to be told of the loss - unless a          *)
(* disconnect ran while a connect was waiting.                             *)
ConnectedMeansOpen ==
    client.isConnected /\ ~raced =>
        \/ lost
        \/ /\ port = "open" /\ locked /\ looping
           /\ client.writer /\ client.reader /\ client.port

(* Whoever answers or does not answer, and whatever is unplugged or        *)
(* disconnected meanwhile, a connect whose device was picked ends.         *)
ConnectEnds ==
    \A n \in Calls :
        pc[n] \in ConnectPoints \ {"picking"} ~> pc[n] \notin ConnectPoints

Live == client.isConnected /\ client.writer /\ client.reader /\ looping /\ Up

(* After the last act the page of a live session ends up showing the       *)
(* device's active application, restarts of the device included: the       *)
(* device forgets that a host is connected, the polls do not.              *)
ViewAgrees == <>[](Live => view = activeApp)

(* docs/HARDWARE_VALIDATION.md:47: unplugging the cable returns the page   *)
(* cleanly to DISCONNECTED.                                                *)
UnplugDisconnects ==
    ~plugged /\ ~lost /\ (\A n \in Calls : pc[n] = "idle") => ~client.isConnected
=============================================================================
