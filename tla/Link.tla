-------------------------------- MODULE Link --------------------------------
(***************************************************************************)
(* One direction of the SLVR/1 link over USB: a sender that encodes        *)
(* frames, a stream that is damaged now and then, and the parser at the    *)
(* other end, the firmware's (receiver = "device") or the browser's        *)
(* ("host").                                                               *)
(*                                                                         *)
(* Damage: write_raw_bytes writes with a timeout of zero and ignores how   *)
(* much was taken, so a frame is cut short when the USB buffer is full;    *)
(* boot and log output appears between frames on the same port; and an     *)
(* octet of a frame arrives changed.  The USB driver, the browser's serial *)
(* port and the writer at the browser's end are modelled from how the code *)
(* uses them.                                                              *)
(***************************************************************************)
EXTENDS Framing, SequencesExt

CONSTANTS
    Payloads,   \* the payloads sent
    Noises,     \* what appears between frames
    Octets,     \* what an octet may be changed into
    Chunks,     \* the sizes of the chunks the browser reads
    MaxFrames,  \* bound: frames sent, damaged ones included
    MaxDamage,  \* bound: frames damaged and noises
    MaxWire     \* bound: octets under way when a frame is sent

ASSUME LinkAssumption ==
    /\ \A p \in Payloads : p \in Seq(Nat) /\ Len(p) <= MaxPayload
    /\ \A noise \in Noises : noise \in Seq(Nat)
    /\ Octets \subseteq Nat
    /\ Chunks \subseteq Nat
    /\ MaxFrames \in Nat /\ MaxDamage \in Nat

VARIABLES
    receiver,   \* who is at the end of the stream
    wire,       \* the octets under way
    seen,       \* the device's s_parser
    buf,        \* the host's parser.buffer up to bufLen
    delivered,  \* the frames handed to handle_incoming_frame or _onFrame
    number,     \* s_tx_seq of the sender
    intact,     \* history: the frames put on the wire whole
    owed,       \* history: those the device must get, see Send
    quiet,      \* octets sent since the latest damage, at most MaxFrameLen
    damage      \* the number of damages so far
vars == <<receiver, wire, seen, buf, delivered, number, intact, owed, quiet, damage>>

Init ==
    /\ receiver \in {"device", "host"}
    /\ wire = <<>> /\ seen = <<>> /\ buf = <<>> /\ delivered = <<>>
    /\ number = 0
    /\ intact = <<>> /\ owed = <<>>
    /\ quiet = MaxFrameLen
    /\ damage = 0
-----------------------------------------------------------------------------
MaySend == number < MaxFrames /\ Len(wire) <= MaxWire

(* protocol_service_send_frame or the client's sendFrame, undisturbed.     *)
(* Owed is a frame sent when no frame was damaged for the length of the    *)
(* longest frame.                                                          *)
Send(payload) ==
    LET body == Body(number, payload)
    IN  /\ MaySend
        /\ wire' = wire \o Encode(body)
        /\ number' = number + 1
        /\ intact' = Append(intact, body)
        /\ owed' = IF quiet = MaxFrameLen THEN Append(owed, body) ELSE owed
        /\ quiet' = Min({quiet + Len(Encode(body)), MaxFrameLen})
        /\ UNCHANGED <<receiver, seen, buf, delivered, damage>>

Damaged(octets) ==
    /\ damage < MaxDamage
    /\ damage' = damage + 1
    /\ wire' = wire \o octets
    /\ quiet' = 0
    /\ UNCHANGED <<receiver, seen, buf, delivered, intact, owed>>

(* write_raw_bytes when only k octets fit into the buffer.                 *)
SendCut(payload, k) ==
    LET frame == Encode(Body(number, payload))
    IN  /\ MaySend
        /\ k < Len(frame)
        /\ Damaged(SubSeq(frame, 1, k))
        /\ number' = number + 1

SendCorrupted(payload, k, x) ==
    LET frame == Encode(Body(number, payload))
    IN  /\ MaySend
        /\ k \in 1 .. Len(frame) /\ frame[k].value # x
        /\ Damaged([frame EXCEPT ![k] = Octet(x)])
        /\ number' = number + 1

(* Noise with "SL" in it may keep the device from seeing the frame that    *)
(* follows; other noise does not.                                          *)
Deceptive(noise) ==
    \E i \in 1 .. (Len(noise) - 1) : noise[i] = Magic[1] /\ noise[i + 1] = Magic[2]

Noise(noise) ==
    LET octets == [i \in 1 .. Len(noise) |-> Octet(noise[i])]
    IN  /\ Len(wire) <= MaxWire
        /\ IF Deceptive(noise)
           THEN Damaged(octets)
           ELSE /\ damage < MaxDamage
                /\ damage' = damage + 1
                /\ wire' = wire \o octets
                /\ UNCHANGED <<receiver, seen, buf, delivered, intact, owed, quiet>>
        /\ UNCHANGED number
-----------------------------------------------------------------------------
(* The drain loop of protocol_service_task, one byte.                      *)
DeviceReads ==
    /\ receiver = "device" /\ wire # <<>>
    /\ seen' = Fed(seen, Head(wire))
    /\ delivered' = delivered \o Parsed(seen, Head(wire))
    /\ wire' = Tail(wire)
    /\ UNCHANGED <<receiver, buf, number, intact, owed, quiet, damage>>

(* feed() with a chunk of k bytes.                                         *)
HostReads(k) ==
    /\ receiver = "host" /\ k <= Len(wire)
    /\ LET now == buf \o SubSeq(wire, 1, k)
           scan == Scan(now)
       IN  /\ buf' = SubSeq(now, scan.keep, Len(now))
           /\ delivered' = delivered \o scan.out
    /\ wire' = SubSeq(wire, k + 1, Len(wire))
    /\ UNCHANGED <<receiver, seen, number, intact, owed, quiet, damage>>

Next ==
    \/ \E p \in Payloads :
          \/ Send(p)
          \/ \E k \in 1 .. MaxFrameLen :
                SendCut(p, k) \/ \E x \in Octets : SendCorrupted(p, k, x)
    \/ \E noise \in Noises : Noise(noise)
    \/ DeviceReads
    \/ \E k \in Chunks : HostReads(k)

Spec == Init /\ [][Next]_vars
-----------------------------------------------------------------------------
NumberOf(body) == body[2].value

(* Whatever happens on the wire, what a parser hands on are frames that    *)
(* were sent, in the order they were sent, each once.                      *)
InOrder ==
    /\ ToSet(delivered) \subseteq ToSet(intact)
    /\ \A i, j \in DOMAIN delivered :
          i < j => NumberOf(delivered[i]) < NumberOf(delivered[j])

(* The browser loses no frame that arrives whole, however the stream is    *)
(* cut into chunks and whatever surrounds the frame: the frames it has not *)
(* handed on yet are in its buffer or under way.                           *)
Within(frame, octets) ==
    \E i \in 0 .. (Len(octets) - Len(frame)) :
        SubSeq(octets, i + 1, i + Len(frame)) = frame

HostLosesNothing ==
    receiver = "host" =>
        /\ IsPrefix(delivered, intact)
        /\ \A i \in (Len(delivered) + 1) .. Len(intact) :
              Within(Encode(intact[i]), buf \o wire)

(* feed() leaves less than one frame in the buffer, so that the buffer     *)
(* stops growing and no frame waits behind more than one false one.        *)
HostBufferBounded == Len(buf) < MaxFrameLen

(* The firmware is back in step at the latest one longest frame after the  *)
(* damage: it gets every frame sent whole after that, and noise without    *)
(* the start of the magic costs it nothing.                                *)
DeviceResyncs ==
    receiver = "device" /\ wire = <<>> => ToSet(owed) \subseteq ToSet(delivered)

(* That parser does not look back: the claim is about frames none of which *)
(* seems to begin inside another, or across noise and what is before it.   *)
Clear(octets) ==
    \A i \in 1 .. (Len(octets) - 1) :
        ~(octets[i].value = S /\ octets[i + 1].value = Magic[2])

Unmistakable ==
    /\ \A p \in Payloads : \A n \in 0 .. (MaxFrames - 1) :
          Clear(Append(Body(n, p), Crc(Body(n, p))))
    /\ \A noise \in Noises : noise # <<>> => noise[1] # Magic[2]

OctetSet == [value : Nat, of : Seq([value : Nat, of : {<<>>}])]

LinkTypeOK ==
    /\ wire \in Seq(OctetSet) /\ seen \in Seq(OctetSet) /\ buf \in Seq(OctetSet)
    /\ Len(seen) < MaxFrameLen
    /\ number \in 0 .. MaxFrames
    /\ quiet \in 0 .. MaxFrameLen
    /\ damage \in 0 .. MaxDamage
=============================================================================
