------------------------------- MODULE Framing -------------------------------
(***************************************************************************)
(* SLVR/1 frames, and the two parsers that look for them in a stream of    *)
(* bytes: the firmware's, one byte at a time (os/protocol/host_protocol.c) *)
(* and the browser's, on a buffer of chunks                                *)
(* (flasher/src/protocol/host_protocol.js).                                *)
(*                                                                         *)
(* Fields of several bytes that a parser does not tell apart are one octet *)
(* here: type, flags and sequence number are one, the two bytes of the     *)
(* length are one, and the two of the CRC are one.  The CRC is kept with   *)
(* the body it was computed from: damage that the CRC-16 does not detect   *)
(* is out of the model.  Definitions named Bad... are faulty variants of   *)
(* the one that follows.                                                   *)
(***************************************************************************)
EXTENDS Integers, Sequences, FiniteSetsExt

CONSTANT MaxPayload  \* SLVR_MAX_PAYLOAD_LEN

ASSUME FramingAssumption == MaxPayload \in Nat

Octet(x) == [value |-> x, of |-> <<>>]

S == 83
Magic == <<S, 76, 86, 82>>  \* "SLVR"
Version == 1                \* SLVR_VERSION_1
HeaderLen == 7              \* SLVR_HEADER_LEN
Overhead == HeaderLen + 1   \* SLVR_FRAME_OVERHEAD
MaxFrameLen == Overhead + MaxPayload

(* What the CRC covers: version, number (type, flags and sequence), length *)
(* and payload.                                                            *)
Body(number, payload) ==
    <<Octet(Version), Octet(number), Octet(Len(payload))>>
        \o [i \in 1 .. Len(payload) |-> Octet(payload[i])]

(* Where a parser out of step reads a CRC as a length, it is the longest.  *)
Crc(body) == [value |-> MaxPayload, of |-> body]

(* slvr_encode_frame, encodeFrame.                                         *)
Encode(body) == [i \in 1 .. 4 |-> Octet(Magic[i])] \o body \o <<Crc(body)>>

BadTooLong(length) == FALSE  \* any length is believed

TooLong(length) == length > MaxPayload

(* A whole frame, magic to CRC, and the comparison at its end.             *)
BodyOf(frame) == SubSeq(frame, 5, Len(frame) - 1)

BadCrcMatches(frame) == frame[Len(frame)].of # <<>>  \* some CRC

CrcMatches(frame) == frame[Len(frame)] = Crc(BodyOf(frame))
-----------------------------------------------------------------------------
(* The firmware's parser: its state is the part of a frame it has seen.    *)
(* The octet that may follow the part seen.                                *)
Accepts(seen, o) ==
    LET n == Len(seen)
    IN  /\ n < 4 => o.value = Magic[n + 1]
        /\ n = 4 => o.value = Version
        /\ n = HeaderLen - 1 => ~TooLong(o.value)

Complete(seen) ==
    Len(seen) >= HeaderLen /\ Len(seen) = Overhead + seen[HeaderLen].value

(* After an octet that may not follow: only in state MAGIC_1 is it looked  *)
(* at again as the start of a frame.                                       *)
BadRestart(seen, o) == <<>>

Restart(seen, o) == IF Len(seen) = 1 /\ o.value = S THEN <<o>> ELSE <<>>

(* slvr_parser_feed_byte: the new state of the parser ...                  *)
Fed(seen, o) ==
    IF ~Accepts(seen, o) THEN Restart(seen, o)
    ELSE IF Complete(Append(seen, o)) THEN <<>>
    ELSE Append(seen, o)

(* ... and the frame it returns, if any.                                   *)
Parsed(seen, o) ==
    LET frame == Append(seen, o)
    IN  IF Accepts(seen, o) /\ Complete(frame) /\ CrcMatches(frame)
        THEN <<BodyOf(frame)>> ELSE <<>>
-----------------------------------------------------------------------------
(* The browser's parser: feed() looks through its buffer from position k   *)
(* on and stops where it needs more bytes.                                 *)
Found(buf, k) ==
    {m \in k .. (Len(buf) - 3) : \A i \in 1 .. 4 : buf[m + i - 1].value = Magic[i]}

After(buf, m) == m + Overhead + buf[m + HeaderLen - 1].value  \* behind the frame at m

Malformed(buf, m) ==
    buf[m + 4].value # Version \/ TooLong(buf[m + HeaderLen - 1].value)

Verdict(buf, m) ==
    IF Len(buf) - m + 1 < HeaderLen THEN "wait"
    ELSE IF Malformed(buf, m) THEN "discard"
    ELSE IF After(buf, m) > Len(buf) + 1 THEN "wait"
    ELSE IF CrcMatches(SubSeq(buf, m, After(buf, m) - 1)) THEN "deliver"
    ELSE "discard"

BadSkip(buf, m) ==  \* the rest of the false frame is skipped too
    Min({After(buf, m), Len(buf) + 1})

(* Where to go on after a false frame at m: behind its first byte.         *)
Skip(buf, m) == m + 1

Stop(k) == [keep |-> k, out |-> <<>>]

(* One turn of the loop of feed(), at position k: where the buffer is kept *)
(* from, and the frames handed to onFrame, or what the turns from a later  *)
(* position on give, scan[...].                                            *)
Turn(scan, buf, k) ==
    IF Len(buf) - k + 1 < Overhead THEN Stop(k)
    ELSE IF Found(buf, k) = {} THEN Stop(Len(buf) - 2)
    ELSE LET m == Min(Found(buf, k)) IN
         CASE Verdict(buf, m) = "wait" -> Stop(m)
           [] Verdict(buf, m) = "discard" -> scan[Skip(buf, m)]
           [] Verdict(buf, m) = "deliver" ->
                LET rest == scan[After(buf, m)]
                    body == BodyOf(SubSeq(buf, m, After(buf, m) - 1))
                IN  [rest EXCEPT !.out = <<body>> \o @]

Scan(buf) ==
    LET scan[k \in 1 .. (Len(buf) + 1)] == Turn(scan, buf, k)
    IN  scan[1]
=============================================================================
