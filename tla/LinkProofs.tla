----------------------------- MODULE LinkProofs -----------------------------
(***************************************************************************)
(* The SLVR/1 link for every longest payload, all payloads, noises and     *)
(* sizes of chunks, and however many frames are sent or damaged.           *)
(***************************************************************************)
EXTENDS Link, SequenceTheorems, WellFoundedInduction, TLAPS

(* Octets without a CRC in them, the bodies of frames, and the octets of   *)
(* the stream.                                                             *)
Pure == [value : Nat, of : {<<>>}]

Bodies ==
    {b \in Seq(Pure) : /\ Len(b) \in 3 .. (3 + MaxPayload)
                       /\ b[1].value = Version /\ b[3].value = Len(b) - 3}

StreamOctets == [value : Nat, of : {<<>>} \cup Bodies]

(* What a parser takes for the frame of body b at position m of s, and     *)
(* where it ends; a frame that was written there, as far as s goes.        *)
EndAt(m, b) == m + 4 + Len(b)

FrameAt(s, m, b) ==
    /\ EndAt(m, b) <= Len(s)
    /\ \A i \in 1 .. 4 : s[m + i - 1].value = Magic[i]
    /\ \A i \in 1 .. Len(b) : s[m + 3 + i] = b[i]
    /\ s[EndAt(m, b)] = Crc(b)

Begins(s, m, b) ==
    \A i \in 1 .. Len(Encode(b)) : m + i - 1 <= Len(s) => s[m + i - 1] = Encode(b)[i]

(* In the stream s the CRCs come in the order of the frames they were      *)
(* computed for.                                                           *)
Ordered(s) ==
    \A c, d \in 1 .. Len(s) :
        c < d /\ s[c].of # <<>> /\ s[d].of # <<>> => NumberOf(s[c].of) < NumberOf(s[d].of)

Rising(q) == \A i, j \in 1 .. Len(q) : i < j => NumberOf(q[i]) < NumberOf(q[j])

(* The stream s from the octets a parser keeps to those under way, when    *)
(* the frames sent were put on it whole, those of got handed on, and n is  *)
(* the number of the next: a CRC not yet read is of a frame behind those   *)
(* handed on, and where the octets before it are those it was computed     *)
(* from, the frame is one of sent.                                         *)
Sane(s, got, sent, n) ==
    /\ s \in Seq(StreamOctets) /\ got \in Seq(Bodies) /\ sent \in Seq(Bodies) /\ n \in Nat
    /\ Rising(sent) /\ Rising(got)
    /\ \A i \in 1 .. Len(sent) : NumberOf(sent[i]) < n
    /\ \A i \in 1 .. Len(got) : \E j \in 1 .. Len(sent) : got[i] = sent[j]
    /\ Ordered(s)
    /\ \A c \in 1 .. Len(s) : s[c].of # <<>> =>
          /\ NumberOf(s[c].of) < n
          /\ \A i \in 1 .. Len(got) : NumberOf(got[i]) < NumberOf(s[c].of)
          /\ \A m \in 1 .. c : EndAt(m, s[c].of) = c /\ FrameAt(s, m, s[c].of) =>
                \E j \in 1 .. Len(sent) : s[c].of = sent[j]

(* Nothing is lost: the frames sent and not handed on are whole in s.      *)
Lossless(s, got, sent) ==
    /\ Len(got) <= Len(sent) /\ \A i \in 1 .. Len(got) : got[i] = sent[i]
    /\ \A i \in (Len(got) + 1) .. Len(sent) :
          \E p \in 1 .. Len(s) : EndAt(p, sent[i]) <= Len(s) /\ Begins(s, p, sent[i])

(* The part of a frame the device has seen.                                *)
SeenSoFar(q) ==
    /\ \A i \in 1 .. Len(q) : i <= 4 => q[i].value = Magic[i]
    /\ Len(q) >= HeaderLen =>
          ~TooLong(q[HeaderLen].value) /\ Len(q) < Overhead + q[HeaderLen].value

SeenOK == seen \in Seq(StreamOctets) /\ SeenSoFar(seen)

Kept == IF receiver = "host" THEN buf ELSE seen

LinkInv ==
    /\ Sane(Kept \o wire, delivered, intact, number)
    /\ receiver = "host" => Lossless(Kept \o wire, delivered, intact)
    /\ SeenOK
    /\ wire \in Seq(StreamOctets) /\ buf \in Seq(StreamOctets)
    /\ HostBufferBounded
-----------------------------------------------------------------------------
(* What a body and a frame look like.                                      *)
LEMMA BodyType ==
    ASSUME NEW b \in Bodies
    PROVE  /\ b \in Seq(Pure) /\ Len(b) \in Nat /\ Len(b) >= 3 /\ Len(b) <= 3 + MaxPayload
           /\ b # <<>> /\ b[1].value = Version /\ b[3].value = Len(b) - 3
           /\ NumberOf(b) \in Nat
           /\ \A i \in 1 .. Len(b) : b[i] \in Pure /\ b[i].of = <<>> /\ b[i].value \in Nat
<1>1. b \in Seq(Pure) /\ Len(b) \in 3 .. (3 + MaxPayload)
      /\ b[1].value = Version /\ b[3].value = Len(b) - 3
  BY DEF Bodies
<1>2. Len(b) \in Nat /\ Len(b) >= 3 /\ Len(b) <= 3 + MaxPayload
  BY <1>1, FramingAssumption
<1>3. \A i \in 1 .. Len(b) : b[i] \in Pure
  BY <1>1, ElementOfSeq
<1>4. \A i \in 1 .. Len(b) : b[i].of = <<>> /\ b[i].value \in Nat
  BY <1>3 DEF Pure
<1>5. NumberOf(b) \in Nat
  BY <1>2, <1>4 DEF NumberOf
<1>6. b # <<>>
  BY <1>2, EmptySeq
<1> QED
  BY <1>1, <1>2, <1>3, <1>4, <1>5, <1>6

LEMMA BodyIs ==
    ASSUME NEW n \in Nat, NEW p \in Seq(Nat), Len(p) <= MaxPayload
    PROVE  Body(n, p) \in Bodies /\ NumberOf(Body(n, p)) = n
<1> DEFINE front == <<Octet(Version), Octet(n), Octet(Len(p))>>
           rear == [i \in 1 .. Len(p) |-> Octet(p[i])]
<1>1. Len(p) \in Nat
  BY LenProperties
<1>2. \A x \in Nat : Octet(x) \in Pure /\ Octet(x).value = x
  BY DEF Octet, Pure
<1>3. front \in Seq(Pure) /\ Len(front) = 3
      /\ front[1] = Octet(Version) /\ front[2] = Octet(n) /\ front[3] = Octet(Len(p))
  <2>1. Octet(Version) \in Pure /\ Octet(n) \in Pure /\ Octet(Len(p)) \in Pure
    BY <1>1, <1>2 DEF Version
  <2> QED
    BY <2>1
<1>4. rear \in Seq(Pure) /\ Len(rear) = Len(p)
  <2>1. \A i \in 1 .. Len(p) : Octet(p[i]) \in Pure
    BY <1>2, ElementOfSeq
  <2> QED
    BY <1>1, <2>1
<1> HIDE DEF front, rear
<1>5. /\ front \o rear \in Seq(Pure) /\ Len(front \o rear) = 3 + Len(p)
      /\ \A i \in 1 .. 3 : (front \o rear)[i] = front[i]
  <2>1. /\ front \o rear \in Seq(Pure) /\ Len(front \o rear) = Len(front) + Len(rear)
        /\ \A i \in 1 .. (Len(front) + Len(rear)) :
             (front \o rear)[i] = IF i <= Len(front) THEN front[i] ELSE rear[i - Len(front)]
    <3>1. front \in Seq(Pure) /\ rear \in Seq(Pure)
      BY <1>3, <1>4
    <3> QED
      BY <3>1, ConcatProperties
  <2> QED
    BY <1>1, <1>3, <1>4, <2>1
<1>6. Body(n, p) = front \o rear
  BY DEF Body, front, rear
<1>7. /\ (front \o rear)[1].value = Version /\ (front \o rear)[2].value = n
      /\ (front \o rear)[3].value = Len(p)
  <2>1. /\ (front \o rear)[1] = Octet(Version) /\ (front \o rear)[2] = Octet(n)
        /\ (front \o rear)[3] = Octet(Len(p))
    BY <1>3, <1>5
  <2>2. /\ Octet(Version).value = Version /\ Octet(n).value = n
        /\ Octet(Len(p)).value = Len(p)
    BY DEF Octet
  <2> QED
    BY <2>1, <2>2
<1>8. Len(front \o rear) \in 3 .. (3 + MaxPayload) /\ Len(p) = Len(front \o rear) - 3
  BY <1>1, <1>5, FramingAssumption
<1> QED
  BY <1>5, <1>6, <1>7, <1>8 DEF Bodies, NumberOf

LEMMA EncodeIs ==
    ASSUME NEW b \in Bodies
    PROVE  /\ Encode(b) \in Seq(StreamOctets) /\ Len(Encode(b)) = Len(b) + 5
           /\ \A i \in 1 .. 4 : Encode(b)[i] = Octet(Magic[i])
           /\ \A i \in 1 .. Len(b) : Encode(b)[4 + i] = b[i]
           /\ Encode(b)[Len(b) + 5] = Crc(b)
           /\ \A i \in 1 .. (Len(b) + 4) : Encode(b)[i].of = <<>>
           /\ Crc(b).of = b /\ Crc(b).of # <<>>
<1> DEFINE magic == [i \in 1 .. 4 |-> Octet(Magic[i])]
           seal == <<Crc(b)>>
<1>1. /\ Crc(b) \in StreamOctets /\ Crc(b).of = b
      /\ Pure \subseteq StreamOctets
  BY FramingAssumption DEF Crc, StreamOctets, Pure
<1>2. \A i \in 1 .. 4 : Magic[i] \in Nat /\ Octet(Magic[i]) \in StreamOctets
                         /\ Octet(Magic[i]).of = <<>>
  BY DEF Magic, S, Octet, StreamOctets
<1>3. magic \in Seq(StreamOctets) /\ Len(magic) = 4
  BY <1>2
<1>4. seal \in Seq(StreamOctets) /\ Len(seal) = 1 /\ seal[1] = Crc(b)
  BY <1>1
<1>5. b \in Seq(StreamOctets) /\ Len(b) \in Nat /\ b # <<>>
      /\ \A i \in 1 .. Len(b) : b[i].of = <<>>
  BY <1>1, BodyType, SeqMonotonic
<1>6. \A i \in 1 .. 4 : magic[i] = Octet(Magic[i])
  OBVIOUS
<1>7. Encode(b) = (magic \o b) \o seal
  BY DEF Encode
<1> HIDE DEF magic, seal
<1>8. /\ magic \o b \in Seq(StreamOctets) /\ Len(magic \o b) = 4 + Len(b)
      /\ \A i \in 1 .. (4 + Len(b)) : (magic \o b)[i] = IF i <= 4 THEN magic[i] ELSE b[i - 4]
  <2>1. /\ magic \o b \in Seq(StreamOctets) /\ Len(magic \o b) = Len(magic) + Len(b)
        /\ \A i \in 1 .. (Len(magic) + Len(b)) :
              (magic \o b)[i] = IF i <= Len(magic) THEN magic[i] ELSE b[i - Len(magic)]
    BY <1>3, <1>5, ConcatProperties
  <2> QED
    BY <1>3, <2>1
<1>9. /\ Encode(b) \in Seq(StreamOctets) /\ Len(Encode(b)) = 4 + Len(b) + 1
      /\ \A i \in 1 .. (4 + Len(b) + 1) :
            Encode(b)[i] = IF i <= 4 + Len(b) THEN (magic \o b)[i] ELSE seal[i - (4 + Len(b))]
  <2> DEFINE front == magic \o b
  <2> HIDE DEF front
  <2>1. front \in Seq(StreamOctets) /\ Len(front) = 4 + Len(b) /\ Encode(b) = front \o seal
    BY <1>7, <1>8 DEF front
  <2>2. front \in Seq(StreamOctets) /\ seal \in Seq(StreamOctets)
    BY <1>4, <2>1
  <2>3. /\ front \o seal \in Seq(StreamOctets) /\ Len(front \o seal) = Len(front) + Len(seal)
        /\ \A i \in 1 .. (Len(front) + Len(seal)) :
              (front \o seal)[i] = IF i <= Len(front) THEN front[i] ELSE seal[i - Len(front)]
    BY <2>2, ConcatProperties
  <2>4. \A i \in 1 .. (4 + Len(b) + 1) :
            Encode(b)[i] = IF i <= 4 + Len(b) THEN front[i] ELSE seal[i - (4 + Len(b))]
    BY <1>4, <2>1, <2>3
  <2>5. Encode(b) \in Seq(StreamOctets) /\ Len(Encode(b)) = 4 + Len(b) + 1
    BY <1>4, <2>1, <2>3
  <2> QED
    BY <2>4, <2>5 DEF front
<1>10. \A i \in 1 .. 4 : Encode(b)[i] = Octet(Magic[i])
  <2> SUFFICES ASSUME NEW i \in 1 .. 4 PROVE Encode(b)[i] = Octet(Magic[i])
    OBVIOUS
  <2>1. i \in 1 .. (4 + Len(b) + 1) /\ i \in 1 .. (4 + Len(b)) /\ i <= 4 + Len(b) /\ i <= 4
    BY <1>5, LenProperties
  <2>2. Encode(b)[i] = (magic \o b)[i] /\ (magic \o b)[i] = magic[i]
    BY <1>8, <1>9, <2>1
  <2> QED
    BY <1>6, <2>2
<1>11. \A i \in 1 .. Len(b) : Encode(b)[4 + i] = b[i]
  BY <1>5, <1>8, <1>9
<1>12. Encode(b)[Len(b) + 5] = Crc(b)
  BY <1>4, <1>5, <1>9
<1>13. ASSUME NEW i \in 1 .. (Len(b) + 4) PROVE Encode(b)[i].of = <<>>
  <2>1. CASE i <= 4
    BY <1>2, <1>10, <2>1
  <2>2. CASE i > 4
    <3>1. i - 4 \in 1 .. Len(b) /\ 4 + (i - 4) = i
      BY <1>5, <2>2
    <3> QED
      BY <1>5, <1>11, <3>1
  <2> QED
    BY <2>1, <2>2
<1> QED
  BY <1>1, <1>5, <1>9, <1>10, <1>11, <1>12, <1>13

(* A CRC of the stream is of a body.                                       *)
LEMMA StreamType ==
    ASSUME NEW s \in Seq(StreamOctets), NEW c \in 1 .. Len(s)
    PROVE  /\ s[c] \in StreamOctets /\ s[c].value \in Nat
           /\ s[c].of # <<>> => s[c].of \in Bodies /\ NumberOf(s[c].of) \in Nat
<1>1. s[c] \in StreamOctets
  BY ElementOfSeq
<1>2. s[c].value \in Nat /\ (s[c].of # <<>> => s[c].of \in Bodies)
  BY <1>1 DEF StreamOctets
<1> QED
  BY <1>1, <1>2, BodyType

(* The sender puts w on the stream: at most its last octet is a CRC, then  *)
(* of the next number, and if w is the frame of that CRC it is noted.      *)
Puts(w, b, n, later, sent, noted) ==
    /\ w \in Seq(StreamOctets) /\ later \in Nat /\ n <= later
    /\ \/ noted = sent
       \/ noted = Append(sent, b) /\ b \in Bodies /\ NumberOf(b) = n /\ later = n + 1
    /\ \A c \in 1 .. Len(w) : w[c].of # <<>> =>
          /\ c = Len(w) /\ w[c].of = b /\ Len(w) = Len(b) + 5
          /\ NumberOf(b) = n /\ later = n + 1
          /\ FrameAt(w, 1, b) => noted = Append(sent, b)

LEMMA PutSent ==
    ASSUME NEW sent \in Seq(Bodies), NEW noted, NEW w, NEW b, NEW n \in Nat, NEW later,
           Puts(w, b, n, later, sent, noted), Rising(sent),
           \A i \in 1 .. Len(sent) : NumberOf(sent[i]) < n
    PROVE  /\ noted \in Seq(Bodies) /\ Rising(noted)
           /\ \A i \in 1 .. Len(noted) : NumberOf(noted[i]) < later
           /\ Len(sent) <= Len(noted)
           /\ \A i \in 1 .. Len(sent) : noted[i] = sent[i]
<1>1. CASE noted = sent
  <2>1. \A i \in 1 .. Len(sent) : NumberOf(sent[i]) \in Nat
    BY ElementOfSeq, BodyType
  <2>2. Len(sent) \in Nat /\ later \in Nat /\ n <= later
    BY LenProperties DEF Puts
  <2> QED
    BY <1>1, <2>1, <2>2
<1>2. CASE noted = Append(sent, b) /\ b \in Bodies /\ NumberOf(b) = n /\ later = n + 1
  <2>1. /\ noted \in Seq(Bodies) /\ Len(noted) = Len(sent) + 1 /\ noted[Len(sent) + 1] = b
        /\ \A i \in 1 .. Len(sent) : noted[i] = sent[i]
    BY <1>2, AppendProperties
  <2>2. Len(sent) \in Nat /\ \A i \in 1 .. Len(sent) : NumberOf(sent[i]) \in Nat
    BY ElementOfSeq, BodyType, LenProperties
  <2>3. ASSUME NEW i \in 1 .. Len(noted)
        PROVE  /\ NumberOf(noted[i]) < later
               /\ i <= Len(sent) => NumberOf(noted[i]) < n
    <3>1. CASE i <= Len(sent)
      BY <1>2, <2>1, <2>2, <3>1
    <3>2. CASE ~(i <= Len(sent))
      BY <1>2, <2>1, <2>2, <3>2
    <3> QED
      BY <3>1, <3>2
  <2>4. ASSUME NEW i \in 1 .. Len(noted), NEW j \in 1 .. Len(noted), i < j
        PROVE  NumberOf(noted[i]) < NumberOf(noted[j])
    <3>1. CASE j <= Len(sent)
      <4>1. i \in 1 .. Len(sent) /\ j \in 1 .. Len(sent)
        BY <2>2, <2>4, <3>1
      <4> QED
        BY <2>1, <2>4, <4>1 DEF Rising
    <3>2. CASE ~(j <= Len(sent))
      <4>1. j = Len(sent) + 1 /\ i <= Len(sent)
        BY <2>1, <2>2, <2>4, <3>2
      <4> QED
        BY <1>2, <2>1, <2>3, <4>1
    <3> QED
      BY <3>1, <3>2
  <2> QED
    BY <2>1, <2>2, <2>3, <2>4 DEF Rising
<1> QED
  BY <1>1, <1>2 DEF Puts

LEMMA PutKeeps ==
    ASSUME NEW s, NEW got, NEW sent, NEW n, Sane(s, got, sent, n),
           NEW w, NEW b, NEW later, NEW noted, Puts(w, b, n, later, sent, noted)
    PROVE  Sane(s \o w, got, noted, later)
<1> DEFINE t == s \o w
<1>1. /\ s \in Seq(StreamOctets) /\ got \in Seq(Bodies) /\ sent \in Seq(Bodies) /\ n \in Nat
      /\ Rising(sent) /\ Rising(got)
      /\ \A i \in 1 .. Len(sent) : NumberOf(sent[i]) < n
      /\ \A i \in 1 .. Len(got) : \E j \in 1 .. Len(sent) : got[i] = sent[j]
      /\ Ordered(s)
  BY DEF Sane
<1>2. /\ w \in Seq(StreamOctets) /\ later \in Nat /\ n <= later
      /\ \A c \in 1 .. Len(w) : w[c].of # <<>> =>
          /\ c = Len(w) /\ w[c].of = b /\ Len(w) = Len(b) + 5
          /\ NumberOf(b) = n /\ later = n + 1
          /\ FrameAt(w, 1, b) => noted = Append(sent, b)
  BY DEF Puts
<1>3. /\ noted \in Seq(Bodies) /\ Rising(noted)
      /\ \A i \in 1 .. Len(noted) : NumberOf(noted[i]) < later
      /\ Len(sent) <= Len(noted)
      /\ \A i \in 1 .. Len(sent) : noted[i] = sent[i]
  BY <1>1, PutSent
<1>4. Len(s) \in Nat /\ Len(w) \in Nat /\ Len(sent) \in Nat /\ Len(noted) \in Nat /\ Len(got) \in Nat
  BY <1>1, <1>2, <1>3, LenProperties
<1>5. /\ t \in Seq(StreamOctets) /\ Len(t) = Len(s) + Len(w)
      /\ \A i \in 1 .. (Len(s) + Len(w)) : t[i] = IF i <= Len(s) THEN s[i] ELSE w[i - Len(s)]
  BY <1>1, <1>2, ConcatProperties
<1> HIDE DEF t
<1>6. \A i \in 1 .. Len(s) : t[i] = s[i] /\ i \in 1 .. Len(t)
  BY <1>4, <1>5
<1>7. ASSUME NEW c \in 1 .. Len(t), ~(c <= Len(s)), t[c].of # <<>>
      PROVE  /\ c = Len(t) /\ t[c].of = b /\ Len(w) = Len(b) + 5 /\ b \in Bodies
             /\ NumberOf(b) = n /\ later = n + 1
             /\ FrameAt(w, 1, b) => noted = Append(sent, b)
  <2>1. c - Len(s) \in 1 .. Len(w) /\ t[c] = w[c - Len(s)]
    BY <1>4, <1>5, <1>7
  <2>2. /\ c - Len(s) = Len(w) /\ t[c].of = b /\ Len(w) = Len(b) + 5
        /\ NumberOf(b) = n /\ later = n + 1
        /\ FrameAt(w, 1, b) => noted = Append(sent, b)
    BY <1>2, <1>7, <2>1
  <2>3. b \in Bodies
    BY <1>5, <1>7, <2>2, StreamType
  <2>4. c = Len(t)
    BY <1>4, <1>5, <2>2
  <2> QED
    BY <2>2, <2>3, <2>4
<1>8. \A i \in 1 .. Len(got) : /\ NumberOf(got[i]) < n
                               /\ \E j \in 1 .. Len(noted) : got[i] = noted[j]
  <2> SUFFICES ASSUME NEW i \in 1 .. Len(got)
               PROVE  /\ NumberOf(got[i]) < n
                      /\ \E j \in 1 .. Len(noted) : got[i] = noted[j]
    OBVIOUS
  <2>1. PICK j \in 1 .. Len(sent) : got[i] = sent[j]
    BY <1>1
  <2>2. j \in 1 .. Len(noted) /\ noted[j] = sent[j]
    BY <1>3, <1>4
  <2> QED
    BY <1>1, <2>1, <2>2
<1>9. \A c \in 1 .. Len(s) : s[c].of # <<>> =>
          /\ NumberOf(s[c].of) \in Nat /\ NumberOf(s[c].of) < n
          /\ \A i \in 1 .. Len(got) : NumberOf(got[i]) < NumberOf(s[c].of)
          /\ \A m \in 1 .. c : EndAt(m, s[c].of) = c /\ FrameAt(s, m, s[c].of) =>
                \E j \in 1 .. Len(sent) : s[c].of = sent[j]
  BY <1>1, StreamType DEF Sane
<1>10. Ordered(t)
  <2> SUFFICES ASSUME NEW c \in 1 .. Len(t), NEW d \in 1 .. Len(t), c < d,
                      t[c].of # <<>>, t[d].of # <<>>
               PROVE  NumberOf(t[c].of) < NumberOf(t[d].of)
    BY DEF Ordered
  <2>1. CASE d <= Len(s)
    <3>1. c \in 1 .. Len(s) /\ d \in 1 .. Len(s) /\ t[c] = s[c] /\ t[d] = s[d]
      BY <1>4, <1>6, <2>1
    <3> QED
      BY <1>1, <3>1 DEF Ordered
  <2>2. CASE ~(d <= Len(s))
    <3>1. d = Len(t) /\ NumberOf(t[d].of) = n
      BY <1>7, <2>2
    <3>2. c <= Len(s)
      <4> SUFFICES ASSUME ~(c <= Len(s)) PROVE FALSE
        OBVIOUS
      <4>1. c = Len(t)
        BY <1>7
      <4> QED
        BY <1>4, <1>5, <3>1, <4>1
    <3>3. c \in 1 .. Len(s) /\ t[c] = s[c]
      BY <1>4, <1>6, <3>2
    <3> QED
      BY <1>9, <3>1, <3>3
  <2> QED
    BY <2>1, <2>2
<1>11. ASSUME NEW c \in 1 .. Len(t), t[c].of # <<>>
       PROVE  /\ NumberOf(t[c].of) < later
              /\ \A i \in 1 .. Len(got) : NumberOf(got[i]) < NumberOf(t[c].of)
              /\ \A m \in 1 .. c : EndAt(m, t[c].of) = c /\ FrameAt(t, m, t[c].of) =>
                    \E j \in 1 .. Len(noted) : t[c].of = noted[j]
  <2>1. CASE c <= Len(s)
    <3>1. c \in 1 .. Len(s) /\ t[c] = s[c] /\ s[c].of # <<>>
      BY <1>4, <1>6, <1>11, <2>1
    <3>2. /\ NumberOf(t[c].of) < later
          /\ \A i \in 1 .. Len(got) : NumberOf(got[i]) < NumberOf(t[c].of)
      BY <1>2, <1>1, <1>9, <3>1
    <3>3. ASSUME NEW m \in 1 .. c, EndAt(m, t[c].of) = c, FrameAt(t, m, t[c].of)
          PROVE  \E j \in 1 .. Len(noted) : t[c].of = noted[j]
      <4> DEFINE x == s[c].of
      <4>1. Len(x) \in Nat /\ m + 4 + Len(x) = c
        <5>1. x \in Bodies
          BY <1>1, <3>1, StreamType
        <5> QED
          BY <3>1, <3>3, <5>1, BodyType DEF EndAt
      <4> HIDE DEF x
      <4>2. /\ \A i \in 1 .. 4 : m + i - 1 \in 1 .. Len(s)
            /\ \A i \in 1 .. Len(x) : m + 3 + i \in 1 .. Len(s)
        <5>1. m \in Nat /\ m >= 1 /\ Len(s) \in Nat /\ m + 4 + Len(x) <= Len(s)
          BY <1>4, <3>1, <3>3, <4>1
        <5> QED
          BY <4>1, <5>1
      <4>3. /\ \A i \in 1 .. 4 : t[m + i - 1].value = Magic[i]
            /\ \A i \in 1 .. Len(x) : t[m + 3 + i] = x[i]
            /\ t[c] = Crc(x)
        BY <3>1, <3>3 DEF FrameAt, x
      <4>4. FrameAt(s, m, x)
        <5>1. EndAt(m, x) = c /\ c <= Len(s)
          BY <3>1, <3>3, <1>4 DEF x
        <5> QED
          BY <1>6, <3>1, <4>2, <4>3, <5>1 DEF FrameAt
      <4>5. PICK j \in 1 .. Len(sent) : s[c].of = sent[j]
        BY <1>9, <3>1, <3>3, <4>4 DEF x
      <4>6. j \in 1 .. Len(noted) /\ noted[j] = sent[j]
        BY <1>3, <1>4
      <4> QED
        BY <3>1, <4>5, <4>6
    <3> QED
      BY <3>2, <3>3
  <2>2. CASE ~(c <= Len(s))
    <3>1. /\ c = Len(t) /\ t[c].of = b /\ Len(w) = Len(b) + 5 /\ b \in Bodies
          /\ NumberOf(b) = n /\ later = n + 1
          /\ FrameAt(w, 1, b) => noted = Append(sent, b)
      BY <1>7, <1>11, <2>2
    <3>2. /\ NumberOf(t[c].of) < later
          /\ \A i \in 1 .. Len(got) : NumberOf(got[i]) < NumberOf(t[c].of)
      BY <1>1, <1>8, <3>1
    <3>3. ASSUME NEW m \in 1 .. c, EndAt(m, t[c].of) = c, FrameAt(t, m, t[c].of)
          PROVE  \E j \in 1 .. Len(noted) : t[c].of = noted[j]
      <4>1. Len(b) \in Nat /\ m = Len(s) + 1
        <5>1. Len(b) \in Nat /\ m + 4 + Len(b) = Len(s) + Len(b) + 5
          BY <1>5, <3>1, <3>3, BodyType DEF EndAt
        <5> QED
          BY <1>4, <5>1
      <4>2. \A i \in 1 .. Len(w) : t[m + i - 1] = w[i]
        <5> SUFFICES ASSUME NEW i \in 1 .. Len(w) PROVE t[m + i - 1] = w[i]
          OBVIOUS
        <5>1. /\ m + i - 1 = Len(s) + i /\ Len(s) + i \in 1 .. (Len(s) + Len(w))
              /\ ~(Len(s) + i <= Len(s)) /\ (Len(s) + i) - Len(s) = i
          BY <1>4, <4>1
        <5>2. t[Len(s) + i] = w[(Len(s) + i) - Len(s)]
          BY <1>5, <5>1
        <5> QED
          BY <5>1, <5>2
      <4>3. /\ \A i \in 1 .. 4 : t[m + i - 1].value = Magic[i]
            /\ \A i \in 1 .. Len(b) : t[m + 3 + i] = b[i]
            /\ t[m + 4 + Len(b)] = Crc(b)
        BY <3>1, <3>3 DEF FrameAt, EndAt
      <4>4. \A i \in 1 .. 4 : i \in 1 .. Len(w) /\ w[i].value = Magic[i]
        <5> SUFFICES ASSUME NEW i \in 1 .. 4
                     PROVE  i \in 1 .. Len(w) /\ w[i].value = Magic[i]
          OBVIOUS
        <5>1. i \in 1 .. Len(w)
          BY <3>1, <4>1
        <5> QED
          BY <4>2, <4>3, <5>1
      <4>5. \A i \in 1 .. Len(b) : w[1 + 3 + i] = b[i]
        <5> SUFFICES ASSUME NEW i \in 1 .. Len(b) PROVE w[1 + 3 + i] = b[i]
          OBVIOUS
        <5>1. 4 + i \in 1 .. Len(w) /\ m + (4 + i) - 1 = m + 3 + i /\ 1 + 3 + i = 4 + i
          BY <3>1, <4>1
        <5> QED
          BY <4>2, <4>3, <5>1
      <4>6. w[1 + 4 + Len(b)] = Crc(b) /\ 1 + 4 + Len(b) <= Len(w)
        <5>1. 5 + Len(b) \in 1 .. Len(w) /\ m + (5 + Len(b)) - 1 = m + 4 + Len(b)
              /\ 1 + 4 + Len(b) = 5 + Len(b) /\ 1 + 4 + Len(b) <= Len(w)
          BY <3>1, <4>1
        <5> QED
          BY <4>2, <4>3, <5>1
      <4>7. \A i \in 1 .. 4 : w[1 + i - 1].value = Magic[i]
        <5> SUFFICES ASSUME NEW i \in 1 .. 4 PROVE w[1 + i - 1].value = Magic[i]
          OBVIOUS
        <5>1. 1 + i - 1 = i
          OBVIOUS
        <5> QED
          BY <4>4, <5>1
      <4>8. FrameAt(w, 1, b)
        BY <4>5, <4>6, <4>7 DEF FrameAt, EndAt
      <4>9. noted = Append(sent, b)
        BY <3>1, <4>8
      <4>10. Len(noted) = Len(sent) + 1 /\ noted[Len(sent) + 1] = b
        BY <1>1, <3>1, <4>9, AppendProperties
      <4> QED
        BY <1>4, <3>1, <4>10
    <3> QED
      BY <3>2, <3>3
  <2> QED
    BY <2>1, <2>2
<1> QED
  BY <1>1, <1>2, <1>3, <1>5, <1>8, <1>10, <1>11 DEF Sane, t

(* The parser is done with the first k octets of s, and t is the rest.     *)
Drops(t, s, k) ==
    /\ k \in 0 .. Len(s)
    /\ t \in Seq(StreamOctets) /\ Len(t) = Len(s) - k
    /\ \A i \in 1 .. Len(t) : t[i] = s[i + k]

LEMMA FrameOfRest ==
    ASSUME NEW s \in Seq(StreamOctets), NEW t, NEW k, Drops(t, s, k),
           NEW x \in Bodies, NEW m \in 1 .. Len(t), FrameAt(t, m, x)
    PROVE  FrameAt(s, m + k, x)
<1>1. /\ Len(s) \in Nat /\ Len(t) \in Nat /\ k \in Nat /\ k <= Len(s) /\ Len(t) = Len(s) - k
      /\ \A i \in 1 .. Len(t) : t[i] = s[i + k]
  BY LenProperties DEF Drops
<1>2. Len(x) \in Nat /\ m + 4 + Len(x) <= Len(t)
  BY BodyType DEF FrameAt, EndAt
<1>3. /\ \A i \in 1 .. 4 : t[m + i - 1].value = Magic[i]
      /\ \A i \in 1 .. Len(x) : t[m + 3 + i] = x[i]
      /\ t[m + 4 + Len(x)] = Crc(x)
  BY DEF FrameAt, EndAt
<1>4. \A i \in 1 .. 4 : s[m + k + i - 1].value = Magic[i]
  <2> SUFFICES ASSUME NEW i \in 1 .. 4 PROVE s[m + k + i - 1].value = Magic[i]
    OBVIOUS
  <2>1. m + i - 1 \in 1 .. Len(t) /\ (m + i - 1) + k = m + k + i - 1
    BY <1>1, <1>2
  <2>2. t[m + i - 1] = s[(m + i - 1) + k]
    BY <1>1, <2>1
  <2> QED
    BY <1>3, <2>1, <2>2
<1>5. \A i \in 1 .. Len(x) : s[m + k + 3 + i] = x[i]
  <2> SUFFICES ASSUME NEW i \in 1 .. Len(x) PROVE s[m + k + 3 + i] = x[i]
    OBVIOUS
  <2>1. m + 3 + i \in 1 .. Len(t) /\ (m + 3 + i) + k = m + k + 3 + i
    BY <1>1, <1>2
  <2>2. t[m + 3 + i] = s[(m + 3 + i) + k]
    BY <1>1, <2>1
  <2> QED
    BY <1>3, <2>1, <2>2
<1>6. s[m + k + 4 + Len(x)] = Crc(x) /\ m + k + 4 + Len(x) <= Len(s)
  <2>1. /\ m + 4 + Len(x) \in 1 .. Len(t) /\ (m + 4 + Len(x)) + k = m + k + 4 + Len(x)
        /\ m + k + 4 + Len(x) <= Len(s)
    BY <1>1, <1>2
  <2>2. t[m + 4 + Len(x)] = s[(m + 4 + Len(x)) + k]
    BY <1>1, <2>1
  <2> QED
    BY <1>3, <2>1, <2>2
<1> QED
  BY <1>4, <1>5, <1>6 DEF FrameAt, EndAt

(* The frames that end among the first k octets of s are handed on.        *)
Takes(out, s, k) ==
    /\ out \in Seq(Bodies) /\ Rising(out)
    /\ \A j \in 1 .. Len(out) :
          \E m \in 1 .. Len(s) : FrameAt(s, m, out[j]) /\ EndAt(m, out[j]) <= k

LEMMA TakenIs ==
    ASSUME NEW s, NEW got, NEW sent, NEW n, Sane(s, got, sent, n),
           NEW out, NEW k \in Nat, Takes(out, s, k), NEW j \in 1 .. Len(out)
    PROVE  \E c \in 1 .. Len(s) :
             /\ c <= k /\ s[c].of = out[j] /\ out[j] # <<>>
             /\ out[j] \in Bodies /\ NumberOf(out[j]) \in Nat /\ NumberOf(out[j]) < n
             /\ \A i \in 1 .. Len(got) : NumberOf(got[i]) < NumberOf(out[j])
             /\ \E i \in 1 .. Len(sent) : out[j] = sent[i]
<1>1. s \in Seq(StreamOctets) /\ Len(s) \in Nat
  BY LenProperties DEF Sane
<1>2. PICK m \in 1 .. Len(s) : FrameAt(s, m, out[j]) /\ EndAt(m, out[j]) <= k
  BY DEF Takes
<1>3. out[j] \in Bodies
  BY ElementOfSeq DEF Takes
<1> DEFINE c == EndAt(m, out[j])
<1>4. Len(out[j]) \in Nat /\ c = m + 4 + Len(out[j]) /\ c <= Len(s) /\ s[c] = Crc(out[j])
  BY <1>2, <1>3, BodyType DEF EndAt, FrameAt
<1> DEFINE l == Len(out[j])
<1>5. c \in 1 .. Len(s) /\ m \in 1 .. c
  <2>1. m \in Nat /\ m >= 1 /\ Len(s) \in Nat
    BY <1>1
  <2>2. l \in Nat /\ c = m + 4 + l /\ c <= Len(s)
    BY <1>4
  <2> HIDE DEF c, l
  <2> QED
    BY <2>1, <2>2
<1>6. s[c].of = out[j] /\ out[j] # <<>> /\ NumberOf(out[j]) \in Nat
  BY <1>3, <1>4, EncodeIs, BodyType
<1>7. EndAt(m, s[c].of) = c /\ FrameAt(s, m, s[c].of)
  BY <1>2, <1>6
<1> HIDE DEF c
<1>8. /\ NumberOf(s[c].of) < n
      /\ \A i \in 1 .. Len(got) : NumberOf(got[i]) < NumberOf(s[c].of)
      /\ \A q \in 1 .. c : EndAt(q, s[c].of) = c /\ FrameAt(s, q, s[c].of) =>
            \E i \in 1 .. Len(sent) : s[c].of = sent[i]
  BY <1>5, <1>6 DEF Sane
<1>9. \E i \in 1 .. Len(sent) : out[j] = sent[i]
  BY <1>5, <1>6, <1>7, <1>8
<1>10. c <= k
  BY <1>2 DEF c
<1> QED
  BY <1>3, <1>5, <1>6, <1>8, <1>9, <1>10

LEMMA TakeGot ==
    ASSUME NEW s, NEW got, NEW sent, NEW n, Sane(s, got, sent, n),
           NEW out, NEW k \in Nat, Takes(out, s, k)
    PROVE  /\ got \o out \in Seq(Bodies) /\ Rising(got \o out)
           /\ Len(got \o out) = Len(got) + Len(out)
           /\ \A i \in 1 .. Len(got) : (got \o out)[i] = got[i]
           /\ \A i \in 1 .. Len(out) : (got \o out)[Len(got) + i] = out[i]
           /\ \A i \in 1 .. Len(got \o out) :
                 \/ i \in 1 .. Len(got) /\ (got \o out)[i] = got[i]
                 \/ i - Len(got) \in 1 .. Len(out) /\ (got \o out)[i] = out[i - Len(got)]
           /\ \A i \in 1 .. Len(got \o out) :
                 \E j \in 1 .. Len(sent) : (got \o out)[i] = sent[j]
<1> DEFINE all == got \o out
<1>1. /\ got \in Seq(Bodies) /\ out \in Seq(Bodies) /\ Rising(got) /\ Rising(out)
      /\ \A i \in 1 .. Len(got) : \E j \in 1 .. Len(sent) : got[i] = sent[j]
  BY DEF Sane, Takes
<1>2. Len(got) \in Nat /\ Len(out) \in Nat
  BY <1>1, LenProperties
<1>3. /\ all \in Seq(Bodies) /\ Len(all) = Len(got) + Len(out)
      /\ \A i \in 1 .. (Len(got) + Len(out)) :
            all[i] = IF i <= Len(got) THEN got[i] ELSE out[i - Len(got)]
  BY <1>1, ConcatProperties
<1> HIDE DEF all
<1>4. ASSUME NEW i \in 1 .. Len(all)
      PROVE  \/ i \in 1 .. Len(got) /\ all[i] = got[i]
             \/ i > Len(got) /\ i - Len(got) \in 1 .. Len(out) /\ all[i] = out[i - Len(got)]
  BY <1>2, <1>3
<1>5. \A i \in 1 .. Len(got) : all[i] = got[i]
  BY <1>2, <1>3
<1>6. \A i \in 1 .. Len(out) : all[Len(got) + i] = out[i]
  <2> SUFFICES ASSUME NEW i \in 1 .. Len(out) PROVE all[Len(got) + i] = out[i]
    OBVIOUS
  <2>1. /\ Len(got) + i \in 1 .. (Len(got) + Len(out)) /\ ~(Len(got) + i <= Len(got))
        /\ (Len(got) + i) - Len(got) = i
    BY <1>2
  <2>2. all[Len(got) + i] = out[(Len(got) + i) - Len(got)]
    BY <1>3, <2>1
  <2> QED
    BY <2>1, <2>2
<1>7. \A j \in 1 .. Len(out) : /\ \A i \in 1 .. Len(got) : NumberOf(got[i]) < NumberOf(out[j])
                               /\ \E i \in 1 .. Len(sent) : out[j] = sent[i]
  BY TakenIs
<1>8. ASSUME NEW i \in 1 .. Len(all) PROVE \E j \in 1 .. Len(sent) : all[i] = sent[j]
  BY <1>1, <1>4, <1>7
<1>9. ASSUME NEW i \in 1 .. Len(all), NEW j \in 1 .. Len(all), i < j
      PROVE  NumberOf(all[i]) < NumberOf(all[j])
  <2>1. CASE j <= Len(got)
    <3>1. i \in 1 .. Len(got) /\ j \in 1 .. Len(got)
      BY <1>2, <1>9, <2>1
    <3> QED
      BY <1>1, <1>5, <1>9, <3>1 DEF Rising
  <2>2. CASE i <= Len(got) /\ ~(j <= Len(got))
    <3>1. i \in 1 .. Len(got) /\ all[i] = got[i]
      BY <1>2, <1>5, <2>2
    <3>2. j - Len(got) \in 1 .. Len(out) /\ all[j] = out[j - Len(got)]
      BY <1>4, <2>2
    <3> QED
      BY <1>7, <3>1, <3>2
  <2>3. CASE ~(i <= Len(got)) /\ ~(j <= Len(got))
    <3>1. i - Len(got) \in 1 .. Len(out) /\ all[i] = out[i - Len(got)]
      BY <1>4, <2>3
    <3>2. j - Len(got) \in 1 .. Len(out) /\ all[j] = out[j - Len(got)]
      BY <1>4, <2>3
    <3>3. i - Len(got) < j - Len(got)
      BY <1>2, <1>9
    <3> QED
      BY <1>1, <3>1, <3>2, <3>3 DEF Rising
  <2> QED
    BY <1>2, <1>9, <2>1, <2>2, <2>3
<1>10. Rising(all)
  BY <1>9 DEF Rising
<1>11. /\ all \in Seq(Bodies) /\ Rising(all) /\ Len(all) = Len(got) + Len(out)
       /\ \A i \in 1 .. Len(all) :
             \/ i \in 1 .. Len(got) /\ all[i] = got[i]
             \/ i - Len(got) \in 1 .. Len(out) /\ all[i] = out[i - Len(got)]
  BY <1>3, <1>4, <1>10
<1> QED
  BY <1>5, <1>6, <1>8, <1>11 DEF all

LEMMA TakeKeeps ==
    ASSUME NEW s, NEW got, NEW sent, NEW n, Sane(s, got, sent, n),
           NEW t, NEW k, Drops(t, s, k), NEW out, Takes(out, s, k)
    PROVE  Sane(t, got \o out, sent, n)
<1>1. /\ s \in Seq(StreamOctets) /\ sent \in Seq(Bodies) /\ n \in Nat
      /\ Rising(sent) /\ Ordered(s)
      /\ \A i \in 1 .. Len(sent) : NumberOf(sent[i]) < n
  BY DEF Sane
<1>2. /\ t \in Seq(StreamOctets) /\ Len(s) \in Nat /\ Len(t) \in Nat
      /\ k \in Nat /\ k <= Len(s) /\ Len(t) = Len(s) - k
      /\ \A i \in 1 .. Len(t) : t[i] = s[i + k]
  BY <1>1, LenProperties DEF Drops
<1> DEFINE all == got \o out
<1>3. /\ all \in Seq(Bodies) /\ Rising(all)
      /\ \A i \in 1 .. Len(all) :
             \/ i \in 1 .. Len(got) /\ all[i] = got[i]
             \/ i - Len(got) \in 1 .. Len(out) /\ all[i] = out[i - Len(got)]
      /\ \A i \in 1 .. Len(all) : \E j \in 1 .. Len(sent) : all[i] = sent[j]
  BY <1>2, TakeGot
<1> HIDE DEF all
<1>4. ASSUME NEW c \in 1 .. Len(t)
      PROVE  c + k \in 1 .. Len(s) /\ t[c] = s[c + k] /\ k < c + k
  BY <1>2
<1>5. Ordered(t)
  <2> SUFFICES ASSUME NEW c \in 1 .. Len(t), NEW d \in 1 .. Len(t), c < d,
                      t[c].of # <<>>, t[d].of # <<>>
               PROVE  NumberOf(t[c].of) < NumberOf(t[d].of)
    BY DEF Ordered
  <2>1. c + k \in 1 .. Len(s) /\ t[c] = s[c + k] /\ d + k \in 1 .. Len(s) /\ t[d] = s[d + k]
    BY <1>4
  <2>2. c + k < d + k
    BY <1>2
  <2> QED
    BY <1>1, <2>1, <2>2 DEF Ordered
<1>6. ASSUME NEW c \in 1 .. Len(t), t[c].of # <<>>
      PROVE  /\ NumberOf(t[c].of) < n
             /\ \A i \in 1 .. Len(all) : NumberOf(all[i]) < NumberOf(t[c].of)
             /\ \A m \in 1 .. c : EndAt(m, t[c].of) = c /\ FrameAt(t, m, t[c].of) =>
                   \E j \in 1 .. Len(sent) : t[c].of = sent[j]
  <2> DEFINE d == c + k
             x == t[c].of
  <2>1. d \in 1 .. Len(s) /\ s[d].of = x /\ x # <<>> /\ k < d
    BY <1>4, <1>6
  <2>2. x \in Bodies
    BY <1>1, <2>1, StreamType
  <2> HIDE DEF d
  <2>3. /\ NumberOf(x) < n
        /\ \A i \in 1 .. Len(got) : NumberOf(got[i]) < NumberOf(x)
        /\ \A m \in 1 .. d : EndAt(m, x) = d /\ FrameAt(s, m, x) =>
               \E j \in 1 .. Len(sent) : x = sent[j]
    BY <2>1 DEF Sane
  <2> HIDE DEF x
  <2>4. ASSUME NEW j \in 1 .. Len(out) PROVE NumberOf(out[j]) < NumberOf(x)
    <3>1. k \in Nat
      BY <1>2
    <3>2. PICK e \in 1 .. Len(s) : e <= k /\ s[e].of = out[j] /\ out[j] # <<>>
      BY <3>1, TakenIs
    <3>3. e < d
      BY <1>2, <2>1, <3>2
    <3> QED
      BY <1>1, <2>1, <3>2, <3>3 DEF Ordered
  <2>5. \A i \in 1 .. Len(all) : NumberOf(all[i]) < NumberOf(x)
    BY <1>3, <2>3, <2>4
  <2>6. ASSUME NEW m \in 1 .. c, EndAt(m, x) = c, FrameAt(t, m, x)
        PROVE  \E j \in 1 .. Len(sent) : x = sent[j]
    <3>1. m \in 1 .. Len(t)
      BY <1>2
    <3>2. FrameAt(s, m + k, x)
      BY <1>1, <2>2, <2>6, <3>1, FrameOfRest
    <3>3. m + k \in 1 .. d /\ EndAt(m + k, x) = d
      <4>1. Len(x) \in Nat /\ m + 4 + Len(x) = c
        BY <2>2, <2>6, BodyType DEF EndAt
      <4>2. m \in Nat /\ m >= 1 /\ m <= c /\ c \in Nat
        BY <1>2
      <4> DEFINE l == Len(x)
      <4>3. l \in Nat /\ m + 4 + l = c /\ k \in Nat
        BY <1>2, <4>1
      <4> HIDE DEF l
      <4>4. m + k \in 1 .. (c + k) /\ m + k + 4 + l = c + k
        BY <4>2, <4>3
      <4> QED
        BY <4>4 DEF d, EndAt, l
    <3> QED
      BY <2>3, <3>2, <3>3
  <2> QED
    BY <2>3, <2>5, <2>6 DEF x
<1> QED
  BY <1>1, <1>2, <1>3, <1>5, <1>6 DEF Sane, all
-----------------------------------------------------------------------------
(* The browser's parser.                                                   *)
LEMMA Least ==
    ASSUME NEW T \in SUBSET Nat, T # {}
    PROVE  \E n \in T : \A m \in T : n <= m
<1>1. PICK n \in T : \A m \in T : ~(<<m, n>> \in OpToRel(<, Nat))
  BY WFMin, NatLessThanWellFounded
<1>2. ASSUME NEW m \in T PROVE n <= m
  <2>1. ~(m < n)
    BY <1>1 DEF OpToRel
  <2> QED
    BY <2>1
<1> QED
  BY <1>2

(* Where the next magic is.                                                *)
NextMagic(s, k, m) ==
    /\ m \in Nat /\ k <= m /\ m <= Len(s) - 3
    /\ \A i \in 1 .. 4 : s[m + i - 1].value = Magic[i]
    /\ \A p \in Found(s, k) : m <= p

LEMMA FirstFound ==
    ASSUME NEW s \in Seq(StreamOctets), NEW k \in 1 .. (Len(s) + 1), Found(s, k) # {}
    PROVE  NextMagic(s, k, Min(Found(s, k)))
<1>1. Len(s) \in Nat
  BY LenProperties
<1>2. Found(s, k) \in SUBSET Nat
  BY <1>1 DEF Found
<1>3. \E m \in Found(s, k) : \A p \in Found(s, k) : m <= p
  BY <1>2, Least
<1>4. /\ Min(Found(s, k)) \in Found(s, k)
      /\ \A p \in Found(s, k) : Min(Found(s, k)) <= p
  BY <1>3 DEF Min
<1>5. ASSUME NEW m \in Found(s, k), \A p \in Found(s, k) : m <= p
      PROVE  NextMagic(s, k, m)
  <2>1. m \in k .. (Len(s) - 3) /\ \A i \in 1 .. 4 : s[m + i - 1].value = Magic[i]
    BY DEF Found
  <2>2. m \in Nat /\ k <= m /\ m <= Len(s) - 3
    BY <1>1, <2>1
  <2> QED
    BY <1>5, <2>1, <2>2 DEF NextMagic
<1> QED
  BY <1>4, <1>5

(* A false frame is skipped by one octet, a frame as a whole.              *)
LEMMA DeliverIs ==
    ASSUME NEW s \in Seq(StreamOctets), NEW k \in 1 .. (Len(s) + 1), NEW m,
           NextMagic(s, k, m), Verdict(s, m) = "deliver"
    PROVE  /\ After(s, m) \in Nat /\ After(s, m) = m + 8 + s[m + 6].value
           /\ s[m + 6].value \in Nat /\ s[m + 6].value <= MaxPayload
           /\ m + 8 <= After(s, m) /\ After(s, m) <= Len(s) + 1
           /\ CrcMatches(SubSeq(s, m, After(s, m) - 1))
<1>1. m \in Nat /\ Len(s) \in Nat /\ m >= 1
  BY LenProperties DEF NextMagic
<1>2. /\ ~(Len(s) - m + 1 < HeaderLen) /\ ~Malformed(s, m) /\ ~(After(s, m) > Len(s) + 1)
      /\ CrcMatches(SubSeq(s, m, After(s, m) - 1))
  BY DEF Verdict
<1>3. m + HeaderLen - 1 = m + 6 /\ m + 6 \in 1 .. Len(s)
  BY <1>1, <1>2 DEF HeaderLen
<1>4. s[m + 6].value \in Nat
  BY <1>3, StreamType
<1>5. ~(s[m + 6].value > MaxPayload)
  BY <1>2, <1>3 DEF Malformed, TooLong
<1>6. After(s, m) = m + 8 + s[m + 6].value
  BY <1>1, <1>3, <1>4 DEF After, Overhead, HeaderLen
<1>7. ~(m + 8 + s[m + 6].value > Len(s) + 1)
  BY <1>2, <1>6
<1> DEFINE v == s[m + 6].value
<1>8. v \in Nat /\ ~(v > MaxPayload) /\ ~(m + 8 + v > Len(s) + 1) /\ After(s, m) = m + 8 + v
  BY <1>4, <1>5, <1>6, <1>7
<1> HIDE DEF v
<1>9. /\ After(s, m) \in Nat /\ After(s, m) = m + 8 + v /\ v \in Nat /\ v <= MaxPayload
      /\ m + 8 <= After(s, m) /\ After(s, m) <= Len(s) + 1
  BY <1>1, <1>8, FramingAssumption
<1> QED
  BY <1>2, <1>9 DEF v

(* What a turn does.                                                       *)
TurnDoes(R, f, s, k) ==
    \/ Len(s) - k + 1 < 8 /\ R = Stop(k)
    \/ ~(Len(s) - k + 1 < 8) /\ Found(s, k) = {} /\ R = Stop(Len(s) - 2)
    \/ \E m \in Nat :
         /\ ~(Len(s) - k + 1 < 8) /\ NextMagic(s, k, m)
         /\ \/ Verdict(s, m) = "wait" /\ R = Stop(m)
            \/ Verdict(s, m) = "discard" /\ R = f[m + 1]
            \/ /\ Verdict(s, m) = "deliver"
               /\ R = [f[After(s, m)] EXCEPT
                         !.out = <<BodyOf(SubSeq(s, m, After(s, m) - 1))>> \o @]

LEMMA TurnIs ==
    ASSUME NEW s \in Seq(StreamOctets), NEW k \in 1 .. (Len(s) + 1), NEW f
    PROVE  TurnDoes(Turn(f, s, k), f, s, k)
<1>1. CASE Len(s) - k + 1 < Overhead
  BY <1>1 DEF Turn, TurnDoes, Overhead, HeaderLen
<1>2. CASE ~(Len(s) - k + 1 < Overhead) /\ Found(s, k) = {}
  BY <1>2 DEF Turn, TurnDoes, Overhead, HeaderLen
<1>3. CASE ~(Len(s) - k + 1 < Overhead) /\ Found(s, k) # {}
  <2> DEFINE m == Min(Found(s, k))
             body == BodyOf(SubSeq(s, m, After(s, m) - 1))
             delivered1 == [f[After(s, m)] EXCEPT !.out = <<body>> \o @]
  <2>1. NextMagic(s, k, m) /\ m \in Nat
    BY <1>3, FirstFound DEF NextMagic
  <2>2. Verdict(s, m) \in {"wait", "discard", "deliver"}
    BY DEF Verdict
  <2>3. Turn(f, s, k) = CASE Verdict(s, m) = "wait" -> Stop(m)
                          [] Verdict(s, m) = "discard" -> f[Skip(s, m)]
                          [] Verdict(s, m) = "deliver" -> delivered1
    BY <1>3 DEF Turn
  <2>4. ~(Len(s) - k + 1 < 8)
    BY <1>3 DEF Overhead, HeaderLen
  <2> HIDE DEF delivered1, m
  <2>5. CASE Verdict(s, m) = "wait"
    <3>1. Turn(f, s, k) = Stop(m)
      BY <2>3, <2>5
    <3> QED
      BY <2>1, <2>4, <2>5, <3>1 DEF TurnDoes
  <2>6. CASE Verdict(s, m) = "discard"
    <3>1. Turn(f, s, k) = f[m + 1]
      BY <2>3, <2>6 DEF Skip
    <3> QED
      BY <2>1, <2>4, <2>6, <3>1 DEF TurnDoes
  <2>7. CASE Verdict(s, m) = "deliver"
    <3>1. Turn(f, s, k) = delivered1
      BY <2>3, <2>7
    <3> QED
      BY <2>1, <2>4, <2>7, <3>1 DEF TurnDoes, delivered1
  <2> QED
    BY <2>2, <2>5, <2>6, <2>7
<1> QED
  BY <1>1, <1>2, <1>3

(* A turn at k uses what f is at later positions only.                     *)
LEMMA TurnLocal ==
    ASSUME NEW s \in Seq(StreamOctets), NEW k \in 1 .. (Len(s) + 1), NEW f, NEW g,
           \A i \in 1 .. (Len(s) + 1) : i > k => f[i] = g[i]
    PROVE  Turn(f, s, k) = Turn(g, s, k)
<1>1. Len(s) \in Nat
  BY LenProperties
<1>2. CASE Len(s) - k + 1 < Overhead \/ Found(s, k) = {}
  BY <1>2 DEF Turn
<1>3. CASE ~(Len(s) - k + 1 < Overhead) /\ Found(s, k) # {}
  <2> DEFINE m == Min(Found(s, k))
             body == BodyOf(SubSeq(s, m, After(s, m) - 1))
  <2>1. NextMagic(s, k, m)
    BY <1>3, FirstFound
  <2>2. m \in Nat /\ k <= m /\ m <= Len(s) - 3
    BY <2>1 DEF NextMagic
  <2> HIDE DEF m
  <2>3. m + 1 \in 1 .. (Len(s) + 1) /\ m + 1 > k
    BY <1>1, <2>2
  <2>4. f[Skip(s, m)] = g[Skip(s, m)]
    BY <2>3 DEF Skip
  <2>5. Verdict(s, m) = "deliver" => f[After(s, m)] = g[After(s, m)]
    <3> SUFFICES ASSUME Verdict(s, m) = "deliver" PROVE f[After(s, m)] = g[After(s, m)]
      OBVIOUS
    <3>1. After(s, m) \in Nat /\ m + 8 <= After(s, m) /\ After(s, m) <= Len(s) + 1
      BY <2>1, DeliverIs
    <3>2. After(s, m) \in 1 .. (Len(s) + 1) /\ After(s, m) > k
      BY <1>1, <2>2, <3>1
    <3> QED
      BY <3>2
  <2>6. Verdict(s, m) \in {"wait", "discard", "deliver"}
    BY DEF Verdict
  <2>7. \A h : Turn(h, s, k) =
                 CASE Verdict(s, m) = "wait" -> Stop(m)
                   [] Verdict(s, m) = "discard" -> h[Skip(s, m)]
                   [] Verdict(s, m) = "deliver" ->
                        [h[After(s, m)] EXCEPT !.out = <<body>> \o @]
    BY <1>3 DEF Turn, m
  <2> HIDE DEF body
  <2>8. CASE Verdict(s, m) = "wait"
    <3>1. \A h : Turn(h, s, k) = Stop(m)
      BY <2>7, <2>8
    <3> QED
      BY <3>1
  <2>9. CASE Verdict(s, m) = "discard"
    <3>1. \A h : Turn(h, s, k) = h[Skip(s, m)]
      BY <2>7, <2>9
    <3> QED
      BY <2>4, <3>1
  <2>10. CASE Verdict(s, m) = "deliver"
    <3>1. \A h : Turn(h, s, k) = [h[After(s, m)] EXCEPT !.out = <<body>> \o @]
      BY <2>7, <2>10
    <3> QED
      BY <2>5, <2>10, <3>1
  <2> QED
    BY <2>6, <2>8, <2>9, <2>10
<1> QED
  BY <1>2, <1>3

(* The loop comes to an end: some function is its recursion.               *)
LEMMA ScanExists ==
    ASSUME NEW s \in Seq(StreamOctets)
    PROVE  \E f : f = [k \in 1 .. (Len(s) + 1) |-> Turn(f, s, k)]
<1> DEFINE N == Len(s) + 1
           Upto(f, j) == /\ f = [k \in 1 .. N |-> f[k]]
                         /\ \A k \in 1 .. N : k > N - j => f[k] = Turn(f, s, k)
           Bad == {j \in 0 .. N : ~\E f : Upto(f, j)}
<1>1. N \in Nat /\ N >= 1
  BY LenProperties
<1> HIDE DEF N
<1>2. \E f : Upto(f, 0)
  <2> DEFINE f == [k \in 1 .. N |-> 0]
  <2>1. \A k \in 1 .. N : ~(k > N - 0)
    BY <1>1
  <2>2. f = [k \in 1 .. N |-> f[k]]
    OBVIOUS
  <2>3. Upto(f, 0)
    <3> HIDE DEF f
    <3> QED
      BY <2>1, <2>2
  <2> QED
    BY <2>3
<1>3. ASSUME NEW j \in 0 .. (N - 1), NEW f, Upto(f, j)
      PROVE  \E g : Upto(g, j + 1)
  <2> DEFINE g == [k \in 1 .. N |-> IF k = N - j THEN Turn(f, s, k) ELSE f[k]]
  <2>1. \A k \in 1 .. N : g[k] = IF k = N - j THEN Turn(f, s, k) ELSE f[k]
    OBVIOUS
  <2>2. g = [k \in 1 .. N |-> g[k]]
    OBVIOUS
  <2> HIDE DEF g
  <2>3. ASSUME NEW k \in 1 .. N, k > N - (j + 1) PROVE g[k] = Turn(g, s, k)
    <3>1. \A i \in 1 .. N : i > k => f[i] = g[i]
      <4> SUFFICES ASSUME NEW i \in 1 .. N, i > k PROVE f[i] = g[i]
        OBVIOUS
      <4>1. i # N - j
        BY <1>1, <2>3
      <4> QED
        BY <2>1, <4>1
    <3>2. Turn(f, s, k) = Turn(g, s, k)
      BY <3>1, TurnLocal DEF N
    <3>3. CASE k = N - j
      BY <2>1, <3>2, <3>3
    <3>4. CASE k # N - j
      <4>1. k > N - j
        BY <1>1, <2>3, <3>4
      <4>2. f[k] = Turn(f, s, k)
        BY <1>3, <4>1
      <4> QED
        BY <2>1, <3>2, <3>4, <4>2
    <3> QED
      BY <3>3, <3>4
  <2>4. Upto(g, j + 1)
    BY <2>2, <2>3
  <2> HIDE DEF Upto
  <2> QED
    BY <2>4
<1> HIDE DEF Upto
<1>4. Bad = {}
  <2> SUFFICES ASSUME Bad # {} PROVE FALSE
    OBVIOUS
  <2>1. PICK j \in Bad : \A i \in Bad : j <= i
    <3>1. Bad \in SUBSET Nat
      BY <1>1
    <3> HIDE DEF Bad
    <3> QED
      BY <3>1, Least
  <2>2. j \in 0 .. N /\ ~\E f : Upto(f, j)
    OBVIOUS
  <2>3. j # 0
    BY <1>2, <2>2
  <2>4. j - 1 \in 0 .. (N - 1) /\ (j - 1) + 1 = j /\ j - 1 \in 0 .. N /\ ~(j <= j - 1)
    BY <1>1, <2>2, <2>3
  <2>5. \E f : Upto(f, j - 1)
    BY <2>1, <2>4
  <2> HIDE DEF Bad
  <2>6. \E g : Upto(g, (j - 1) + 1)
    BY <1>3, <2>4, <2>5
  <2> QED
    BY <2>2, <2>4, <2>6
<1>5. N \in 0 .. N
  BY <1>1
<1>6. PICK f : Upto(f, N)
  BY <1>4, <1>5
<1>7. \A k \in 1 .. N : f[k] = Turn(f, s, k)
  <2>1. \A k \in 1 .. N : k > N - N
    BY <1>1
  <2> QED
    BY <1>6, <2>1 DEF Upto
<1>8. f = [k \in 1 .. N |-> Turn(f, s, k)]
  BY <1>6, <1>7 DEF Upto
<1> QED
  BY <1>8 DEF N

LEMMA ScanIs ==
    ASSUME NEW s \in Seq(StreamOctets)
    PROVE  \E f : /\ Scan(s) = f[1]
                  /\ \A k \in 1 .. (Len(s) + 1) : f[k] = Turn(f, s, k)
<1> DEFINE f == CHOOSE g : g = [k \in 1 .. (Len(s) + 1) |-> Turn(g, s, k)]
<1>1. f = [k \in 1 .. (Len(s) + 1) |-> Turn(f, s, k)]
  BY ScanExists
<1>2. Scan(s) = f[1]
  BY DEF Scan
<1> HIDE DEF f
<1>3. \A k \in 1 .. (Len(s) + 1) : f[k] = Turn(f, s, k)
  BY <1>1
<1> QED
  BY <1>2, <1>3

(* A window of s, from a magic at m to where its length says a CRC is.     *)
Window(frame, s, m, v) ==
    /\ BodyOf(frame) \in Seq(StreamOctets) /\ Len(BodyOf(frame)) = 3 + v
    /\ \A i \in 1 .. (3 + v) : BodyOf(frame)[i] = s[m + 3 + i]
    /\ frame[Len(frame)] = s[m + 7 + v]

LEMMA WindowIs ==
    ASSUME NEW s \in Seq(StreamOctets), NEW m \in Nat, m >= 1, NEW v \in Nat,
           m + 8 + v <= Len(s) + 1, NEW e, e = m + 7 + v
    PROVE  Window(SubSeq(s, m, e), s, m, v)
<1> DEFINE frame == SubSeq(s, m, e)
<1>1. Len(s) \in Nat /\ e = m + 7 + v /\ m <= m + 7 + v
      /\ m \in Int /\ m + 7 + v \in Int
  BY LenProperties
<1>2. \A i \in m .. (m + 7 + v) : i \in 1 .. Len(s) /\ s[i] \in StreamOctets
  <2> SUFFICES ASSUME NEW i \in m .. (m + 7 + v)
               PROVE  i \in 1 .. Len(s) /\ s[i] \in StreamOctets
    OBVIOUS
  <2>1. i \in 1 .. Len(s)
    BY <1>1
  <2> QED
    BY <2>1, StreamType
<1>3. /\ frame \in Seq(StreamOctets)
      /\ Len(frame) = IF m <= m + 7 + v THEN m + 7 + v - m + 1 ELSE 0
      /\ \A i \in 1 .. (m + 7 + v - m + 1) : frame[i] = s[m + i - 1]
  <2> DEFINE window == SubSeq(s, m, m + 7 + v)
  <2>1. /\ window \in Seq(StreamOctets)
        /\ Len(window) = IF m <= m + 7 + v THEN m + 7 + v - m + 1 ELSE 0
        /\ \A i \in 1 .. (m + 7 + v - m + 1) : window[i] = s[m + i - 1]
    BY <1>1, <1>2, SubSeqProperties
  <2>2. frame = window
    BY <1>1
  <2> HIDE DEF frame, window
  <2> QED
    BY <2>1, <2>2
<1> HIDE DEF frame
<1>4. Len(frame) = 8 + v
  BY <1>1, <1>3
<1>5. \A i \in 1 .. (8 + v) : frame[i] = s[m + i - 1]
  <2>1. m + 7 + v - m + 1 = 8 + v
    BY <1>1
  <2> QED
    BY <1>3, <2>1
<1>6. \A i \in 5 .. (7 + v) : i \in 1 .. Len(frame) /\ frame[i] \in StreamOctets
  <2> SUFFICES ASSUME NEW i \in 5 .. (7 + v)
               PROVE  i \in 1 .. Len(frame) /\ frame[i] \in StreamOctets
    OBVIOUS
  <2>1. i \in 1 .. Len(frame)
    BY <1>4
  <2> QED
    BY <1>3, <2>1, StreamType
<1>7. BodyOf(frame) = SubSeq(frame, 5, 7 + v)
  <2>1. Len(frame) - 1 = 7 + v
    BY <1>4
  <2> QED
    BY <2>1 DEF BodyOf
<1>8. 5 \in Int /\ 7 + v \in Int
  OBVIOUS
<1>9. /\ SubSeq(frame, 5, 7 + v) \in Seq(StreamOctets)
      /\ Len(SubSeq(frame, 5, 7 + v)) = IF 5 <= 7 + v THEN 7 + v - 5 + 1 ELSE 0
      /\ \A i \in 1 .. (7 + v - 5 + 1) : SubSeq(frame, 5, 7 + v)[i] = frame[5 + i - 1]
  BY <1>6, <1>8, SubSeqProperties
<1>10. BodyOf(frame) \in Seq(StreamOctets) /\ Len(BodyOf(frame)) = 3 + v
  BY <1>7, <1>9
<1>11. ASSUME NEW i \in 1 .. (3 + v) PROVE BodyOf(frame)[i] = s[m + 3 + i]
  <2>1. /\ i \in 1 .. (7 + v - 5 + 1) /\ 5 + i - 1 = 4 + i
        /\ 4 + i \in 1 .. (8 + v) /\ m + (4 + i) - 1 = m + 3 + i
    OBVIOUS
  <2>2. BodyOf(frame)[i] = frame[4 + i]
    BY <1>7, <1>9, <2>1
  <2>3. frame[4 + i] = s[m + (4 + i) - 1]
    BY <1>5, <2>1
  <2> QED
    BY <2>1, <2>2, <2>3
<1>12. frame[Len(frame)] = s[m + 7 + v]
  <2>1. 8 + v \in 1 .. (8 + v) /\ m + (8 + v) - 1 = m + 7 + v
    OBVIOUS
  <2>2. frame[8 + v] = s[m + (8 + v) - 1]
    BY <1>5, <2>1
  <2> QED
    BY <1>4, <2>1, <2>2
<1> QED
  BY <1>10, <1>11, <1>12 DEF Window, frame

(* What is delivered is the body of the frame at the magic.                *)
LEMMA DeliveredIs ==
    ASSUME NEW s \in Seq(StreamOctets), NEW k \in 1 .. (Len(s) + 1), NEW m,
           NextMagic(s, k, m), Verdict(s, m) = "deliver"
    PROVE  LET body == BodyOf(SubSeq(s, m, After(s, m) - 1)) IN
           body \in Bodies /\ FrameAt(s, m, body) /\ EndAt(m, body) = After(s, m) - 1
<1> DEFINE frame == SubSeq(s, m, After(s, m) - 1)
           body == BodyOf(frame)
           v == s[m + 6].value
<1>1. m \in Nat /\ m >= 1 /\ Len(s) \in Nat
      /\ \A i \in 1 .. 4 : s[m + i - 1].value = Magic[i]
  BY LenProperties DEF NextMagic
<1>2. /\ After(s, m) = m + 8 + v /\ v \in Nat /\ m + 8 + v <= Len(s) + 1
      /\ CrcMatches(frame)
  BY DeliverIs
<1> HIDE DEF v
<1>3. /\ body \in Seq(StreamOctets) /\ Len(body) = 3 + v
      /\ \A i \in 1 .. (3 + v) : body[i] = s[m + 3 + i]
      /\ frame[Len(frame)] = s[m + 7 + v]
  <2> DEFINE e == After(s, m) - 1
  <2>1. e = m + 7 + v
    BY <1>1, <1>2
  <2> HIDE DEF e
  <2>2. m \in Nat /\ m >= 1 /\ v \in Nat /\ m + 8 + v <= Len(s) + 1
    BY <1>1, <1>2
  <2>3. Window(SubSeq(s, m, e), s, m, v)
    BY <2>1, <2>2, WindowIs
  <2> QED
    BY <2>3 DEF e, Window
<1>4. s[m + 7 + v] = Crc(body)
  BY <1>2, <1>3 DEF CrcMatches
<1> HIDE DEF body, frame
<1>5. m + 7 + v \in 1 .. Len(s)
  <2>1. v \in Nat /\ m + 8 + v <= Len(s) + 1
    BY <1>2
  <2>2. m \in Nat /\ m >= 1 /\ Len(s) \in Nat
    BY <1>1
  <2> QED
    BY <2>1, <2>2
<1>6. s[m + 7 + v].of = body /\ body # <<>>
  <2>1. Len(body) # 0
    BY <1>2, <1>3
  <2> QED
    BY <1>4, <2>1, EmptySeq DEF Crc
<1>7. body \in Bodies
  BY <1>5, <1>6, StreamType
<1>8. EndAt(m, body) = m + 7 + v /\ m + 7 + v = After(s, m) - 1
  <2>1. v \in Nat /\ m \in Nat /\ After(s, m) = m + 8 + v /\ Len(body) = 3 + v
    BY <1>1, <1>2, <1>3
  <2>2. m + 4 + (3 + v) = m + 7 + v /\ m + 7 + v = m + 8 + v - 1
    BY <2>1
  <2>3. EndAt(m, body) = m + 4 + (3 + v)
    <3>1. EndAt(m, body) = m + 4 + Len(body)
      BY DEF EndAt
    <3>2. Len(body) = 3 + v
      BY <1>3, Zenon
    <3> QED
      BY <3>1, <3>2, Zenon
  <2>4. After(s, m) - 1 = m + 8 + v - 1
    BY <2>1
  <2> QED
    BY <2>2, <2>3, <2>4
<1>9. FrameAt(s, m, body)
  <2>1. EndAt(m, body) <= Len(s)
    <3>1. m + 7 + v <= Len(s)
      BY <1>5
    <3> QED
      BY <3>1, <1>8, Zenon
  <2>2. s[EndAt(m, body)] = Crc(body)
    BY <1>4, <1>8, Zenon
  <2>3. \A i \in 1 .. Len(body) : s[m + 3 + i] = body[i]
    BY <1>3, Zenon
  <2> QED
    BY <1>1, <2>1, <2>2, <2>3 DEF FrameAt
<1> QED
  BY <1>7, <1>8, <1>9 DEF body, frame

(* A frame written at p is not taken for a false one there.                *)
LEMMA BegunMagic ==
    ASSUME NEW s \in Seq(StreamOctets), NEW b \in Bodies, NEW p \in 1 .. Len(s),
           Begins(s, p, b), p <= Len(s) - 3
    PROVE  \A i \in 1 .. 4 : s[p + i - 1].value = Magic[i]
<1> SUFFICES ASSUME NEW i \in 1 .. 4 PROVE s[p + i - 1].value = Magic[i]
  OBVIOUS
<1>1. Len(s) \in Nat /\ Len(b) \in Nat /\ Len(Encode(b)) = Len(b) + 5
  BY LenProperties, BodyType, EncodeIs
<1>2. i \in 1 .. Len(Encode(b)) /\ p + i - 1 <= Len(s)
  BY <1>1
<1>3. s[p + i - 1] = Encode(b)[i]
  BY <1>2 DEF Begins
<1>4. Encode(b)[i] = Octet(Magic[i])
  BY EncodeIs
<1> QED
  BY <1>3, <1>4 DEF Octet

LEMMA BegunVerdict ==
    ASSUME NEW s \in Seq(StreamOctets), NEW b \in Bodies, NEW p \in 1 .. Len(s),
           Begins(s, p, b), Verdict(s, p) # "wait"
    PROVE  /\ Verdict(s, p) = "deliver"
           /\ BodyOf(SubSeq(s, p, After(s, p) - 1)) = b
<1>1. /\ Len(s) \in Nat /\ Len(b) \in Nat /\ Len(b) >= 3 /\ Len(b) <= 3 + MaxPayload
      /\ Len(Encode(b)) = Len(b) + 5 /\ p \in Nat /\ p >= 1
  BY LenProperties, BodyType, EncodeIs
<1>2. \A i \in 1 .. (Len(b) + 5) : p + i - 1 <= Len(s) => s[p + i - 1] = Encode(b)[i]
  BY <1>1 DEF Begins
<1>3. ~(Len(s) - p + 1 < 7)
  BY DEF Verdict, HeaderLen
<1>4. s[p + 4].value = Version /\ s[p + 6].value = Len(b) - 3
  <2>1. /\ 5 \in 1 .. (Len(b) + 5) /\ p + 5 - 1 <= Len(s) /\ p + 5 - 1 = p + 4
        /\ 7 \in 1 .. (Len(b) + 5) /\ p + 7 - 1 <= Len(s) /\ p + 7 - 1 = p + 6
    BY <1>1, <1>3
  <2>2. s[p + 4] = Encode(b)[5] /\ s[p + 6] = Encode(b)[7]
    BY <1>2, <2>1
  <2>3. 1 \in 1 .. Len(b) /\ 3 \in 1 .. Len(b) /\ 4 + 1 = 5 /\ 4 + 3 = 7
    BY <1>1
  <2>4. Encode(b)[5] = b[1] /\ Encode(b)[7] = b[3]
    BY <2>3, EncodeIs
  <2> QED
    BY <2>2, <2>4, BodyType
<1>5. p + HeaderLen - 1 = p + 6
  BY <1>1 DEF HeaderLen
<1>6. ~Malformed(s, p)
  <2>1. ~(Len(b) - 3 > MaxPayload)
    BY <1>1, FramingAssumption
  <2> QED
    BY <1>4, <1>5, <2>1 DEF Malformed, TooLong
<1> DEFINE v == Len(b) - 3
<1>7. /\ After(s, p) = p + 8 + v /\ v \in Nat /\ Len(b) = 3 + v
      /\ p + 8 + v = p + 5 + Len(b)
  BY <1>1, <1>4, <1>5 DEF After, Overhead, HeaderLen
<1>8. p + 8 + v <= Len(s) + 1
  <2>1. ~(After(s, p) > Len(s) + 1)
    BY <1>6 DEF Verdict
  <2> QED
    BY <1>1, <1>7, <2>1
<1> DEFINE frame == SubSeq(s, p, After(s, p) - 1)
<1> HIDE DEF v
<1>9. /\ BodyOf(frame) \in Seq(StreamOctets) /\ Len(BodyOf(frame)) = 3 + v
      /\ \A i \in 1 .. (3 + v) : BodyOf(frame)[i] = s[p + 3 + i]
      /\ frame[Len(frame)] = s[p + 7 + v]
  <2> DEFINE e == After(s, p) - 1
  <2>1. e = p + 7 + v
    BY <1>1, <1>7
  <2> HIDE DEF e
  <2>2. p \in Nat /\ p >= 1 /\ v \in Nat /\ p + 8 + v <= Len(s) + 1
    BY <1>1, <1>7, <1>8
  <2>3. Window(SubSeq(s, p, e), s, p, v)
    BY <2>1, <2>2, WindowIs
  <2> QED
    BY <2>3 DEF e, Window
<1> HIDE DEF frame
<1>10. b \in Seq(StreamOctets)
  <2>1. Pure \subseteq StreamOctets
    BY DEF Pure, StreamOctets
  <2> QED
    BY <2>1, BodyType, SeqMonotonic
<1>11. ASSUME NEW i \in 1 .. Len(b) PROVE BodyOf(frame)[i] = b[i]
  <2>1. /\ 4 + i \in 1 .. (Len(b) + 5) /\ p + (4 + i) - 1 <= Len(s)
        /\ p + (4 + i) - 1 = p + 3 + i /\ i \in 1 .. (3 + v)
    BY <1>1, <1>7, <1>8
  <2>2. s[p + (4 + i) - 1] = Encode(b)[4 + i]
    BY <1>2, <2>1
  <2>3. Encode(b)[4 + i] = b[i]
    BY EncodeIs
  <2> QED
    BY <1>9, <2>1, <2>2, <2>3
<1>12. BodyOf(frame) = b
  BY <1>7, <1>9, <1>10, <1>11, SeqEqual
<1>13. frame[Len(frame)] = Crc(b)
  <2>1. /\ Len(b) + 5 \in 1 .. (Len(b) + 5) /\ p + (Len(b) + 5) - 1 <= Len(s)
        /\ p + (Len(b) + 5) - 1 = p + 7 + v
    BY <1>1, <1>7, <1>8
  <2>2. s[p + (Len(b) + 5) - 1] = Encode(b)[Len(b) + 5]
    BY <1>2, <2>1
  <2> QED
    BY <1>9, <2>1, <2>2, EncodeIs
<1>14. SubSeq(s, p, After(s, p) - 1) = frame
  BY DEF frame
<1>15. CrcMatches(SubSeq(s, p, After(s, p) - 1))
  BY <1>12, <1>13, <1>14 DEF CrcMatches
<1>16. Verdict(s, p) = "deliver"
  BY <1>6, <1>15 DEF Verdict
<1> QED
  BY <1>12, <1>14, <1>16

(* A frame taken at m ends before one written behind m: only the last      *)
(* octet of each is a CRC.                                                 *)
LEMMA Apart ==
    ASSUME NEW s \in Seq(StreamOctets), NEW x \in Bodies, NEW b \in Bodies,
           NEW m \in 1 .. Len(s), NEW p \in 1 .. Len(s),
           FrameAt(s, m, x), Begins(s, p, b), m < p
    PROVE  EndAt(m, x) < p
<1> DEFINE c == EndAt(m, x)
<1>1. Len(s) \in Nat /\ Len(x) \in Nat /\ Len(b) \in Nat /\ Len(Encode(b)) = Len(b) + 5
  BY LenProperties, BodyType, EncodeIs
<1>2. c = m + 4 + Len(x) /\ c <= Len(s) /\ s[c] = Crc(x)
      /\ \A i \in 1 .. Len(x) : s[m + 3 + i] = x[i]
  BY DEF FrameAt, EndAt
<1> HIDE DEF c
<1>3. m \in Nat /\ p \in Nat /\ m >= 1 /\ c \in Nat
  BY <1>1, <1>2
<1>4. s[c].of = x /\ s[c].of # <<>>
  BY <1>2, EncodeIs
<1>5. \A i \in 1 .. (Len(b) + 5) : p + i - 1 <= Len(s) => s[p + i - 1] = Encode(b)[i]
  BY <1>1 DEF Begins
<1> SUFFICES ASSUME ~(c < p) PROVE FALSE
  BY DEF c
<1>6. CASE c < p + 4 + Len(b)
  <2>1. /\ c - p + 1 \in 1 .. (Len(b) + 5) /\ c - p + 1 \in 1 .. (Len(b) + 4)
        /\ p + (c - p + 1) - 1 = c
    BY <1>1, <1>3, <1>6
  <2>2. s[c] = Encode(b)[c - p + 1]
    BY <1>2, <1>5, <2>1
  <2> QED
    BY <1>4, <2>1, <2>2, EncodeIs
<1>7. CASE ~(c < p + 4 + Len(b))
  <2> DEFINE d == p + 4 + Len(b)
  <2>1. /\ Len(b) + 5 \in 1 .. (Len(b) + 5) /\ p + (Len(b) + 5) - 1 = d
        /\ d <= Len(s) /\ d <= c /\ d \in Nat
    BY <1>1, <1>2, <1>3, <1>7
  <2> HIDE DEF d
  <2>2. s[d] = Crc(b) /\ s[d].of = b /\ b # <<>>
    BY <1>5, <2>1, EncodeIs
  <2>3. CASE d = c
    <3>1. x = b
      BY <1>4, <2>2, <2>3
    <3>2. m + 4 + Len(b) = p + 4 + Len(b)
      BY <1>2, <2>3, <3>1 DEF d
    <3> QED
      BY <1>1, <1>3, <3>2
  <2>4. CASE d # c
    <3> DEFINE i == d - m - 3
    <3>1. i \in 1 .. Len(x) /\ m + 3 + i = d
      <4>1. d > m + 4 /\ d < m + 4 + Len(x)
        <5>1. d < c
          BY <1>3, <2>1, <2>4
        <5>2. d > m + 4
          BY <1>1, <1>3 DEF d
        <5> QED
          BY <1>2, <5>1, <5>2
      <4> QED
        BY <1>1, <1>3, <2>1, <4>1
    <3> HIDE DEF i
    <3>2. s[d] = x[i]
      BY <1>2, <3>1
    <3>3. x[i].of = <<>>
      BY <3>1, BodyType
    <3> QED
      BY <2>2, <3>2, <3>3
  <2> QED
    BY <2>3, <2>4
<1> QED
  BY <1>6, <1>7

(* What the loop of feed() does from position k on: it hands on the frames *)
(* it finds, none that was written there stays behind, and less than one   *)
(* frame is kept.                                                          *)
Scanned(R, s, k) ==
    /\ R \in [keep : Nat, out : Seq(Bodies)]
    /\ k <= R.keep /\ R.keep <= Len(s) + 1 /\ Len(s) + 1 - R.keep < MaxFrameLen
    /\ Rising(R.out)
    /\ \A j \in 1 .. Len(R.out) :
          \E m \in k .. Len(s) : FrameAt(s, m, R.out[j]) /\ EndAt(m, R.out[j]) < R.keep
    /\ \A p \in k .. Len(s), b \in Bodies :
          Begins(s, p, b) /\ p < R.keep => \E j \in 1 .. Len(R.out) : R.out[j] = b

LEMMA StopScanned ==
    ASSUME NEW s \in Seq(StreamOctets), NEW k \in 1 .. (Len(s) + 1),
           NEW q \in Nat, k <= q, q <= Len(s) + 1, Len(s) + 1 - q < MaxFrameLen,
           \A p \in k .. Len(s), b \in Bodies : Begins(s, p, b) => ~(p < q)
    PROVE  Scanned(Stop(q), s, k)
<1>1. Stop(q).keep = q /\ Stop(q).out = <<>> /\ <<>> \in Seq(Bodies) /\ Len(<<>>) = 0
      /\ Stop(q) \in [keep : Nat, out : Seq(Bodies)]
  BY EmptySeq DEF Stop
<1> HIDE DEF Stop
<1>2. Rising(<<>>)
  BY <1>1 DEF Rising
<1>3. \A j \in 1 .. Len(<<>>) : FALSE
  BY <1>1
<1> QED
  BY <1>1, <1>2, <1>3 DEF Scanned

(* A frame written from k on is not before the next magic.                 *)
LEMMA NothingBefore ==
    ASSUME NEW s \in Seq(StreamOctets), NEW k \in 1 .. (Len(s) + 1), NEW m,
           NextMagic(s, k, m), NEW p \in k .. Len(s), NEW b \in Bodies, Begins(s, p, b)
    PROVE  m <= p
<1>1. Len(s) \in Nat /\ m \in Nat /\ m <= Len(s) - 3 /\ p \in 1 .. Len(s)
  BY LenProperties DEF NextMagic
<1>2. CASE p <= Len(s) - 3
  <2>1. \A i \in 1 .. 4 : s[p + i - 1].value = Magic[i]
    BY <1>1, <1>2, BegunMagic
  <2>2. p \in k .. (Len(s) - 3)
    BY <1>1, <1>2
  <2>3. p \in Found(s, k)
    BY <2>1, <2>2 DEF Found
  <2> QED
    BY <2>3 DEF NextMagic
<1>3. CASE ~(p <= Len(s) - 3)
  BY <1>1, <1>3
<1> QED
  BY <1>2, <1>3

(* A frame is handed on in front of those of the later turns.              *)
LEMMA DeliverScanned ==
    ASSUME NEW s \in Seq(StreamOctets), Ordered(s), NEW k \in 1 .. (Len(s) + 1), NEW m,
           NextMagic(s, k, m), NEW body \in Bodies, FrameAt(s, m, body),
           NEW a \in Nat, EndAt(m, body) = a - 1, a <= Len(s) + 1,
           \A b \in Bodies : Begins(s, m, b) => b = body,
           NEW rest, Scanned(rest, s, a)
    PROVE  Scanned([rest EXCEPT !.out = <<body>> \o @], s, k)
<1> DEFINE R == [rest EXCEPT !.out = <<body>> \o @]
           new == <<body>> \o rest.out
<1>1. /\ Len(s) \in Nat /\ m \in Nat /\ k <= m /\ m <= Len(s) - 3 /\ m \in 1 .. Len(s)
      /\ m < a /\ k \in Nat
  <2>1. Len(s) \in Nat /\ m \in Nat /\ k <= m /\ m <= Len(s) - 3
    BY LenProperties DEF NextMagic
  <2>2. Len(body) \in Nat /\ m + 4 + Len(body) = a - 1
    BY BodyType DEF EndAt
  <2> QED
    BY <2>1, <2>2
<1>2. /\ rest \in [keep : Nat, out : Seq(Bodies)]
      /\ a <= rest.keep /\ rest.keep <= Len(s) + 1 /\ Len(s) + 1 - rest.keep < MaxFrameLen
      /\ Rising(rest.out)
      /\ \A j \in 1 .. Len(rest.out) :
            \E q \in a .. Len(s) : FrameAt(s, q, rest.out[j]) /\ EndAt(q, rest.out[j]) < rest.keep
      /\ \A p \in a .. Len(s), b \in Bodies :
            Begins(s, p, b) /\ p < rest.keep => \E j \in 1 .. Len(rest.out) : rest.out[j] = b
  BY DEF Scanned
<1>3. /\ rest.keep \in Nat /\ rest.out \in Seq(Bodies) /\ Len(rest.out) \in Nat
      /\ \A j \in 1 .. Len(rest.out) : rest.out[j] \in Bodies
  BY <1>2, LenProperties, ElementOfSeq
<1>4. /\ new \in Seq(Bodies) /\ Len(new) = Len(rest.out) + 1 /\ new[1] = body
      /\ \A j \in 2 .. Len(new) : new[j] = rest.out[j - 1]
  <2>1. <<body>> \in Seq(Bodies) /\ Len(<<body>>) = 1 /\ <<body>>[1] = body
    OBVIOUS
  <2> DEFINE one == <<body>>
  <2> HIDE DEF one
  <2>2. /\ one \o rest.out \in Seq(Bodies) /\ Len(one \o rest.out) = Len(one) + Len(rest.out)
        /\ \A i \in 1 .. (Len(one) + Len(rest.out)) :
              (one \o rest.out)[i] = IF i <= Len(one) THEN one[i] ELSE rest.out[i - Len(one)]
    BY <1>3, <2>1, ConcatProperties DEF one
  <2>3. Len(one) = 1 /\ one[1] = body /\ new = one \o rest.out
    BY <2>1 DEF one
  <2> HIDE DEF new
  <2>4. Len(new) = Len(rest.out) + 1 /\ new[1] = body
    BY <1>3, <2>2, <2>3
  <2>5. \A j \in 2 .. Len(new) : new[j] = rest.out[j - 1]
    BY <1>3, <2>2, <2>3, <2>4
  <2> QED
    BY <2>2, <2>3, <2>4, <2>5
<1>5. R.keep = rest.keep /\ R.out = new /\ R \in [keep : Nat, out : Seq(Bodies)]
  <2> HIDE DEF new
  <2>1. R = [rest EXCEPT !.out = new]
    BY DEF new
  <2> HIDE DEF R
  <2> QED
    BY <1>2, <1>4, <2>1
<1> HIDE DEF R, new
<1>6. ASSUME NEW j \in 1 .. Len(new)
      PROVE  \/ j = 1 /\ new[j] = body
             \/ j >= 2 /\ j - 1 \in 1 .. Len(rest.out) /\ new[j] = rest.out[j - 1]
  BY <1>3, <1>4
<1>7. /\ s[a - 1].of = body /\ body # <<>> /\ a - 1 \in 1 .. Len(s)
  <2>1. s[a - 1] = Crc(body)
    BY DEF FrameAt
  <2> QED
    BY <1>1, <2>1, EncodeIs
<1>8. ASSUME NEW j \in 1 .. Len(rest.out)
      PROVE  /\ NumberOf(body) < NumberOf(rest.out[j])
             /\ \E q \in a .. Len(s) : /\ FrameAt(s, q, rest.out[j])
                                       /\ EndAt(q, rest.out[j]) < rest.keep
  <2>1. PICK q \in a .. Len(s) : FrameAt(s, q, rest.out[j]) /\ EndAt(q, rest.out[j]) < rest.keep
    BY <1>2
  <2> DEFINE x == rest.out[j]
             c == EndAt(q, x)
  <2>2. x \in Bodies
    BY <1>3
  <2>3. Len(x) \in Nat /\ c = q + 4 + Len(x) /\ c <= Len(s) /\ s[c] = Crc(x)
    BY <2>1, <2>2, BodyType DEF FrameAt, EndAt
  <2>4. s[c].of = x /\ x # <<>>
    BY <2>2, <2>3, EncodeIs
  <2> HIDE DEF c, x
  <2>5. c \in 1 .. Len(s) /\ a - 1 < c
    BY <1>1, <2>3
  <2>6. NumberOf(body) < NumberOf(x)
    BY <1>7, <2>4, <2>5 DEF Ordered
  <2> QED
    BY <2>1, <2>6 DEF x
<1>9. Rising(new)
  <2> SUFFICES ASSUME NEW i \in 1 .. Len(new), NEW j \in 1 .. Len(new), i < j
               PROVE  NumberOf(new[i]) < NumberOf(new[j])
    BY DEF Rising
  <2>1. j >= 2 /\ j - 1 \in 1 .. Len(rest.out) /\ new[j] = rest.out[j - 1]
    BY <1>6
  <2>2. CASE i = 1
    BY <1>4, <1>8, <2>1, <2>2
  <2>3. CASE i # 1
    <3>1. i - 1 \in 1 .. Len(rest.out) /\ new[i] = rest.out[i - 1]
      BY <1>6, <2>3
    <3>2. i - 1 < j - 1
      BY <1>3, <1>4
    <3> QED
      BY <1>2, <2>1, <3>1, <3>2 DEF Rising
  <2> QED
    BY <2>2, <2>3
<1>10. ASSUME NEW j \in 1 .. Len(new)
       PROVE  \E q \in k .. Len(s) : FrameAt(s, q, new[j]) /\ EndAt(q, new[j]) < rest.keep
  <2>1. CASE j = 1
    <3>1. m \in k .. Len(s)
      BY <1>1
    <3>2. a - 1 < rest.keep
      BY <1>2, <1>3
    <3> QED
      BY <1>4, <2>1, <3>1, <3>2
  <2>2. CASE j # 1
    <3>1. j - 1 \in 1 .. Len(rest.out) /\ new[j] = rest.out[j - 1]
      BY <1>6, <2>2
    <3>2. PICK q \in a .. Len(s) : FrameAt(s, q, new[j]) /\ EndAt(q, new[j]) < rest.keep
      BY <1>8, <3>1
    <3>3. q \in k .. Len(s)
      BY <1>1
    <3> QED
      BY <3>2, <3>3
  <2> QED
    BY <2>1, <2>2
<1>11. ASSUME NEW p \in k .. Len(s), NEW b \in Bodies, Begins(s, p, b), p < rest.keep
       PROVE  \E j \in 1 .. Len(new) : new[j] = b
  <2>1. m <= p /\ p \in 1 .. Len(s)
    BY <1>1, <1>11, NothingBefore
  <2>2. CASE m = p
    <3>1. b = body /\ 1 \in 1 .. Len(new)
      BY <1>3, <1>4, <1>11, <2>2
    <3> QED
      BY <1>4, <3>1
  <2>3. CASE m # p
    <3>1. m < p
      BY <1>1, <2>1, <2>3
    <3>2. EndAt(m, body) < p
      BY <1>1, <1>11, <2>1, <3>1, Apart
    <3>3. p \in a .. Len(s)
      BY <1>1, <2>1, <3>2
    <3>4. PICK j \in 1 .. Len(rest.out) : rest.out[j] = b
      BY <1>2, <1>11, <3>3
    <3>5. j + 1 \in 2 .. Len(new) /\ j + 1 \in 1 .. Len(new) /\ (j + 1) - 1 = j
      <4> DEFINE l == Len(rest.out)
      <4>1. l \in Nat /\ Len(new) = l + 1 /\ j \in 1 .. l
        BY <1>3, <1>4
      <4> HIDE DEF l
      <4>2. j + 1 \in 2 .. (l + 1) /\ j + 1 \in 1 .. (l + 1) /\ (j + 1) - 1 = j
        BY <4>1
      <4> QED
        BY <4>1, <4>2
    <3>6. new[j + 1] = b
      BY <1>4, <3>4, <3>5
    <3> QED
      BY <3>5, <3>6
  <2> QED
    BY <2>2, <2>3
<1>12. k <= rest.keep
  BY <1>1, <1>2, <1>3
<1>13. Scanned(R, s, k)
  BY <1>2, <1>5, <1>9, <1>10, <1>11, <1>12 DEF Scanned
<1> QED
  BY <1>13 DEF R

(* Less than one frame is kept to wait for more.                           *)
LEMMA WaitIs ==
    ASSUME NEW s \in Seq(StreamOctets), NEW k \in 1 .. (Len(s) + 1), NEW m,
           NextMagic(s, k, m), Verdict(s, m) = "wait"
    PROVE  Len(s) + 1 - m < MaxFrameLen
<1>1. Len(s) \in Nat /\ m \in Nat /\ m >= 1
  BY LenProperties DEF NextMagic
<1>2. MaxFrameLen = 8 + MaxPayload /\ MaxPayload \in Nat
  BY FramingAssumption DEF MaxFrameLen, Overhead, HeaderLen
<1>3. CASE Len(s) - m + 1 < 7
  BY <1>1, <1>2, <1>3
<1>4. CASE ~(Len(s) - m + 1 < 7)
  <2>1. ~Malformed(s, m) /\ After(s, m) > Len(s) + 1
    BY <1>4 DEF Verdict, HeaderLen
  <2>2. m + HeaderLen - 1 = m + 6 /\ m + 6 \in 1 .. Len(s)
    BY <1>1, <1>4 DEF HeaderLen
  <2> DEFINE v == s[m + 6].value
  <2>3. v \in Nat
    BY <2>2, StreamType
  <2>4. ~(v > MaxPayload)
    BY <2>1, <2>2 DEF Malformed, TooLong
  <2>5. m + 8 + v > Len(s) + 1
    <3>1. After(s, m) = m + 8 + v
      BY <1>1, <2>2, <2>3 DEF After, Overhead, HeaderLen
    <3> QED
      BY <2>1, <3>1
  <2> HIDE DEF v
  <2> QED
    BY <1>1, <1>2, <2>3, <2>4, <2>5
<1> QED
  BY <1>3, <1>4

LEMMA TurnScanned ==
    ASSUME NEW s \in Seq(StreamOctets), Ordered(s), NEW k \in 1 .. (Len(s) + 1), NEW f,
           \A i \in 1 .. (Len(s) + 1) : i > k => Scanned(f[i], s, i)
    PROVE  Scanned(Turn(f, s, k), s, k)
<1> DEFINE R == Turn(f, s, k)
<1>1. TurnDoes(R, f, s, k)
  BY TurnIs
<1> SUFFICES Scanned(R, s, k)
  OBVIOUS
<1> HIDE DEF R
<1>2. /\ Len(s) \in Nat /\ k \in Nat /\ k >= 1 /\ k <= Len(s) + 1
      /\ MaxFrameLen \in Nat /\ MaxFrameLen >= 8
  BY LenProperties, FramingAssumption DEF MaxFrameLen, Overhead, HeaderLen
<1>3. CASE Len(s) - k + 1 < 8 /\ R = Stop(k)
  <2>1. Len(s) + 1 - k < MaxFrameLen
    BY <1>2, <1>3
  <2>2. \A p \in k .. Len(s), b \in Bodies : Begins(s, p, b) => ~(p < k)
    BY <1>2
  <2>3. Scanned(Stop(k), s, k)
    BY <1>2, <2>1, <2>2, StopScanned
  <2> QED
    BY <1>3, <2>3
<1>4. CASE ~(Len(s) - k + 1 < 8) /\ Found(s, k) = {} /\ R = Stop(Len(s) - 2)
  <2> DEFINE q == Len(s) - 2
  <2>1. q \in Nat /\ k <= q /\ q <= Len(s) + 1 /\ Len(s) + 1 - q < MaxFrameLen
    BY <1>2, <1>4
  <2>2. ASSUME NEW p \in k .. Len(s), NEW b \in Bodies, Begins(s, p, b) PROVE ~(p < q)
    <3> SUFFICES ASSUME p < q PROVE FALSE
      OBVIOUS
    <3>1. p \in 1 .. Len(s) /\ p <= Len(s) - 3 /\ p \in k .. (Len(s) - 3)
      BY <1>2
    <3>2. \A i \in 1 .. 4 : s[p + i - 1].value = Magic[i]
      BY <2>2, <3>1, BegunMagic
    <3>3. p \in Found(s, k)
      BY <3>1, <3>2 DEF Found
    <3> QED
      BY <1>4, <3>3
  <2>3. R = Stop(q)
    BY <1>4
  <2> HIDE DEF q
  <2>4. Scanned(Stop(q), s, k)
    BY <2>1, <2>2, StopScanned
  <2> QED
    BY <2>3, <2>4
<1>5. CASE \E m \in Nat :
             /\ ~(Len(s) - k + 1 < 8) /\ NextMagic(s, k, m)
             /\ \/ Verdict(s, m) = "wait" /\ R = Stop(m)
                \/ Verdict(s, m) = "discard" /\ R = f[m + 1]
                \/ /\ Verdict(s, m) = "deliver"
                   /\ R = [f[After(s, m)] EXCEPT
                             !.out = <<BodyOf(SubSeq(s, m, After(s, m) - 1))>> \o @]
  <2>1. PICK m \in Nat :
             /\ ~(Len(s) - k + 1 < 8) /\ NextMagic(s, k, m)
             /\ \/ Verdict(s, m) = "wait" /\ R = Stop(m)
                \/ Verdict(s, m) = "discard" /\ R = f[m + 1]
                \/ /\ Verdict(s, m) = "deliver"
                   /\ R = [f[After(s, m)] EXCEPT
                             !.out = <<BodyOf(SubSeq(s, m, After(s, m) - 1))>> \o @]
    BY <1>5
  <2>2. NextMagic(s, k, m) /\ k <= m /\ m <= Len(s) - 3 /\ m \in 1 .. Len(s)
    <3>1. NextMagic(s, k, m)
      BY <2>1
    <3>2. k <= m /\ m <= Len(s) - 3
      BY <3>1 DEF NextMagic
    <3> QED
      BY <1>2, <3>1, <3>2
  <2>3. \A p \in k .. Len(s), b \in Bodies : Begins(s, p, b) => m <= p
    BY <2>2, NothingBefore
  <2>4. CASE Verdict(s, m) = "wait" /\ R = Stop(m)
    <3>1. Len(s) + 1 - m < MaxFrameLen /\ m <= Len(s) + 1
      BY <1>2, <2>2, <2>4, WaitIs
    <3>2. \A p \in k .. Len(s), b \in Bodies : Begins(s, p, b) => ~(p < m)
      BY <1>2, <2>3
    <3>3. Scanned(Stop(m), s, k)
      BY <2>2, <3>1, <3>2, StopScanned
    <3> QED
      BY <2>4, <3>3
  <2>5. CASE Verdict(s, m) = "discard" /\ R = f[m + 1]
    <3>1. m + 1 \in 1 .. (Len(s) + 1) /\ m + 1 > k
      BY <1>2, <2>2
    <3>2. Scanned(R, s, m + 1)
      BY <2>5, <3>1
    <3>3. /\ R \in [keep : Nat, out : Seq(Bodies)]
          /\ m + 1 <= R.keep /\ R.keep <= Len(s) + 1 /\ Len(s) + 1 - R.keep < MaxFrameLen
          /\ Rising(R.out)
          /\ \A j \in 1 .. Len(R.out) :
                \E q \in (m + 1) .. Len(s) :
                   FrameAt(s, q, R.out[j]) /\ EndAt(q, R.out[j]) < R.keep
          /\ \A p \in (m + 1) .. Len(s), b \in Bodies :
                Begins(s, p, b) /\ p < R.keep => \E j \in 1 .. Len(R.out) : R.out[j] = b
      BY <3>2 DEF Scanned
    <3>4. k <= R.keep
      <4>1. R.keep \in Nat
        BY <3>3
      <4> QED
        BY <1>2, <2>2, <3>3, <4>1
    <3>5. \A q \in (m + 1) .. Len(s) : q \in k .. Len(s)
      BY <1>2, <2>2
    <3>6. ASSUME NEW p \in k .. Len(s), NEW b \in Bodies, Begins(s, p, b), p < R.keep
          PROVE  \E j \in 1 .. Len(R.out) : R.out[j] = b
      <4>1. m # p
        <5>1. p \in 1 .. Len(s)
          BY <1>2
        <5>2. Verdict(s, p) # "wait" => Verdict(s, p) = "deliver"
          BY <3>6, <5>1, BegunVerdict
        <5> QED
          BY <2>5, <5>2
      <4>2. p \in (m + 1) .. Len(s)
        BY <1>2, <2>2, <2>3, <3>6, <4>1
      <4> QED
        BY <3>3, <3>6, <4>2
    <3>7. \A j \in 1 .. Len(R.out) :
             \E q \in k .. Len(s) : FrameAt(s, q, R.out[j]) /\ EndAt(q, R.out[j]) < R.keep
      BY <3>3, <3>5
    <3> QED
      BY <3>3, <3>4, <3>6, <3>7 DEF Scanned
  <2>6. CASE /\ Verdict(s, m) = "deliver"
             /\ R = [f[After(s, m)] EXCEPT
                       !.out = <<BodyOf(SubSeq(s, m, After(s, m) - 1))>> \o @]
    <3> DEFINE body == BodyOf(SubSeq(s, m, After(s, m) - 1))
               a == After(s, m)
    <3>1. body \in Bodies /\ FrameAt(s, m, body) /\ EndAt(m, body) = a - 1
      BY <2>2, <2>6, DeliveredIs
    <3>2. a \in Nat /\ m + 8 <= a /\ a <= Len(s) + 1
      BY <2>2, <2>6, DeliverIs
    <3>3. \A b \in Bodies : Begins(s, m, b) => b = body
      BY <2>2, <2>6, BegunVerdict
    <3>4. R = [f[a] EXCEPT !.out = <<body>> \o @]
      BY <2>6
    <3> HIDE DEF body, a
    <3>5. Scanned(f[a], s, a)
      <4>1. a \in 1 .. (Len(s) + 1) /\ a > k
        BY <1>2, <2>2, <3>2
      <4> QED
        BY <4>1
    <3>6. Scanned([f[a] EXCEPT !.out = <<body>> \o @], s, k)
      BY <2>2, <3>1, <3>2, <3>3, <3>5, DeliverScanned
    <3> QED
      BY <3>4, <3>6
  <2> QED
    BY <2>1, <2>4, <2>5, <2>6
<1> QED
  BY <1>1, <1>3, <1>4, <1>5 DEF TurnDoes

LEMMA ScanScanned ==
    ASSUME NEW s \in Seq(StreamOctets), Ordered(s)
    PROVE  Scanned(Scan(s), s, 1)
<1> DEFINE N == Len(s) + 1
<1>1. N \in Nat /\ N >= 1
  BY LenProperties
<1>2. PICK f : /\ Scan(s) = f[1]
               /\ \A k \in 1 .. N : f[k] = Turn(f, s, k)
  BY ScanIs
<1>3. ASSUME NEW k \in 1 .. N, \A i \in 1 .. N : i > k => Scanned(f[i], s, i)
      PROVE  Scanned(f[k], s, k)
  <2>1. Scanned(Turn(f, s, k), s, k)
    BY <1>3, TurnScanned
  <2> QED
    BY <1>2, <2>1
<1> HIDE DEF N
<1> DEFINE Bad == {j \in 0 .. (N - 1) : ~Scanned(f[N - j], s, N - j)}
<1>4. Bad = {}
  <2> SUFFICES ASSUME Bad # {} PROVE FALSE
    OBVIOUS
  <2>1. PICK j \in Bad : \A i \in Bad : j <= i
    <3>1. Bad \in SUBSET Nat
      BY <1>1
    <3> HIDE DEF Bad
    <3> QED
      BY <3>1, Least
  <2>2. j \in 0 .. (N - 1) /\ ~Scanned(f[N - j], s, N - j)
    OBVIOUS
  <2>3. N - j \in 1 .. N
    BY <1>1, <2>2
  <2>4. ASSUME NEW i \in 1 .. N, i > N - j PROVE Scanned(f[i], s, i)
    <3>1. N - i \in 0 .. (N - 1) /\ ~(j <= N - i) /\ N - (N - i) = i
      BY <1>1, <2>2, <2>4
    <3>2. N - i \notin Bad
      BY <2>1, <3>1
    <3>3. Scanned(f[N - (N - i)], s, N - (N - i))
      BY <3>1, <3>2
    <3> QED
      BY <3>1, <3>3
  <2> QED
    BY <1>3, <2>2, <2>3, <2>4
<1>5. N - 1 \in 0 .. (N - 1) /\ N - (N - 1) = 1
  BY <1>1
<1>6. Scanned(f[N - (N - 1)], s, N - (N - 1))
  BY <1>4, <1>5
<1> QED
  BY <1>2, <1>5, <1>6
-----------------------------------------------------------------------------
(* A chunk is read: now is the part of the stream s read so far, R what    *)
(* feed() does with it, and t what is left of s.                           *)
LEMMA BegunEnd ==
    ASSUME NEW s \in Seq(StreamOctets), NEW b \in Bodies, NEW p \in 1 .. Len(s),
           Begins(s, p, b), EndAt(p, b) <= Len(s)
    PROVE  /\ EndAt(p, b) \in 1 .. Len(s) /\ p < EndAt(p, b)
           /\ s[EndAt(p, b)].of = b /\ b # <<>>
<1>1. Len(s) \in Nat /\ Len(b) \in Nat /\ EndAt(p, b) = p + 4 + Len(b)
  BY LenProperties, BodyType DEF EndAt
<1>2. /\ p + 4 + Len(b) \in 1 .. Len(s) /\ p < p + 4 + Len(b)
      /\ Len(b) + 5 \in 1 .. (Len(b) + 5) /\ p + (Len(b) + 5) - 1 = p + 4 + Len(b)
  <2> DEFINE l == Len(b)
             n == Len(s)
  <2>1. l \in Nat /\ n \in Nat /\ p \in 1 .. n /\ p + 4 + l <= n
    BY <1>1
  <2> HIDE DEF l, n
  <2>2. /\ p + 4 + l \in 1 .. n /\ p < p + 4 + l
        /\ l + 5 \in 1 .. (l + 5) /\ p + (l + 5) - 1 = p + 4 + l
    BY <2>1
  <2> QED
    BY <2>2 DEF l, n
<1>3. s[p + (Len(b) + 5) - 1] = Encode(b)[Len(b) + 5]
  <2> DEFINE i == Len(b) + 5
  <2>1. i \in 1 .. Len(Encode(b)) /\ p + i - 1 <= Len(s)
    BY <1>1, <1>2, EncodeIs
  <2> HIDE DEF i
  <2>2. s[p + i - 1] = Encode(b)[i]
    BY <2>1 DEF Begins
  <2> QED
    BY <2>2 DEF i
<1> QED
  BY <1>1, <1>2, <1>3, EncodeIs

IsFront(now, s) ==
    /\ now \in Seq(StreamOctets) /\ Len(now) <= Len(s)
    /\ \A i \in 1 .. Len(now) : now[i] = s[i]

LEMMA FrameOfFront ==
    ASSUME NEW s \in Seq(StreamOctets), NEW now, IsFront(now, s),
           NEW x \in Bodies, NEW m \in 1 .. Len(now), FrameAt(now, m, x)
    PROVE  FrameAt(s, m, x)
<1>1. /\ Len(now) \in Nat /\ Len(s) \in Nat /\ Len(now) <= Len(s)
      /\ \A i \in 1 .. Len(now) : now[i] = s[i]
  BY LenProperties DEF IsFront
<1>2. Len(x) \in Nat /\ m + 4 + Len(x) <= Len(now)
  BY BodyType DEF FrameAt, EndAt
<1>3. /\ \A i \in 1 .. 4 : now[m + i - 1].value = Magic[i]
      /\ \A i \in 1 .. Len(x) : now[m + 3 + i] = x[i]
      /\ now[m + 4 + Len(x)] = Crc(x)
  BY DEF FrameAt, EndAt
<1>4. /\ \A i \in 1 .. 4 : m + i - 1 \in 1 .. Len(now)
      /\ \A i \in 1 .. Len(x) : m + 3 + i \in 1 .. Len(now)
      /\ m + 4 + Len(x) \in 1 .. Len(now) /\ m + 4 + Len(x) <= Len(s)
  BY <1>1, <1>2
<1>5. /\ \A i \in 1 .. 4 : s[m + i - 1].value = Magic[i]
      /\ \A i \in 1 .. Len(x) : s[m + 3 + i] = x[i]
      /\ s[m + 4 + Len(x)] = Crc(x)
  BY <1>1, <1>3, <1>4
<1> QED
  BY <1>4, <1>5 DEF FrameAt, EndAt

LEMMA FrontOrdered ==
    ASSUME NEW s \in Seq(StreamOctets), NEW now, IsFront(now, s), Ordered(s)
    PROVE  Ordered(now)
<1>1. /\ Len(now) \in Nat /\ Len(s) \in Nat /\ Len(now) <= Len(s)
      /\ \A i \in 1 .. Len(now) : now[i] = s[i]
  BY LenProperties DEF IsFront
<1>2. \A i \in 1 .. Len(now) : i \in 1 .. Len(s)
  BY <1>1
<1> QED
  BY <1>1, <1>2 DEF Ordered

LEMMA BegunFront ==
    ASSUME NEW s \in Seq(StreamOctets), NEW now, IsFront(now, s),
           NEW b \in Bodies, NEW p \in 1 .. Len(s), Begins(s, p, b)
    PROVE  Begins(now, p, b)
<1>1. /\ Len(now) \in Nat /\ Len(s) \in Nat /\ Len(now) <= Len(s)
      /\ \A i \in 1 .. Len(now) : now[i] = s[i]
  BY LenProperties DEF IsFront
<1>2. Len(Encode(b)) \in Nat
  BY BodyType, EncodeIs
<1> SUFFICES ASSUME NEW i \in 1 .. Len(Encode(b)), p + i - 1 <= Len(now)
             PROVE  now[p + i - 1] = Encode(b)[i]
  BY DEF Begins
<1>3. p + i - 1 \in 1 .. Len(now) /\ p + i - 1 <= Len(s)
  BY <1>1, <1>2
<1>4. s[p + i - 1] = Encode(b)[i]
  BY <1>3 DEF Begins
<1> QED
  BY <1>1, <1>3, <1>4

LEMMA ScanTakes ==
    ASSUME NEW s \in Seq(StreamOctets), Ordered(s), NEW now, IsFront(now, s)
    PROVE  /\ Scan(now).keep \in Nat /\ Scan(now).keep >= 1
           /\ Scan(now).keep <= Len(now) + 1
           /\ Len(now) + 1 - Scan(now).keep < MaxFrameLen
           /\ Takes(Scan(now).out, s, Scan(now).keep - 1)
           /\ \A p \in 1 .. Len(s), b \in Bodies :
                 Begins(s, p, b) /\ p < Scan(now).keep =>
                    \E j \in 1 .. Len(Scan(now).out) : Scan(now).out[j] = b
<1> DEFINE R == Scan(now)
<1>1. now \in Seq(StreamOctets) /\ Len(now) \in Nat /\ Len(s) \in Nat /\ Len(now) <= Len(s)
  BY LenProperties DEF IsFront
<1>2. Scanned(R, now, 1)
  BY <1>1, FrontOrdered, ScanScanned
<1> HIDE DEF R
<1>3. /\ R \in [keep : Nat, out : Seq(Bodies)]
      /\ 1 <= R.keep /\ R.keep <= Len(now) + 1 /\ Len(now) + 1 - R.keep < MaxFrameLen
      /\ Rising(R.out)
      /\ \A j \in 1 .. Len(R.out) :
            \E m \in 1 .. Len(now) : FrameAt(now, m, R.out[j]) /\ EndAt(m, R.out[j]) < R.keep
      /\ \A p \in 1 .. Len(now), b \in Bodies :
            Begins(now, p, b) /\ p < R.keep => \E j \in 1 .. Len(R.out) : R.out[j] = b
  BY <1>2 DEF Scanned
<1>4. R.keep \in Nat /\ R.keep >= 1 /\ R.out \in Seq(Bodies)
  BY <1>3
<1>5. ASSUME NEW j \in 1 .. Len(R.out)
      PROVE  \E m \in 1 .. Len(s) : FrameAt(s, m, R.out[j]) /\ EndAt(m, R.out[j]) <= R.keep - 1
  <2>1. PICK m \in 1 .. Len(now) : FrameAt(now, m, R.out[j]) /\ EndAt(m, R.out[j]) < R.keep
    BY <1>3
  <2>2. R.out[j] \in Bodies
    BY <1>4, ElementOfSeq
  <2>3. FrameAt(s, m, R.out[j])
    BY <2>1, <2>2, FrameOfFront
  <2>4. m \in 1 .. Len(s) /\ EndAt(m, R.out[j]) <= R.keep - 1
    <3>1. EndAt(m, R.out[j]) \in Nat
      <4> DEFINE l == Len(R.out[j])
      <4>1. l \in Nat /\ m \in Nat
        BY <1>1, <2>2, BodyType
      <4> HIDE DEF l
      <4>2. m + 4 + l \in Nat
        BY <4>1
      <4> QED
        BY <4>2 DEF EndAt, l
    <3> DEFINE e == EndAt(m, R.out[j])
    <3>2. e \in Nat /\ e < R.keep
      BY <2>1, <3>1
    <3> HIDE DEF e
    <3>3. e <= R.keep - 1 /\ m \in 1 .. Len(s)
      BY <1>1, <1>4, <3>2
    <3> QED
      BY <3>3 DEF e
  <2> QED
    BY <2>3, <2>4
<1>6. Takes(R.out, s, R.keep - 1)
  BY <1>3, <1>4, <1>5 DEF Takes
<1>7. ASSUME NEW p \in 1 .. Len(s), NEW b \in Bodies, Begins(s, p, b), p < R.keep
      PROVE  \E j \in 1 .. Len(R.out) : R.out[j] = b
  <2>1. p \in 1 .. Len(now)
    BY <1>1, <1>3, <1>4, <1>7
  <2>2. Begins(now, p, b)
    BY <1>7, BegunFront
  <2> QED
    BY <1>3, <1>7, <2>1, <2>2
<1> QED
  BY <1>3, <1>4, <1>6, <1>7 DEF R

(* The frames handed on are the next ones sent: none is passed over.       *)
LEMMA NextSent ==
    ASSUME NEW s, NEW got, NEW sent, NEW n, Sane(s, got, sent, n), Lossless(s, got, sent),
           NEW out, NEW keep \in Nat, keep >= 1, Takes(out, s, keep - 1),
           \A p \in 1 .. Len(s), b \in Bodies :
              Begins(s, p, b) /\ p < keep => \E j \in 1 .. Len(out) : out[j] = b
    PROVE  /\ \A j \in 1 .. Len(out) :
                 Len(got) + j <= Len(sent) /\ out[j] = sent[Len(got) + j]
           /\ \A i \in (Len(got) + Len(out) + 1) .. Len(sent) :
                 \E p \in 1 .. Len(s) :
                    keep <= p /\ EndAt(p, sent[i]) <= Len(s) /\ Begins(s, p, sent[i])
<1> DEFINE d == Len(got)
<1>1. /\ s \in Seq(StreamOctets) /\ got \in Seq(Bodies) /\ sent \in Seq(Bodies) /\ n \in Nat
      /\ Rising(sent) /\ Ordered(s)
  BY DEF Sane
<1>2. out \in Seq(Bodies) /\ Rising(out)
  BY DEF Takes
<1>3. /\ Len(got) \in Nat /\ Len(sent) \in Nat /\ Len(out) \in Nat /\ Len(s) \in Nat
      /\ d \in Nat
  BY <1>1, <1>2, LenProperties
<1>4. \A i \in 1 .. Len(sent) : sent[i] \in Bodies /\ NumberOf(sent[i]) \in Nat
  BY <1>1, ElementOfSeq, BodyType
<1>5. /\ d <= Len(sent) /\ \A i \in 1 .. d : got[i] = sent[i]
      /\ \A i \in (d + 1) .. Len(sent) :
            \E p \in 1 .. Len(s) : EndAt(p, sent[i]) <= Len(s) /\ Begins(s, p, sent[i])
  BY DEF Lossless
<1> HIDE DEF d
<1>6. ASSUME NEW j \in 1 .. Len(out)
      PROVE  \E q \in 1 .. Len(sent), c \in 1 .. Len(s) :
               d < q /\ out[j] = sent[q] /\ c < keep /\ s[c].of = out[j]
  <2>1. PICK k \in Nat : k < keep /\ Takes(out, s, k)
    OBVIOUS
  <2>2. PICK c \in 1 .. Len(s) :
             /\ c <= k /\ s[c].of = out[j] /\ out[j] # <<>>
             /\ out[j] \in Bodies /\ NumberOf(out[j]) \in Nat /\ NumberOf(out[j]) < n
             /\ \A i \in 1 .. Len(got) : NumberOf(got[i]) < NumberOf(out[j])
             /\ \E i \in 1 .. Len(sent) : out[j] = sent[i]
    BY <2>1, TakenIs, SMTT(30)
  <2>3. PICK q \in 1 .. Len(sent) : out[j] = sent[q]
    BY <2>2
  <2>4. ~(q <= d)
    <3> SUFFICES ASSUME q <= d PROVE FALSE
      OBVIOUS
    <3>1. q \in 1 .. Len(got) /\ got[q] = out[j]
      BY <1>3, <1>5, <2>3 DEF d
    <3>2. NumberOf(out[j]) < NumberOf(out[j])
      BY <2>2, <3>1
    <3> QED
      BY <2>2, <3>2
  <2>5. d < q /\ c < keep
    BY <1>3, <2>1, <2>2, <2>4
  <2> QED
    BY <2>2, <2>3, <2>5
<1>7. ASSUME NEW i \in (d + 1) .. Len(sent), NEW p \in 1 .. Len(s), Begins(s, p, sent[i]), p < keep
      PROVE  \E j \in 1 .. Len(out) : out[j] = sent[i]
  <2>1. sent[i] \in Bodies
    BY <1>3, <1>4
  <2> QED
    BY <1>7, <2>1
<1>8. ASSUME NEW j \in 1 .. Len(out), NEW q \in 1 .. Len(sent), out[j] = sent[q],
             NEW i \in (d + 1) .. Len(sent), i < q
      PROVE  \E h \in 1 .. Len(out) : out[h] = sent[i]
  <2>1. PICK c \in 1 .. Len(s) : c < keep /\ s[c].of = sent[q]
    BY <1>6, <1>8
  <2>2. PICK p \in 1 .. Len(s) : EndAt(p, sent[i]) <= Len(s) /\ Begins(s, p, sent[i])
    BY <1>5
  <2>3. i \in 1 .. Len(sent) /\ sent[i] \in Bodies /\ sent[q] \in Bodies
        /\ NumberOf(sent[i]) \in Nat /\ NumberOf(sent[q]) \in Nat
    BY <1>3, <1>4
  <2>4. NumberOf(sent[i]) < NumberOf(sent[q])
    BY <1>1, <1>8, <2>3 DEF Rising
  <2> DEFINE e == EndAt(p, sent[i])
  <2>5. e \in 1 .. Len(s) /\ p < e /\ s[e].of = sent[i] /\ sent[i] # <<>>
    BY <1>1, <2>2, <2>3, BegunEnd
  <2> HIDE DEF e
  <2>6. sent[q] # <<>>
    BY <2>3, BodyType
  <2>7. e # c
    BY <2>1, <2>3, <2>4, <2>5
  <2>8. ~(c < e)
    <3> SUFFICES ASSUME c < e PROVE FALSE
      OBVIOUS
    <3>1. NumberOf(sent[q]) < NumberOf(sent[i])
      BY <1>1, <2>1, <2>5, <2>6 DEF Ordered
    <3> QED
      BY <2>3, <2>4, <3>1
  <2>9. p < keep
    BY <1>3, <2>1, <2>5, <2>7, <2>8
  <2> QED
    BY <1>7, <2>2, <2>9
<1> DEFINE Bad == {j \in 1 .. Len(out) : ~(d + j <= Len(sent) /\ out[j] = sent[d + j])}
<1>9. Bad = {}
  <2> SUFFICES ASSUME Bad # {} PROVE FALSE
    OBVIOUS
  <2>1. PICK j \in Bad : \A i \in Bad : j <= i
    <3>1. Bad \in SUBSET Nat
      BY <1>3
    <3> HIDE DEF Bad
    <3> QED
      BY <3>1, Least
  <2>2. j \in 1 .. Len(out) /\ ~(d + j <= Len(sent) /\ out[j] = sent[d + j])
    OBVIOUS
  <2>3. ASSUME NEW i \in 1 .. Len(out), i < j
        PROVE  d + i <= Len(sent) /\ out[i] = sent[d + i] /\ d + i \in 1 .. Len(sent)
    <3>1. i \notin Bad
      <4> HIDE DEF Bad
      <4> QED
        BY <1>3, <2>1, <2>2, <2>3
    <3> QED
      BY <1>3, <3>1
  <2> HIDE DEF Bad
  <2>4. PICK q \in 1 .. Len(sent) : d < q /\ out[j] = sent[q]
    BY <1>6, <2>2
  <2>5. CASE q < d + j
    <3>1. q - d \in 1 .. Len(out) /\ q - d < j /\ d + (q - d) = q
      BY <1>3, <2>2, <2>4, <2>5
    <3>2. out[q - d] = sent[q]
      BY <2>3, <3>1
    <3>3. NumberOf(out[q - d]) < NumberOf(out[j])
      BY <1>2, <2>2, <3>1 DEF Rising
    <3> QED
      BY <1>4, <2>4, <3>2, <3>3
  <2>6. CASE q = d + j
    BY <1>3, <2>2, <2>4, <2>6
  <2>7. CASE q > d + j
    <3>1. d + j \in (d + 1) .. Len(sent) /\ d + j < q /\ d + j \in 1 .. Len(sent)
      BY <1>3, <2>2, <2>7
    <3>2. PICK h \in 1 .. Len(out) : out[h] = sent[d + j]
      BY <1>8, <2>2, <2>4, <3>1
    <3>3. NumberOf(out[h]) < NumberOf(out[j])
      BY <1>1, <2>4, <3>1, <3>2 DEF Rising
    <3>4. NumberOf(out[h]) \in Nat /\ NumberOf(out[j]) \in Nat
      BY <1>4, <2>4, <3>1, <3>2
    <3>5. h # j
      BY <3>3, <3>4
    <3>6. ~(j < h)
      BY <1>2, <2>2, <3>3, <3>4 DEF Rising
    <3>7. h < j
      BY <1>3, <2>2, <3>5, <3>6
    <3>8. out[h] = sent[d + h] /\ d + h \in 1 .. Len(sent) /\ d + h < d + j
      BY <1>3, <2>2, <2>3, <3>7
    <3>9. NumberOf(sent[d + h]) < NumberOf(sent[d + j])
      BY <1>1, <3>1, <3>8 DEF Rising
    <3> QED
      BY <3>2, <3>4, <3>8, <3>9
  <2> QED
    BY <1>3, <2>2, <2>5, <2>6, <2>7
<1>10. \A j \in 1 .. Len(out) : d + j <= Len(sent) /\ out[j] = sent[d + j]
  BY <1>9
<1> HIDE DEF Bad
<1>11. ASSUME NEW i \in (d + Len(out) + 1) .. Len(sent)
       PROVE  \E p \in 1 .. Len(s) :
                 keep <= p /\ EndAt(p, sent[i]) <= Len(s) /\ Begins(s, p, sent[i])
  <2>1. i \in (d + 1) .. Len(sent) /\ i \in 1 .. Len(sent) /\ i > d + Len(out)
    BY <1>3
  <2>2. PICK p \in 1 .. Len(s) : EndAt(p, sent[i]) <= Len(s) /\ Begins(s, p, sent[i])
    BY <1>5, <2>1
  <2>3. ~(p < keep)
    <3> SUFFICES ASSUME p < keep PROVE FALSE
      OBVIOUS
    <3>1. PICK j \in 1 .. Len(out) : out[j] = sent[i]
      BY <1>7, <2>1, <2>2
    <3>2. sent[d + j] = sent[i] /\ d + j \in 1 .. Len(sent) /\ d + j < i
      <4>1. d + j < i /\ d + j >= 1 /\ d + j \in Nat
        BY <1>3, <2>1
      <4>2. d + j <= Len(sent) /\ out[j] = sent[d + j]
        BY <1>10
      <4>3. d + j \in 1 .. Len(sent)
        BY <1>3, <4>1, <4>2
      <4> QED
        BY <3>1, <4>1, <4>2, <4>3
    <3>3. NumberOf(sent[d + j]) < NumberOf(sent[i])
      BY <1>1, <2>1, <3>2 DEF Rising
    <3> QED
      BY <1>4, <2>1, <3>2, <3>3
  <2> QED
    BY <1>3, <2>2, <2>3
<1> QED
  BY <1>10, <1>11 DEF d

(* A frame that begins behind the octets dropped is still there.           *)
LEMMA BegunRest ==
    ASSUME NEW s \in Seq(StreamOctets), NEW t, NEW k, Drops(t, s, k),
           NEW b \in Bodies, NEW p \in 1 .. Len(s), k < p,
           Begins(s, p, b), EndAt(p, b) <= Len(s)
    PROVE  /\ p - k \in 1 .. Len(t)
           /\ EndAt(p - k, b) <= Len(t) /\ Begins(t, p - k, b)
<1> DEFINE l == Len(b)
           m == p - k
<1>1. /\ Len(s) \in Nat /\ Len(t) \in Nat /\ k \in Nat /\ k <= Len(s) /\ Len(t) = Len(s) - k
      /\ \A i \in 1 .. Len(t) : t[i] = s[i + k]
  BY LenProperties DEF Drops
<1>2. l \in Nat /\ p + 4 + l <= Len(s) /\ Len(Encode(b)) = l + 5
  BY BodyType, EncodeIs DEF EndAt
<1> HIDE DEF l
<1>3. m \in 1 .. Len(t) /\ m + 4 + l <= Len(t)
  BY <1>1, <1>2
<1>4. ASSUME NEW i \in 1 .. Len(Encode(b)) PROVE t[m + i - 1] = Encode(b)[i]
  <2>1. /\ m + i - 1 \in 1 .. Len(t) /\ (m + i - 1) + k = p + i - 1 /\ p + i - 1 <= Len(s)
    BY <1>1, <1>2, <1>3
  <2>2. t[m + i - 1] = s[(m + i - 1) + k]
    BY <1>1, <2>1
  <2>3. s[p + i - 1] = Encode(b)[i]
    BY <2>1 DEF Begins
  <2> QED
    BY <2>1, <2>2, <2>3
<1> HIDE DEF m
<1>5. EndAt(m, b) <= Len(t) /\ Begins(t, m, b)
  BY <1>3, <1>4 DEF EndAt, Begins, l
<1> QED
  BY <1>3, <1>5 DEF m

LEMMA TakeLossless ==
    ASSUME NEW s, NEW got, NEW sent, NEW n, Sane(s, got, sent, n), Lossless(s, got, sent),
           NEW out, NEW keep \in Nat, keep >= 1, Takes(out, s, keep - 1),
           \A p \in 1 .. Len(s), b \in Bodies :
              Begins(s, p, b) /\ p < keep => \E j \in 1 .. Len(out) : out[j] = b,
           NEW t, Drops(t, s, keep - 1)
    PROVE  Lossless(t, got \o out, sent)
<1>1. s \in Seq(StreamOctets) /\ got \in Seq(Bodies) /\ sent \in Seq(Bodies)
  BY DEF Sane
<1>2. /\ Len(got) <= Len(sent) /\ \A i \in 1 .. Len(got) : got[i] = sent[i]
  BY DEF Lossless
<1>3. /\ \A j \in 1 .. Len(out) :
             Len(got) + j <= Len(sent) /\ out[j] = sent[Len(got) + j]
      /\ \A i \in (Len(got) + Len(out) + 1) .. Len(sent) :
             \E p \in 1 .. Len(s) :
                keep <= p /\ EndAt(p, sent[i]) <= Len(s) /\ Begins(s, p, sent[i])
  BY NextSent
<1>4. PICK k \in Nat : k = keep - 1 /\ k < keep /\ Takes(out, s, k) /\ Drops(t, s, k)
  OBVIOUS
<1> DEFINE all == got \o out
<1>5. /\ Len(all) = Len(got) + Len(out)
      /\ \A i \in 1 .. Len(all) :
             \/ i \in 1 .. Len(got) /\ all[i] = got[i]
             \/ i - Len(got) \in 1 .. Len(out) /\ all[i] = out[i - Len(got)]
  BY <1>4, TakeGot
<1> HIDE DEF all
<1>6. Len(got) \in Nat /\ Len(sent) \in Nat /\ Len(out) \in Nat /\ Len(s) \in Nat
  BY <1>1, LenProperties DEF Takes
<1>7. Len(all) <= Len(sent)
  <2>1. CASE Len(out) = 0
    BY <1>2, <1>5, <1>6, <2>1
  <2>2. CASE Len(out) # 0
    <3>1. Len(out) \in 1 .. Len(out)
      BY <1>6, <2>2
    <3> QED
      BY <1>3, <1>5, <3>1
  <2> QED
    BY <2>1, <2>2
<1>8. ASSUME NEW i \in 1 .. Len(all) PROVE all[i] = sent[i]
  <2>1. CASE i \in 1 .. Len(got) /\ all[i] = got[i]
    BY <1>2, <2>1
  <2>2. CASE i - Len(got) \in 1 .. Len(out) /\ all[i] = out[i - Len(got)]
    <3>1. Len(got) + (i - Len(got)) = i
      BY <1>5, <1>6
    <3> QED
      BY <1>3, <2>2, <3>1
  <2> QED
    BY <1>5, <2>1, <2>2
<1>9. ASSUME NEW i \in (Len(all) + 1) .. Len(sent)
      PROVE  \E p \in 1 .. Len(t) : EndAt(p, sent[i]) <= Len(t) /\ Begins(t, p, sent[i])
  <2>1. i \in (Len(got) + Len(out) + 1) .. Len(sent) /\ i \in 1 .. Len(sent)
    BY <1>5, <1>6
  <2>2. PICK p \in 1 .. Len(s) :
           keep <= p /\ EndAt(p, sent[i]) <= Len(s) /\ Begins(s, p, sent[i])
    BY <1>3, <2>1
  <2>3. sent[i] \in Bodies
    BY <1>1, <2>1, ElementOfSeq
  <2>4. k < p
    BY <1>4, <1>6, <2>2
  <2>5. /\ p - k \in 1 .. Len(t)
        /\ EndAt(p - k, sent[i]) <= Len(t) /\ Begins(t, p - k, sent[i])
    BY <1>1, <1>4, <2>2, <2>3, <2>4, BegunRest
  <2> QED
    BY <2>5
<1>10. Lossless(t, all, sent)
  BY <1>7, <1>8, <1>9 DEF Lossless
<1> QED
  BY <1>10 DEF all

(* What is put on the stream leaves the frames on it alone, and a frame    *)
(* noted is put there whole.                                               *)
LEMMA PutLossless ==
    ASSUME NEW s \in Seq(StreamOctets), NEW got, NEW sent \in Seq(Bodies),
           got \in Seq(Bodies), Lossless(s, got, sent),
           NEW w \in Seq(StreamOctets), NEW b, NEW noted,
           \/ noted = sent
           \/ noted = Append(sent, b) /\ b \in Bodies /\ w = Encode(b)
    PROVE  Lossless(s \o w, got, noted)
<1> DEFINE t == s \o w
<1>1. /\ Len(got) <= Len(sent) /\ \A i \in 1 .. Len(got) : got[i] = sent[i]
      /\ \A i \in (Len(got) + 1) .. Len(sent) :
            \E p \in 1 .. Len(s) : EndAt(p, sent[i]) <= Len(s) /\ Begins(s, p, sent[i])
  BY DEF Lossless
<1>2. Len(s) \in Nat /\ Len(w) \in Nat /\ Len(got) \in Nat /\ Len(sent) \in Nat
  BY LenProperties
<1>3. /\ t \in Seq(StreamOctets) /\ Len(t) = Len(s) + Len(w)
      /\ \A i \in 1 .. (Len(s) + Len(w)) : t[i] = IF i <= Len(s) THEN s[i] ELSE w[i - Len(s)]
  BY ConcatProperties
<1> HIDE DEF t
<1>4. ASSUME NEW i \in (Len(got) + 1) .. Len(sent)
      PROVE  \E p \in 1 .. Len(t) : EndAt(p, sent[i]) <= Len(t) /\ Begins(t, p, sent[i])
  <2>1. PICK p \in 1 .. Len(s) : EndAt(p, sent[i]) <= Len(s) /\ Begins(s, p, sent[i])
    BY <1>1
  <2> DEFINE x == sent[i]
             l == Len(x)
  <2>2. x \in Bodies
    <3>1. i \in 1 .. Len(sent)
      BY <1>2
    <3> QED
      BY <3>1, ElementOfSeq
  <2>3. l \in Nat /\ p + 4 + l <= Len(s) /\ Len(Encode(x)) = l + 5
    BY <2>1, <2>2, BodyType, EncodeIs DEF EndAt
  <2>4. Begins(s, p, x)
    BY <2>1
  <2> HIDE DEF x, l
  <2>5. p \in 1 .. Len(t) /\ p + 4 + l <= Len(t)
    BY <1>2, <1>3, <2>3
  <2>6. ASSUME NEW j \in 1 .. Len(Encode(x)) PROVE t[p + j - 1] = Encode(x)[j]
    <3>1. p + j - 1 \in 1 .. (Len(s) + Len(w)) /\ p + j - 1 <= Len(s)
      BY <1>2, <2>3
    <3>2. t[p + j - 1] = s[p + j - 1]
      BY <1>3, <3>1
    <3>3. s[p + j - 1] = Encode(x)[j]
      BY <2>4, <3>1 DEF Begins
    <3> QED
      BY <3>2, <3>3
  <2>7. EndAt(p, x) <= Len(t) /\ Begins(t, p, x)
    BY <2>5, <2>6 DEF EndAt, Begins, l
  <2> QED
    BY <2>5, <2>7 DEF x
<1>5. CASE noted = sent
  BY <1>1, <1>4, <1>5 DEF Lossless, t
<1>6. CASE noted = Append(sent, b) /\ b \in Bodies /\ w = Encode(b)
  <2>1. /\ Len(noted) = Len(sent) + 1 /\ noted[Len(sent) + 1] = b
        /\ \A i \in 1 .. Len(sent) : noted[i] = sent[i]
    BY <1>6, AppendProperties
  <2> DEFINE l == Len(b)
             q == Len(s) + 1
  <2>2. l \in Nat /\ Len(w) = l + 5 /\ w = Encode(b)
    BY <1>6, BodyType, EncodeIs
  <2> HIDE DEF l
  <2>3. q \in 1 .. Len(t) /\ q + 4 + l <= Len(t)
    BY <1>2, <1>3, <2>2
  <2>4. ASSUME NEW j \in 1 .. Len(Encode(b)) PROVE t[q + j - 1] = Encode(b)[j]
    <3>1. /\ Len(s) + j \in 1 .. (Len(s) + Len(w)) /\ ~(Len(s) + j <= Len(s))
          /\ (Len(s) + j) - Len(s) = j /\ q + j - 1 = Len(s) + j
      BY <1>2, <2>2
    <3>2. t[Len(s) + j] = w[(Len(s) + j) - Len(s)]
      BY <1>3, <3>1
    <3> QED
      BY <2>2, <3>1, <3>2
  <2> HIDE DEF q
  <2>5. EndAt(q, b) <= Len(t) /\ Begins(t, q, b)
    BY <2>3, <2>4 DEF EndAt, Begins, l
  <2>6. ASSUME NEW i \in (Len(got) + 1) .. Len(noted)
        PROVE  \E p \in 1 .. Len(t) : EndAt(p, noted[i]) <= Len(t) /\ Begins(t, p, noted[i])
    <3>1. CASE i = Len(sent) + 1
      BY <2>1, <2>3, <2>5, <3>1
    <3>2. CASE i # Len(sent) + 1
      <4>1. i \in (Len(got) + 1) .. Len(sent) /\ i \in 1 .. Len(sent)
        BY <1>2, <2>1, <3>2
      <4> QED
        BY <1>4, <2>1, <4>1
    <3> QED
      BY <3>1, <3>2
  <2>7. Len(got) <= Len(noted) /\ \A i \in 1 .. Len(got) : got[i] = noted[i]
    <3>1. Len(got) <= Len(noted) /\ \A i \in 1 .. Len(got) : i \in 1 .. Len(sent)
      BY <1>1, <1>2, <2>1
    <3> QED
      BY <1>1, <2>1, <3>1
  <2> QED
    BY <2>6, <2>7 DEF Lossless, t
<1> QED
  BY <1>5, <1>6

-----------------------------------------------------------------------------
(* What the sender and the noise put on the stream.                        *)
LEMMA BodySent ==
    ASSUME NEW p \in Payloads, NEW n \in Nat
    PROVE  Body(n, p) \in Bodies /\ NumberOf(Body(n, p)) = n
BY LinkAssumption, BodyIs

LEMMA FrameSeal ==
    ASSUME NEW b \in Bodies, NEW c \in 1 .. Len(Encode(b)), Encode(b)[c].of # <<>>
    PROVE  c = Len(Encode(b)) /\ Encode(b)[c].of = b
<1>1. /\ Len(Encode(b)) = Len(b) + 5 /\ Encode(b)[Len(b) + 5] = Crc(b) /\ Crc(b).of = b
      /\ \A i \in 1 .. (Len(b) + 4) : Encode(b)[i].of = <<>>
  BY EncodeIs
<1>2. Len(b) \in Nat
  BY BodyType
<1>3. c = Len(b) + 5
  BY <1>1, <1>2
<1> QED
  BY <1>1, <1>3

LEMMA PutsFrame ==
    ASSUME NEW b \in Bodies, NEW n \in Nat, NumberOf(b) = n, NEW sent
    PROVE  Puts(Encode(b), b, n, n + 1, sent, Append(sent, b))
<1>1. Encode(b) \in Seq(StreamOctets) /\ Len(Encode(b)) = Len(b) + 5
  BY EncodeIs
<1>2. \A c \in 1 .. Len(Encode(b)) : Encode(b)[c].of # <<>> =>
          c = Len(Encode(b)) /\ Encode(b)[c].of = b
  BY FrameSeal
<1> QED
  BY <1>1, <1>2 DEF Puts

LEMMA PutsCut ==
    ASSUME NEW b \in Bodies, NEW n \in Nat, NEW sent,
           NEW k \in Nat, k < Len(Encode(b))
    PROVE  Puts(SubSeq(Encode(b), 1, k), b, n, n + 1, sent, sent)
<1> DEFINE w == SubSeq(Encode(b), 1, k)
<1>1. /\ Encode(b) \in Seq(StreamOctets) /\ Len(Encode(b)) = Len(b) + 5
      /\ \A i \in 1 .. (Len(b) + 4) : Encode(b)[i].of = <<>>
  BY EncodeIs
<1>2. Len(b) \in Nat
  BY BodyType
<1>3. \A i \in 1 .. k : Encode(b)[i] \in StreamOctets /\ Encode(b)[i].of = <<>>
  <2> SUFFICES ASSUME NEW i \in 1 .. k
               PROVE  Encode(b)[i] \in StreamOctets /\ Encode(b)[i].of = <<>>
    OBVIOUS
  <2>1. i \in 1 .. Len(Encode(b)) /\ i \in 1 .. (Len(b) + 4)
    BY <1>1, <1>2
  <2> QED
    BY <1>1, <2>1, ElementOfSeq
<1>4. 1 \in Int /\ k \in Int
  OBVIOUS
<1>5. /\ w \in Seq(StreamOctets) /\ Len(w) = IF 1 <= k THEN k - 1 + 1 ELSE 0
      /\ \A i \in 1 .. (k - 1 + 1) : w[i] = Encode(b)[1 + i - 1]
  BY <1>3, <1>4, SubSeqProperties
<1> HIDE DEF w
<1>6. ASSUME NEW c \in 1 .. Len(w) PROVE w[c].of = <<>>
  <2>1. c \in 1 .. k /\ c \in 1 .. (k - 1 + 1) /\ 1 + c - 1 = c
    BY <1>5
  <2> QED
    BY <1>3, <1>5, <2>1
<1>7. Puts(w, b, n, n + 1, sent, sent)
  BY <1>5, <1>6 DEF Puts
<1> QED
  BY <1>7 DEF w

LEMMA PutsCorrupted ==
    ASSUME NEW b \in Bodies, NEW n \in Nat, NumberOf(b) = n, NEW sent,
           NEW k \in 1 .. Len(Encode(b)), NEW x \in Nat, Encode(b)[k].value # x
    PROVE  Puts([Encode(b) EXCEPT ![k] = Octet(x)], b, n, n + 1, sent, sent)
<1> DEFINE w == [Encode(b) EXCEPT ![k] = Octet(x)]
           l == Len(b)
<1>1. /\ Encode(b) \in Seq(StreamOctets) /\ Len(Encode(b)) = l + 5
      /\ \A i \in 1 .. 4 : Encode(b)[i] = Octet(Magic[i])
      /\ \A i \in 1 .. l : Encode(b)[4 + i] = b[i]
      /\ Encode(b)[l + 5] = Crc(b) /\ Crc(b).of # <<>>
  BY EncodeIs
<1>2. l \in Nat
  BY BodyType
<1>3. Octet(x) \in StreamOctets /\ Octet(x).value = x /\ Octet(x).of = <<>>
      /\ \A i \in 1 .. 4 : Octet(Magic[i]).value = Magic[i]
  BY DEF Octet, StreamOctets
<1>4. /\ w \in Seq(StreamOctets) /\ Len(w) = Len(Encode(b)) /\ w[k] = Octet(x)
      /\ \A i \in 1 .. Len(w) : i # k => w[i] = Encode(b)[i]
  BY <1>1, <1>3
<1> HIDE DEF w, l
<1>5. ASSUME NEW c \in 1 .. Len(w), w[c].of # <<>>
      PROVE  c = Len(w) /\ w[c].of = b
  <2>1. c # k
    BY <1>3, <1>4, <1>5
  <2>2. w[c] = Encode(b)[c] /\ c \in 1 .. Len(Encode(b)) /\ Encode(b)[c].of # <<>>
    BY <1>4, <1>5, <2>1
  <2> QED
    BY <1>4, <2>2, FrameSeal
<1>6. ~FrameAt(w, 1, b)
  <2> SUFFICES ASSUME FrameAt(w, 1, b) PROVE FALSE
    OBVIOUS
  <2>1. /\ \A i \in 1 .. 4 : w[1 + i - 1].value = Magic[i]
        /\ \A i \in 1 .. l : w[1 + 3 + i] = b[i]
        /\ w[1 + 4 + l] = Crc(b)
    BY DEF FrameAt, EndAt, l
  <2>2. CASE k \in 1 .. 4
    <3>1. 1 + k - 1 = k
      BY <2>2
    <3>2. w[k].value = Magic[k]
      BY <2>1, <2>2, <3>1
    <3> QED
      BY <1>1, <1>3, <1>4, <2>2, <3>2
  <2>3. CASE k \in 5 .. (l + 4)
    <3>1. k - 4 \in 1 .. l /\ 1 + 3 + (k - 4) = k /\ 4 + (k - 4) = k
      BY <1>2, <2>3
    <3>2. w[k] = b[k - 4] /\ Encode(b)[k] = b[k - 4]
      BY <1>1, <2>1, <3>1
    <3> QED
      BY <1>3, <1>4, <3>2
  <2>4. CASE k = l + 5
    <3>1. 1 + 4 + l = l + 5
      BY <1>2
    <3> QED
      BY <1>1, <1>3, <1>4, <2>1, <2>4, <3>1
  <2> QED
    BY <1>1, <1>2, <2>2, <2>3, <2>4
<1>7. Puts(w, b, n, n + 1, sent, sent)
  BY <1>1, <1>4, <1>5, <1>6 DEF Puts, l
<1> QED
  BY <1>7 DEF w

LEMMA PutsNoise ==
    ASSUME NEW noise \in Noises, NEW b, NEW n \in Nat, NEW sent
    PROVE  Puts([i \in 1 .. Len(noise) |-> Octet(noise[i])], b, n, n, sent, sent)
<1> DEFINE w == [i \in 1 .. Len(noise) |-> Octet(noise[i])]
<1>1. noise \in Seq(Nat) /\ Len(noise) \in Nat
  BY LinkAssumption, LenProperties
<1>2. \A i \in 1 .. Len(noise) :
         noise[i] \in Nat /\ Octet(noise[i]) \in StreamOctets /\ Octet(noise[i]).of = <<>>
  BY <1>1, ElementOfSeq DEF Octet, StreamOctets
<1>3. w \in Seq(StreamOctets) /\ Len(w) = Len(noise)
      /\ \A i \in 1 .. Len(noise) : w[i] = Octet(noise[i])
  BY <1>1, <1>2
<1> HIDE DEF w
<1>4. \A c \in 1 .. Len(w) : w[c].of = <<>>
  BY <1>2, <1>3
<1>5. Puts(w, b, n, n, sent, sent)
  BY <1>3, <1>4 DEF Puts
<1> QED
  BY <1>5 DEF w

-----------------------------------------------------------------------------
(* The stream from the octets a parser keeps on, as one sequence.          *)
LEMMA KeptType ==
    LinkInv => /\ Kept \in Seq(StreamOctets) /\ Kept \o wire \in Seq(StreamOctets)
               /\ wire \in Seq(StreamOctets) /\ seen \in Seq(StreamOctets)
               /\ buf \in Seq(StreamOctets)
               /\ delivered \in Seq(Bodies) /\ intact \in Seq(Bodies) /\ number \in Nat
<1> SUFFICES ASSUME LinkInv
             PROVE  /\ Kept \in Seq(StreamOctets) /\ Kept \o wire \in Seq(StreamOctets)
                    /\ wire \in Seq(StreamOctets) /\ seen \in Seq(StreamOctets)
                    /\ buf \in Seq(StreamOctets)
                    /\ delivered \in Seq(Bodies) /\ intact \in Seq(Bodies) /\ number \in Nat
  OBVIOUS
<1>1. /\ wire \in Seq(StreamOctets) /\ seen \in Seq(StreamOctets) /\ buf \in Seq(StreamOctets)
  BY DEF LinkInv, SeenOK
<1>2. /\ delivered \in Seq(Bodies) /\ intact \in Seq(Bodies) /\ number \in Nat
      /\ Kept \o wire \in Seq(StreamOctets)
  BY DEF LinkInv, Sane
<1>3. Kept \in Seq(StreamOctets)
  BY <1>1 DEF Kept
<1> QED
  BY <1>1, <1>2, <1>3

(* A step of the sender, or noise.                                         *)
Sent(w, b) ==
    /\ wire' = wire \o w
    /\ Puts(w, b, number, number', intact, intact')
    /\ intact' = intact \/ (intact' = Append(intact, b) /\ b \in Bodies /\ w = Encode(b))
    /\ UNCHANGED <<receiver, seen, buf, delivered>>

LEMMA SentKeeps ==
    ASSUME LinkInv, NEW w, NEW b, Sent(w, b)
    PROVE  LinkInv'
<1> DEFINE s == Kept \o wire
<1>1. /\ Sane(s, delivered, intact, number)
      /\ receiver = "host" => Lossless(s, delivered, intact)
  BY DEF LinkInv
<1>2. /\ Kept \in Seq(StreamOctets) /\ s \in Seq(StreamOctets) /\ wire \in Seq(StreamOctets)
      /\ delivered \in Seq(Bodies) /\ intact \in Seq(Bodies)
  BY KeptType
<1>3. Puts(w, b, number, number', intact, intact') /\ w \in Seq(StreamOctets)
  BY DEF Sent, Puts
<1>4. Kept' \o wire' = s \o w
  <2>1. Kept' = Kept /\ wire' = wire \o w
    BY DEF Sent, Kept
  <2>2. (Kept \o wire) \o w = Kept \o (wire \o w)
    <3>1. Kept \in Seq(StreamOctets) /\ wire \in Seq(StreamOctets) /\ w \in Seq(StreamOctets)
      BY <1>2, <1>3
    <3> QED
      BY <3>1, ConcatAssociative
  <2> QED
    BY <2>1, <2>2
<1>5. wire' \in Seq(StreamOctets)
  <2>1. wire \o w \in Seq(StreamOctets)
    BY <1>2, <1>3, ConcatProperties
  <2> QED
    BY <2>1 DEF Sent
<1> HIDE DEF s
<1>6. Sane(s \o w, delivered, intact', number')
  BY <1>1, <1>3, PutKeeps
<1>7. receiver = "host" => Lossless(s \o w, delivered, intact')
  <2> SUFFICES ASSUME receiver = "host" PROVE Lossless(s \o w, delivered, intact')
    OBVIOUS
  <2>1. \/ intact' = intact
        \/ intact' = Append(intact, b) /\ b \in Bodies /\ w = Encode(b)
    BY DEF Sent
  <2> QED
    BY <1>1, <1>2, <1>3, <2>1, PutLossless
<1>8. /\ receiver' = receiver /\ seen' = seen /\ buf' = buf /\ delivered' = delivered
  BY DEF Sent
<1>9. SeenOK' /\ HostBufferBounded' /\ buf' \in Seq(StreamOctets)
  BY <1>8 DEF LinkInv, SeenOK, HostBufferBounded
<1> QED
  BY <1>4, <1>5, <1>6, <1>7, <1>8, <1>9 DEF LinkInv

LEMMA SenderSteps ==
    ASSUME LinkInv,
           \/ \E p \in Payloads :
                 \/ Send(p)
                 \/ \E k \in 1 .. MaxFrameLen :
                       SendCut(p, k) \/ \E x \in Octets : SendCorrupted(p, k, x)
           \/ \E noise \in Noises : Noise(noise)
    PROVE  \E w, b : Sent(w, b)
<1>1. number \in Nat
  BY KeptType
<1>2. ASSUME NEW p \in Payloads, Send(p) PROVE \E w, b : Sent(w, b)
  <2> DEFINE b == Body(number, p)
  <2>1. b \in Bodies /\ NumberOf(b) = number
    BY <1>1, BodySent
  <2>2. /\ wire' = wire \o Encode(b) /\ number' = number + 1 /\ intact' = Append(intact, b)
        /\ UNCHANGED <<receiver, seen, buf, delivered>>
    BY <1>2 DEF Send
  <2> HIDE DEF b
  <2>3. Puts(Encode(b), b, number, number + 1, intact, Append(intact, b))
    BY <1>1, <2>1, PutsFrame
  <2>4. Sent(Encode(b), b)
    BY <2>1, <2>2, <2>3 DEF Sent
  <2> QED
    BY <2>4
<1>3. ASSUME NEW p \in Payloads, NEW k \in 1 .. MaxFrameLen, SendCut(p, k)
      PROVE  \E w, b : Sent(w, b)
  <2> DEFINE b == Body(number, p)
             w == SubSeq(Encode(b), 1, k)
  <2>1. b \in Bodies /\ NumberOf(b) = number
    BY <1>1, BodySent
  <2>2. /\ wire' = wire \o w /\ number' = number + 1 /\ k < Len(Encode(b)) /\ intact' = intact
        /\ UNCHANGED <<receiver, seen, buf, delivered>>
    BY <1>3 DEF SendCut, Damaged
  <2> HIDE DEF b
  <2>3. k \in Nat
    BY FramingAssumption DEF MaxFrameLen, Overhead, HeaderLen
  <2>4. Puts(w, b, number, number + 1, intact, intact)
    BY <1>1, <2>1, <2>2, <2>3, PutsCut
  <2> HIDE DEF w
  <2>5. Sent(w, b)
    BY <2>2, <2>4 DEF Sent
  <2> QED
    BY <2>5
<1>4. ASSUME NEW p \in Payloads, NEW k \in 1 .. MaxFrameLen, NEW x \in Octets,
             SendCorrupted(p, k, x)
      PROVE  \E w, b : Sent(w, b)
  <2> DEFINE b == Body(number, p)
             w == [Encode(b) EXCEPT ![k] = Octet(x)]
  <2>1. b \in Bodies /\ NumberOf(b) = number
    BY <1>1, BodySent
  <2>2. /\ wire' = wire \o w /\ number' = number + 1 /\ intact' = intact
        /\ k \in 1 .. Len(Encode(b)) /\ Encode(b)[k].value # x
        /\ UNCHANGED <<receiver, seen, buf, delivered>>
    BY <1>4 DEF SendCorrupted, Damaged
  <2> HIDE DEF b
  <2>3. x \in Nat
    BY LinkAssumption
  <2>4. Puts(w, b, number, number + 1, intact, intact)
    BY <1>1, <2>1, <2>2, <2>3, PutsCorrupted
  <2> HIDE DEF w
  <2>5. Sent(w, b)
    BY <2>2, <2>4 DEF Sent
  <2> QED
    BY <2>5
<1>5. ASSUME NEW noise \in Noises, Noise(noise) PROVE \E w, b : Sent(w, b)
  <2> DEFINE w == [i \in 1 .. Len(noise) |-> Octet(noise[i])]
  <2>1. /\ wire' = wire \o w /\ number' = number /\ intact' = intact
        /\ UNCHANGED <<receiver, seen, buf, delivered>>
    BY <1>5 DEF Noise, Damaged
  <2>2. Puts(w, <<>>, number, number, intact, intact)
    BY <1>1, PutsNoise
  <2> HIDE DEF w
  <2>3. Sent(w, <<>>)
    BY <2>1, <2>2 DEF Sent
  <2> QED
    BY <2>3
<1> QED
  BY <1>2, <1>3, <1>4, <1>5

-----------------------------------------------------------------------------
(* A parser reads: now is what it kept and what it reads, rest what is     *)
(* still under way.                                                        *)
LEMMA FrontOf ==
    ASSUME NEW now \in Seq(StreamOctets), NEW rest \in Seq(StreamOctets)
    PROVE  IsFront(now, now \o rest)
<1> DEFINE s == now \o rest
<1>1. /\ s \in Seq(StreamOctets) /\ Len(s) = Len(now) + Len(rest)
      /\ \A i \in 1 .. (Len(now) + Len(rest)) :
            s[i] = IF i <= Len(now) THEN now[i] ELSE rest[i - Len(now)]
  BY ConcatProperties
<1> HIDE DEF s
<1>2. Len(now) \in Nat /\ Len(rest) \in Nat
  BY LenProperties
<1>3. Len(now) <= Len(s) /\ \A i \in 1 .. Len(now) : now[i] = s[i]
  BY <1>1, <1>2
<1> QED
  BY <1>3 DEF IsFront, s

LEMMA DropsFront ==
    ASSUME NEW now \in Seq(StreamOctets), NEW rest \in Seq(StreamOctets),
           NEW q, NEW k, Drops(q, now, k)
    PROVE  Drops(q \o rest, now \o rest, k)
<1> DEFINE s == now \o rest
           t == q \o rest
<1>1. /\ q \in Seq(StreamOctets) /\ k \in 0 .. Len(now) /\ Len(q) = Len(now) - k
      /\ \A i \in 1 .. Len(q) : q[i] = now[i + k]
  BY DEF Drops
<1>2. Len(now) \in Nat /\ Len(rest) \in Nat /\ Len(q) \in Nat
  BY <1>1, LenProperties
<1>3. /\ s \in Seq(StreamOctets) /\ Len(s) = Len(now) + Len(rest)
      /\ \A i \in 1 .. (Len(now) + Len(rest)) :
            s[i] = IF i <= Len(now) THEN now[i] ELSE rest[i - Len(now)]
  BY ConcatProperties
<1>4. /\ t \in Seq(StreamOctets) /\ Len(t) = Len(q) + Len(rest)
      /\ \A i \in 1 .. (Len(q) + Len(rest)) :
            t[i] = IF i <= Len(q) THEN q[i] ELSE rest[i - Len(q)]
  BY <1>1, ConcatProperties
<1> HIDE DEF s, t
<1>5. k \in 0 .. Len(s) /\ Len(t) = Len(s) - k
  BY <1>1, <1>2, <1>3, <1>4
<1>6. ASSUME NEW i \in 1 .. Len(t) PROVE t[i] = s[i + k]
  <2>1. i \in 1 .. (Len(q) + Len(rest)) /\ i + k \in 1 .. (Len(now) + Len(rest))
    BY <1>1, <1>2, <1>4
  <2>2. CASE i <= Len(q)
    <3>1. i \in 1 .. Len(q) /\ i + k <= Len(now)
      BY <1>1, <1>2, <2>2
    <3>2. t[i] = q[i] /\ s[i + k] = now[i + k]
      BY <1>3, <1>4, <2>1, <2>2, <3>1
    <3> QED
      BY <1>1, <3>1, <3>2
  <2>3. CASE ~(i <= Len(q))
    <3>1. ~(i + k <= Len(now)) /\ i - Len(q) = (i + k) - Len(now)
      BY <1>1, <1>2, <2>3
    <3>2. t[i] = rest[i - Len(q)] /\ s[i + k] = rest[(i + k) - Len(now)]
      BY <1>3, <1>4, <2>1, <2>3, <3>1
    <3> QED
      BY <3>1, <3>2
  <2> QED
    BY <2>2, <2>3
<1> QED
  BY <1>4, <1>5, <1>6 DEF Drops, s, t

(* The firmware's parser reads the octet o.  What it hands on is the frame *)
(* it has seen, for the last octet of that is a CRC of what lies between   *)
(* it and the magic.                                                       *)
(* What the parser has after o, and what it hands on.                      *)
FedDoes(q, o, after, out, k) ==
    /\ k \in 0 .. (Len(q) + 1)
    /\ Drops(after, Append(q, o), k) /\ SeenSoFar(after)
    /\ out \in Seq(Bodies) /\ Len(out) <= 1
    /\ Len(out) = 1 =>
          FrameAt(Append(q, o), 1, out[1]) /\ EndAt(1, out[1]) <= k

LEMMA ParsedIs ==
    ASSUME NEW q \in Seq(StreamOctets), NEW o \in StreamOctets, SeenSoFar(q),
           Accepts(q, o), Complete(Append(q, o)), CrcMatches(Append(q, o))
    PROVE  LET front == Append(q, o)
               body == BodyOf(front)
           IN  body \in Bodies /\ FrameAt(front, 1, body) /\ EndAt(1, body) <= Len(q) + 1
<1> DEFINE front == Append(q, o)
           body == BodyOf(front)
           v == front[7].value
<1>1. /\ front \in Seq(StreamOctets) /\ Len(front) = Len(q) + 1
      /\ \A i \in 1 .. Len(q) : front[i] = q[i]
      /\ front[Len(q) + 1] = o
  BY AppendProperties
<1>2. /\ Len(front) >= HeaderLen /\ Len(front) = Overhead + front[HeaderLen].value
      /\ CrcMatches(front)
  BY DEF Complete
<1>3. Len(q) \in Nat
  BY LenProperties
<1> HIDE DEF front
<1>4. v \in Nat /\ Len(front) >= 7 /\ Len(front) = 8 + v
  <2>1. 7 \in 1 .. Len(front)
    BY <1>1, <1>2, <1>3 DEF HeaderLen
  <2>2. v \in Nat
    BY <1>1, <2>1, StreamType
  <2> QED
    BY <1>2, <2>1, <2>2 DEF HeaderLen, Overhead
<1> HIDE DEF v
<1>5. \A i \in 1 .. 4 : front[1 + i - 1].value = Magic[i]
  <2> SUFFICES ASSUME NEW i \in 1 .. 4 PROVE front[1 + i - 1].value = Magic[i]
    OBVIOUS
  <2>1. i \in 1 .. Len(q) /\ i <= 4 /\ 1 + i - 1 = i
    BY <1>1, <1>3, <1>4
  <2> QED
    BY <1>1, <2>1 DEF SeenSoFar
<1>6. Window(SubSeq(front, 1, Len(front)), front, 1, v)
  <2>1. 1 + 8 + v <= Len(front) + 1 /\ Len(front) = 1 + 7 + v
    BY <1>4
  <2> DEFINE e == Len(front)
  <2>2. e = 1 + 7 + v
    BY <2>1
  <2> HIDE DEF e
  <2>3. Window(SubSeq(front, 1, e), front, 1, v)
    BY <1>1, <1>4, <2>1, <2>2, WindowIs
  <2> QED
    BY <2>3 DEF e
<1>7. SubSeq(front, 1, Len(front)) = front
  BY <1>1, SubSeqFull
<1>8. /\ body \in Seq(StreamOctets) /\ Len(body) = 3 + v
      /\ \A i \in 1 .. (3 + v) : body[i] = front[1 + 3 + i]
      /\ front[Len(front)] = front[1 + 7 + v]
  BY <1>6, <1>7 DEF Window
<1>9. front[1 + 7 + v] = Crc(body)
  BY <1>2, <1>8 DEF CrcMatches
<1> HIDE DEF body
<1>10. 1 + 7 + v \in 1 .. Len(front) /\ 1 + 7 + v = Len(q) + 1
  BY <1>1, <1>3, <1>4
<1>11. front[1 + 7 + v].of = body /\ body # <<>>
  <2>1. Len(body) # 0
    BY <1>4, <1>8
  <2> QED
    BY <1>9, <2>1, EmptySeq DEF Crc
<1>12. body \in Bodies
  BY <1>1, <1>10, <1>11, StreamType
<1>13. EndAt(1, body) = 1 + 7 + v
  <2>1. 1 + 4 + (3 + v) = 1 + 7 + v
    BY <1>4
  <2> QED
    BY <1>8, <2>1 DEF EndAt
<1>14. FrameAt(front, 1, body)
  <2>1. EndAt(1, body) <= Len(front)
    BY <1>10, <1>13
  <2> QED
    BY <1>5, <1>8, <1>9, <1>13, <2>1 DEF FrameAt
<1>15. EndAt(1, body) <= Len(q) + 1
  BY <1>3, <1>10, <1>13
<1> QED
  BY <1>12, <1>14, <1>15 DEF body, front

LEMMA FedIs ==
    ASSUME NEW q \in Seq(StreamOctets), NEW o \in StreamOctets, SeenSoFar(q)
    PROVE  \E k \in Nat : FedDoes(q, o, Fed(q, o), Parsed(q, o), k)
<1> DEFINE front == Append(q, o)
<1>1. /\ front \in Seq(StreamOctets) /\ Len(front) = Len(q) + 1
      /\ \A i \in 1 .. Len(q) : front[i] = q[i]
      /\ front[Len(q) + 1] = o
  BY AppendProperties
<1>2. Len(q) \in Nat
  BY LenProperties
<1>3. SeenSoFar(<<>>)
  BY DEF SeenSoFar, HeaderLen
<1>4. Drops(<<>>, front, Len(q) + 1)
  BY <1>1, <1>2, EmptySeq DEF Drops
<1>5. <<>> \in Seq(Bodies) /\ Len(<<>>) = 0
  BY EmptySeq
<1>6. CASE ~Accepts(q, o) /\ Len(q) = 1 /\ o.value = S
  <2>1. Fed(q, o) = <<o>> /\ Parsed(q, o) = <<>>
    BY <1>6 DEF Fed, Restart, Parsed
  <2>2. <<o>> \in Seq(StreamOctets) /\ Len(<<o>>) = 1 /\ <<o>>[1] = o
    OBVIOUS
  <2>3. Drops(<<o>>, front, 1)
    <3>1. 1 \in 0 .. Len(front) /\ Len(<<o>>) = Len(front) - 1 /\ front[2] = o
      BY <1>1, <1>6, <2>2
    <3> HIDE DEF front
    <3>2. ASSUME NEW i \in 1 .. Len(<<o>>) PROVE <<o>>[i] = front[i + 1]
      <4>1. i = 1 /\ i + 1 = 2
        BY <2>2
      <4> QED
        BY <2>2, <3>1, <4>1
    <3> QED
      BY <2>2, <3>1, <3>2 DEF Drops
  <2>4. SeenSoFar(<<o>>)
    <3>1. Magic[1] = S
      BY DEF Magic
    <3> QED
      BY <1>6, <2>2, <3>1 DEF SeenSoFar, HeaderLen
  <2>5. FedDoes(q, o, <<o>>, <<>>, 1)
    BY <1>2, <1>5, <2>3, <2>4 DEF FedDoes
  <2> QED
    BY <2>1, <2>5
<1>7. CASE ~Accepts(q, o) /\ ~(Len(q) = 1 /\ o.value = S)
  <2>1. Fed(q, o) = <<>> /\ Parsed(q, o) = <<>>
    BY <1>7 DEF Fed, Restart, Parsed
  <2>2. FedDoes(q, o, <<>>, <<>>, Len(q) + 1)
    BY <1>2, <1>3, <1>4, <1>5 DEF FedDoes
  <2> QED
    BY <1>2, <2>1, <2>2
<1>8. CASE Accepts(q, o) /\ Complete(front)
  <2>1. Fed(q, o) = <<>>
    BY <1>8 DEF Fed
  <2>2. CASE CrcMatches(front)
    <3> DEFINE body == BodyOf(front)
    <3>1. body \in Bodies /\ FrameAt(front, 1, body) /\ EndAt(1, body) <= Len(q) + 1
      BY <1>8, <2>2, ParsedIs
    <3>2. Parsed(q, o) = <<body>>
      BY <1>8, <2>2 DEF Parsed
    <3> HIDE DEF body
    <3>3. <<body>> \in Seq(Bodies) /\ Len(<<body>>) = 1 /\ <<body>>[1] = body
      BY <3>1
    <3>4. FedDoes(q, o, <<>>, <<body>>, Len(q) + 1)
      BY <1>2, <1>3, <1>4, <3>1, <3>3 DEF FedDoes
    <3> QED
      BY <1>2, <2>1, <3>2, <3>4
  <2>3. CASE ~CrcMatches(front)
    <3>1. Parsed(q, o) = <<>>
      BY <2>3 DEF Parsed
    <3>2. FedDoes(q, o, <<>>, <<>>, Len(q) + 1)
      BY <1>2, <1>3, <1>4, <1>5 DEF FedDoes
    <3> QED
      BY <1>2, <2>1, <3>1, <3>2
  <2> QED
    BY <2>2, <2>3
<1>9. CASE Accepts(q, o) /\ ~Complete(front)
  <2>1. Fed(q, o) = front /\ Parsed(q, o) = <<>>
    BY <1>9 DEF Fed, Parsed
  <2>2. Drops(front, front, 0)
    <3> HIDE DEF front
    <3> QED
      BY <1>1, <1>2 DEF Drops
  <2> HIDE DEF front
  <2>3. ASSUME NEW i \in 1 .. Len(front), i <= 4 PROVE front[i].value = Magic[i]
    <3>1. CASE i <= Len(q)
      BY <1>1, <1>2, <2>3, <3>1 DEF SeenSoFar
    <3>2. CASE ~(i <= Len(q))
      <4>1. i = Len(q) + 1 /\ Len(q) < 4
        BY <1>1, <1>2, <2>3, <3>2
      <4> QED
        BY <1>1, <1>9, <4>1 DEF Accepts
    <3> QED
      BY <3>1, <3>2
  <2>4. ASSUME Len(front) >= HeaderLen
        PROVE  ~TooLong(front[HeaderLen].value) /\ Len(front) < Overhead + front[HeaderLen].value
    <3>1. Len(front) >= 7 /\ 7 \in 1 .. Len(front)
      BY <1>1, <1>2, <2>4 DEF HeaderLen
    <3> DEFINE v == front[7].value
    <3>2. v \in Nat
      BY <1>1, <3>1, StreamType
    <3>3. Len(front) # Overhead + v
      BY <1>9, <2>4 DEF Complete, HeaderLen
    <3>4. CASE Len(q) = 6
      <4>1. front[7] = o
        BY <1>1, <3>4
      <4>2. ~TooLong(v)
        BY <1>9, <3>4, <4>1 DEF Accepts, HeaderLen
      <4> HIDE DEF v
      <4>3. Len(front) < Overhead + v
        BY <1>1, <3>2, <3>4 DEF Overhead, HeaderLen
      <4> QED
        BY <4>2, <4>3 DEF v, HeaderLen
    <3>5. CASE Len(q) # 6
      <4>1. Len(q) >= 7 /\ 7 \in 1 .. Len(q)
        <5> DEFINE n == Len(q)
        <5>1. n \in Nat /\ n >= 6 /\ n # 6
          BY <1>1, <1>2, <3>1, <3>5
        <5> HIDE DEF n
        <5>2. n >= 7 /\ 7 \in 1 .. n
          BY <5>1
        <5> QED
          BY <5>2 DEF n
      <4>2. front[7] = q[7]
        BY <1>1, <4>1
      <4>3. ~TooLong(v) /\ Len(q) < Overhead + v
        BY <4>1, <4>2 DEF SeenSoFar, HeaderLen
      <4> HIDE DEF v
      <4>4. Len(front) < Overhead + v
        BY <1>1, <1>2, <3>2, <3>3, <4>3 DEF Overhead, HeaderLen
      <4> QED
        BY <4>3, <4>4 DEF v, HeaderLen
    <3> QED
      BY <3>4, <3>5
  <2>5. SeenSoFar(front)
    BY <2>3, <2>4 DEF SeenSoFar
  <2>6. FedDoes(q, o, front, <<>>, 0)
    BY <1>2, <1>5, <2>2, <2>5 DEF FedDoes, front
  <2> QED
    BY <2>1, <2>6
<1> QED
  BY <1>6, <1>7, <1>8, <1>9

LEMMA HeadMoves ==
    ASSUME NEW q \in Seq(StreamOctets), NEW w \in Seq(StreamOctets), w # <<>>
    PROVE  Append(q, Head(w)) \o Tail(w) = q \o w
<1> DEFINE o == Head(w)
           rest == Tail(w)
           front == Append(q, o)
<1>1. o \in StreamOctets /\ rest \in Seq(StreamOctets) /\ Len(rest) = Len(w) - 1
      /\ \A i \in 1 .. Len(rest) : rest[i] = w[i + 1]
  BY HeadTailProperties
<1>2. o = w[1] /\ Len(w) \in Nat /\ Len(w) >= 1 /\ Len(q) \in Nat
  BY EmptySeq, LenProperties
<1> HIDE DEF o, rest
<1>3. /\ front \in Seq(StreamOctets) /\ Len(front) = Len(q) + 1
      /\ \A i \in 1 .. Len(q) : front[i] = q[i]
      /\ front[Len(q) + 1] = o
  BY <1>1, AppendProperties
<1> HIDE DEF front
<1>4. /\ front \o rest \in Seq(StreamOctets) /\ Len(front \o rest) = Len(front) + Len(rest)
      /\ \A i \in 1 .. (Len(front) + Len(rest)) :
            (front \o rest)[i] = IF i <= Len(front) THEN front[i] ELSE rest[i - Len(front)]
  BY <1>1, <1>3, ConcatProperties
<1>5. /\ q \o w \in Seq(StreamOctets) /\ Len(q \o w) = Len(q) + Len(w)
      /\ \A i \in 1 .. (Len(q) + Len(w)) :
            (q \o w)[i] = IF i <= Len(q) THEN q[i] ELSE w[i - Len(q)]
  BY ConcatProperties
<1>6. Len(front \o rest) = Len(q \o w)
  BY <1>1, <1>2, <1>3, <1>4, <1>5
<1>7. ASSUME NEW i \in 1 .. Len(front \o rest) PROVE (front \o rest)[i] = (q \o w)[i]
  <2>1. i \in 1 .. (Len(front) + Len(rest)) /\ i \in 1 .. (Len(q) + Len(w))
    BY <1>4, <1>5, <1>6
  <2>2. CASE i <= Len(q)
    <3>1. i <= Len(front) /\ i \in 1 .. Len(q)
      BY <1>2, <1>3, <2>2
    <3> QED
      BY <1>3, <1>4, <1>5, <2>1, <2>2, <3>1
  <2>3. CASE i = Len(q) + 1
    <3>1. i <= Len(front) /\ ~(i <= Len(q)) /\ i - Len(q) = 1
      BY <1>2, <1>3, <2>3
    <3>2. (front \o rest)[i] = front[i] /\ (q \o w)[i] = w[i - Len(q)]
      BY <1>4, <1>5, <2>1, <3>1
    <3> QED
      BY <1>2, <1>3, <2>3, <3>1, <3>2
  <2>4. CASE i > Len(q) + 1
    <3>1. /\ ~(i <= Len(front)) /\ ~(i <= Len(q)) /\ i - Len(front) \in 1 .. Len(rest)
          /\ (i - Len(front)) + 1 = i - Len(q)
      BY <1>1, <1>2, <1>3, <2>1, <2>4
    <3>2. (front \o rest)[i] = rest[i - Len(front)] /\ (q \o w)[i] = w[i - Len(q)]
      BY <1>4, <1>5, <2>1, <3>1
    <3>3. rest[i - Len(front)] = w[(i - Len(front)) + 1]
      BY <1>1, <3>1
    <3> QED
      BY <3>1, <3>2, <3>3
  <2> QED
    BY <1>2, <2>1, <2>2, <2>3, <2>4
<1>8. front \o rest = q \o w
  BY <1>4, <1>5, <1>6, <1>7, SeqEqual
<1> QED
  BY <1>8 DEF front, o, rest

LEMMA FedKeeps ==
    ASSUME NEW q \in Seq(StreamOctets), NEW o \in StreamOctets,
           NEW rest \in Seq(StreamOctets), NEW got, NEW sent, NEW n,
           Sane(Append(q, o) \o rest, got, sent, n),
           NEW after, NEW out, NEW k \in Nat, FedDoes(q, o, after, out, k)
    PROVE  Sane(after \o rest, got \o out, sent, n)
<1> DEFINE now == Append(q, o)
           s == now \o rest
<1>1. now \in Seq(StreamOctets) /\ Len(now) = Len(q) + 1 /\ Len(q) \in Nat
  BY AppendProperties, LenProperties
<1>2. /\ Drops(after, now, k) /\ out \in Seq(Bodies) /\ Len(out) <= 1
      /\ Len(out) = 1 => FrameAt(now, 1, out[1]) /\ EndAt(1, out[1]) <= k
  BY DEF FedDoes
<1> HIDE DEF now
<1>3. IsFront(now, s) /\ s \in Seq(StreamOctets)
  BY <1>1, FrontOf, ConcatProperties
<1>4. Drops(after \o rest, s, k)
  BY <1>1, <1>2, DropsFront
<1>5. Sane(s, got, sent, n)
  BY DEF now
<1> HIDE DEF s
<1>6. Len(out) \in Nat
  BY <1>2, LenProperties
<1>7. ASSUME NEW j \in 1 .. Len(out)
      PROVE  \E m \in 1 .. Len(s) : FrameAt(s, m, out[j]) /\ EndAt(m, out[j]) <= k
  <2>1. j = 1 /\ Len(out) = 1
    <3> DEFINE c == Len(out)
    <3>1. c \in Nat /\ c <= 1 /\ j \in 1 .. c
      BY <1>2, <1>6
    <3> HIDE DEF c
    <3>2. j = 1 /\ c = 1
      BY <3>1
    <3> QED
      BY <3>2 DEF c
  <2>2. FrameAt(now, 1, out[1]) /\ EndAt(1, out[1]) <= k /\ out[1] \in Bodies
    BY <1>2, <2>1, ElementOfSeq
  <2>3. 1 \in 1 .. Len(now) /\ 1 \in 1 .. Len(s)
    <3>1. Len(now) <= Len(s) /\ Len(s) \in Nat
      BY <1>3, LenProperties DEF IsFront
    <3> QED
      BY <1>1, <3>1
  <2>4. FrameAt(s, 1, out[1])
    BY <1>3, <2>2, <2>3, FrameOfFront
  <2> QED
    BY <2>1, <2>2, <2>3, <2>4
<1>8. Rising(out)
  <2>1. \A i, j \in 1 .. Len(out) : ~(i < j)
    BY <1>2, <1>6
  <2> QED
    BY <2>1 DEF Rising
<1>9. Takes(out, s, k)
  BY <1>2, <1>7, <1>8 DEF Takes
<1> QED
  BY <1>4, <1>5, <1>9, TakeKeeps

LEMMA DeviceKeeps ==
    ASSUME LinkInv, DeviceReads
    PROVE  LinkInv'
<1>1. /\ receiver = "device" /\ wire # <<>>
      /\ seen' = Fed(seen, Head(wire)) /\ delivered' = delivered \o Parsed(seen, Head(wire))
      /\ wire' = Tail(wire)
      /\ receiver' = receiver /\ buf' = buf /\ number' = number /\ intact' = intact
  BY DEF DeviceReads
<1>2. /\ wire \in Seq(StreamOctets) /\ seen \in Seq(StreamOctets) /\ buf \in Seq(StreamOctets)
  BY KeptType
<1>3. SeenSoFar(seen) /\ Sane(Kept \o wire, delivered, intact, number) /\ HostBufferBounded
  BY DEF LinkInv, SeenOK
<1>4. Kept = seen /\ Kept' = seen'
  BY <1>1 DEF Kept
<1>5. PICK o : o = Head(wire) /\ o \in StreamOctets
  BY <1>1, <1>2, HeadTailProperties
<1>6. PICK rest : rest = Tail(wire) /\ rest \in Seq(StreamOctets)
  BY <1>1, <1>2, HeadTailProperties
<1>7. PICK out : out = Parsed(seen, o)
  OBVIOUS
<1>8. PICK k \in Nat : FedDoes(seen, o, seen', out, k)
  BY <1>1, <1>2, <1>3, <1>5, <1>7, FedIs
<1>9. Sane(Append(seen, o) \o rest, delivered, intact, number)
  <2>1. Append(seen, Head(wire)) \o Tail(wire) = seen \o wire
    BY <1>1, <1>2, HeadMoves
  <2> QED
    BY <1>3, <1>4, <1>5, <1>6, <2>1
<1>10. Sane(seen' \o rest, delivered \o out, intact, number)
  BY <1>2, <1>5, <1>6, <1>8, <1>9, FedKeeps
<1>11. Sane(Kept' \o wire', delivered', intact', number')
  BY <1>1, <1>4, <1>5, <1>6, <1>7, <1>10
<1>12. seen' \in Seq(StreamOctets) /\ SeenSoFar(seen')
  BY <1>8 DEF FedDoes, Drops
<1>13. SeenOK' /\ wire' \in Seq(StreamOctets) /\ buf' \in Seq(StreamOctets)
       /\ HostBufferBounded' /\ receiver' # "host"
  BY <1>1, <1>2, <1>3, <1>6, <1>12 DEF SeenOK, HostBufferBounded
<1> QED
  BY <1>11, <1>13 DEF LinkInv

(* The browser's parser reads a chunk of k bytes.                          *)
LEMMA ChunkMoves ==
    ASSUME NEW q \in Seq(StreamOctets), NEW w \in Seq(StreamOctets),
           NEW k \in Nat, k <= Len(w)
    PROVE  /\ SubSeq(w, 1, k) \in Seq(StreamOctets)
           /\ SubSeq(w, k + 1, Len(w)) \in Seq(StreamOctets)
           /\ (q \o SubSeq(w, 1, k)) \o SubSeq(w, k + 1, Len(w)) = q \o w
<1> DEFINE chunk == SubSeq(w, 1, k)
           rest == SubSeq(w, k + 1, Len(w))
<1>1. Len(w) \in Nat /\ \A i \in 1 .. Len(w) : w[i] \in StreamOctets
  BY LenProperties, ElementOfSeq
<1>2. /\ chunk \in Seq(StreamOctets) /\ Len(chunk) = IF 1 <= k THEN k - 1 + 1 ELSE 0
      /\ \A i \in 1 .. (k - 1 + 1) : chunk[i] = w[1 + i - 1]
  <2>1. 1 \in Int /\ k \in Int /\ \A i \in 1 .. k : w[i] \in StreamOctets
    BY <1>1
  <2> QED
    BY <2>1, SubSeqProperties
<1>3. /\ rest \in Seq(StreamOctets)
      /\ Len(rest) = IF k + 1 <= Len(w) THEN Len(w) - (k + 1) + 1 ELSE 0
      /\ \A i \in 1 .. (Len(w) - (k + 1) + 1) : rest[i] = w[k + 1 + i - 1]
  <2> DEFINE b == k + 1
             e == Len(w)
  <2>1. b \in Int /\ e \in Int /\ \A i \in b .. e : w[i] \in StreamOctets
    BY <1>1
  <2> HIDE DEF b, e
  <2>2. /\ SubSeq(w, b, e) \in Seq(StreamOctets)
        /\ Len(SubSeq(w, b, e)) = IF b <= e THEN e - b + 1 ELSE 0
        /\ \A i \in 1 .. (e - b + 1) : SubSeq(w, b, e)[i] = w[b + i - 1]
    BY <2>1, SubSeqProperties
  <2> QED
    BY <2>2 DEF b, e
<1> HIDE DEF chunk, rest
<1>4. Len(chunk) = k /\ \A i \in 1 .. k : chunk[i] = w[i]
  <2>1. Len(chunk) = k
    BY <1>2
  <2>2. ASSUME NEW i \in 1 .. k PROVE chunk[i] = w[i]
    <3>1. i \in 1 .. (k - 1 + 1) /\ 1 + i - 1 = i
      OBVIOUS
    <3> QED
      BY <1>2, <3>1
  <2> QED
    BY <2>1, <2>2
<1>5. Len(rest) = Len(w) - k
  BY <1>1, <1>3
<1>6. ASSUME NEW i \in 1 .. (Len(w) - k) PROVE rest[i] = w[k + i]
  <2>1. i \in 1 .. (Len(w) - (k + 1) + 1) /\ k + 1 + i - 1 = k + i
    BY <1>1
  <2> QED
    BY <1>3, <2>1
<1>7. chunk \o rest = w
  <2>1. /\ chunk \o rest \in Seq(StreamOctets) /\ Len(chunk \o rest) = Len(chunk) + Len(rest)
        /\ \A i \in 1 .. (Len(chunk) + Len(rest)) :
              (chunk \o rest)[i] = IF i <= Len(chunk) THEN chunk[i] ELSE rest[i - Len(chunk)]
    BY <1>2, <1>3, ConcatProperties
  <2>2. Len(chunk \o rest) = Len(w)
    BY <1>1, <1>4, <1>5, <2>1
  <2>3. ASSUME NEW i \in 1 .. Len(chunk \o rest) PROVE (chunk \o rest)[i] = w[i]
    <3>1. i \in 1 .. (Len(chunk) + Len(rest))
      BY <2>1
    <3>2. CASE i <= k
      <4>1. i \in 1 .. k /\ i <= Len(chunk)
        BY <1>1, <1>4, <2>2, <3>2
      <4> QED
        BY <1>4, <2>1, <3>1, <4>1
    <3>3. CASE ~(i <= k)
      <4>1. i - k \in 1 .. (Len(w) - k) /\ k + (i - k) = i /\ ~(i <= Len(chunk))
        BY <1>1, <1>4, <2>2, <3>3
      <4>2. (chunk \o rest)[i] = rest[i - k]
        BY <1>4, <2>1, <3>1, <4>1
      <4>3. rest[i - k] = w[k + (i - k)]
        BY <1>6, <4>1
      <4> QED
        BY <4>1, <4>2, <4>3
    <3> QED
      BY <3>2, <3>3
  <2> QED
    BY <2>1, <2>2, <2>3, SeqEqual
<1>8. (q \o chunk) \o rest = q \o (chunk \o rest)
  <2>1. chunk \in Seq(StreamOctets) /\ rest \in Seq(StreamOctets)
    BY <1>2, <1>3
  <2> QED
    BY <2>1, ConcatAssociative
<1>9. (q \o chunk) \o rest = q \o w
  BY <1>7, <1>8
<1>10. chunk \in Seq(StreamOctets) /\ rest \in Seq(StreamOctets)
  BY <1>2, <1>3
<1> QED
  BY <1>9, <1>10 DEF chunk, rest

LEMMA KeepIs ==
    ASSUME NEW now \in Seq(StreamOctets), NEW keep \in Nat, keep >= 1, keep <= Len(now) + 1
    PROVE  Drops(SubSeq(now, keep, Len(now)), now, keep - 1)
<1> DEFINE e == Len(now)
           q == SubSeq(now, keep, e)
<1>1. e \in Nat /\ \A i \in 1 .. e : now[i] \in StreamOctets
  BY LenProperties, ElementOfSeq
<1>2. keep \in Int /\ e \in Int /\ keep <= e + 1 /\ \A i \in keep .. e : now[i] \in StreamOctets
  BY <1>1
<1> HIDE DEF e
<1>3. /\ q \in Seq(StreamOctets) /\ Len(q) = IF keep <= e THEN e - keep + 1 ELSE 0
      /\ \A i \in 1 .. (e - keep + 1) : q[i] = now[keep + i - 1]
  BY <1>2, SubSeqProperties
<1> HIDE DEF q
<1>4. keep - 1 \in 0 .. e /\ Len(q) = e - (keep - 1)
  BY <1>1, <1>2, <1>3
<1>5. ASSUME NEW i \in 1 .. Len(q) PROVE q[i] = now[i + (keep - 1)]
  <2>1. i \in 1 .. (e - keep + 1) /\ keep + i - 1 = i + (keep - 1)
    BY <1>1, <1>2, <1>4
  <2> QED
    BY <1>3, <2>1
<1> QED
  BY <1>3, <1>4, <1>5 DEF Drops, e, q

LEMMA HostKeeps ==
    ASSUME LinkInv, NEW c \in Chunks, HostReads(c)
    PROVE  LinkInv'
<1>1. /\ receiver = "host" /\ c <= Len(wire)
      /\ wire' = SubSeq(wire, c + 1, Len(wire))
      /\ receiver' = receiver /\ seen' = seen /\ number' = number /\ intact' = intact
  BY DEF HostReads
<1>2. /\ wire \in Seq(StreamOctets) /\ buf \in Seq(StreamOctets) /\ c \in Nat
  BY KeptType, LinkAssumption
<1>3. PICK now : now = buf \o SubSeq(wire, 1, c)
  OBVIOUS
<1>4. PICK out, keep : out = Scan(now).out /\ keep = Scan(now).keep
  OBVIOUS
<1>5. buf' = SubSeq(now, keep, Len(now)) /\ delivered' = delivered \o out
  BY <1>3, <1>4 DEF HostReads
<1>6. PICK rest : rest = SubSeq(wire, c + 1, Len(wire))
  OBVIOUS
<1>7. /\ SubSeq(wire, 1, c) \in Seq(StreamOctets) /\ rest \in Seq(StreamOctets)
      /\ now \o rest = buf \o wire
  BY <1>1, <1>2, <1>3, <1>6, ChunkMoves
<1>8. now \in Seq(StreamOctets)
  BY <1>2, <1>3, <1>7, ConcatProperties
<1>9. PICK s : s = now \o rest
  OBVIOUS
<1>10. s \in Seq(StreamOctets) /\ IsFront(now, s)
  BY <1>7, <1>8, <1>9, FrontOf, ConcatProperties
<1>11. Kept \o wire = s
  BY <1>1, <1>7, <1>9 DEF Kept
<1>12. Sane(s, delivered, intact, number) /\ Lossless(s, delivered, intact)
  BY <1>1, <1>11 DEF LinkInv
<1>13. Ordered(s)
  BY <1>12 DEF Sane
<1>14. /\ keep \in Nat /\ keep >= 1 /\ keep <= Len(now) + 1
       /\ Len(now) + 1 - keep < MaxFrameLen
       /\ Takes(out, s, keep - 1)
       /\ \A p \in 1 .. Len(s), b \in Bodies :
             Begins(s, p, b) /\ p < keep => \E j \in 1 .. Len(out) : out[j] = b
  BY <1>4, <1>10, <1>13, ScanTakes
<1>15. Drops(buf', now, keep - 1)
  BY <1>5, <1>8, <1>14, KeepIs
<1>16. PICK k \in Nat : k = keep - 1
  BY <1>14
<1>17. Drops(buf' \o rest, s, k)
  BY <1>7, <1>8, <1>9, <1>15, <1>16, DropsFront
<1>18. Sane(buf' \o rest, delivered \o out, intact, number)
  BY <1>12, <1>14, <1>16, <1>17, TakeKeeps
<1>19. Lossless(buf' \o rest, delivered \o out, intact)
  BY <1>12, <1>14, <1>16, <1>17, TakeLossless
<1>20. Kept' \o wire' = buf' \o rest
  BY <1>1, <1>6 DEF Kept
<1>21. Sane(Kept' \o wire', delivered', intact', number')
       /\ Lossless(Kept' \o wire', delivered', intact')
  BY <1>1, <1>5, <1>18, <1>19, <1>20
<1>22. Len(buf') < MaxFrameLen /\ buf' \in Seq(StreamOctets)
  <2>1. /\ buf' \in Seq(StreamOctets) /\ Len(buf') = Len(now) - (keep - 1)
    BY <1>15 DEF Drops
  <2>2. Len(now) \in Nat /\ MaxFrameLen \in Nat
    BY <1>8, LenProperties, FramingAssumption DEF MaxFrameLen, Overhead, HeaderLen
  <2>3. Len(now) - (keep - 1) = Len(now) + 1 - keep
    BY <1>14, <2>2
  <2> QED
    BY <1>14, <2>1, <2>3
<1>23. SeenOK' /\ wire' \in Seq(StreamOctets) /\ HostBufferBounded'
  BY <1>1, <1>6, <1>7, <1>22 DEF LinkInv, SeenOK, HostBufferBounded
<1> QED
  BY <1>21, <1>22, <1>23 DEF LinkInv
-----------------------------------------------------------------------------
LEMMA LinkInit == Init => LinkInv
<1> SUFFICES ASSUME Init PROVE LinkInv
  OBVIOUS
<1>1. /\ wire = <<>> /\ seen = <<>> /\ buf = <<>> /\ delivered = <<>> /\ intact = <<>>
      /\ number = 0
  BY DEF Init
<1>2. /\ <<>> \in Seq(StreamOctets) /\ <<>> \in Seq(Bodies) /\ Len(<<>>) = 0
      /\ <<>> \o <<>> = <<>>
  BY EmptySeq
<1>3. Kept \o wire = <<>>
  BY <1>1, <1>2 DEF Kept
<1>4. Sane(<<>>, <<>>, <<>>, 0)
  BY <1>2 DEF Sane, Ordered, Rising
<1>5. Lossless(<<>>, <<>>, <<>>)
  BY <1>2 DEF Lossless
<1>6. SeenSoFar(<<>>)
  BY DEF SeenSoFar, HeaderLen
<1>7. HostBufferBounded
  <2>1. MaxFrameLen \in Nat /\ MaxFrameLen > 0
    BY FramingAssumption DEF MaxFrameLen, Overhead, HeaderLen
  <2> QED
    BY <1>1, <1>2, <2>1 DEF HostBufferBounded
<1> QED
  BY <1>1, <1>2, <1>3, <1>4, <1>5, <1>6, <1>7 DEF LinkInv, SeenOK

LEMMA LinkStep == LinkInv /\ [Next]_vars => LinkInv'
<1> SUFFICES ASSUME LinkInv, [Next]_vars PROVE LinkInv'
  OBVIOUS
<1>1. CASE \/ \E p \in Payloads :
                 \/ Send(p)
                 \/ \E k \in 1 .. MaxFrameLen :
                       SendCut(p, k) \/ \E x \in Octets : SendCorrupted(p, k, x)
           \/ \E noise \in Noises : Noise(noise)
  <2>1. PICK w, b : Sent(w, b)
    BY <1>1, SenderSteps
  <2> QED
    BY <2>1, SentKeeps
<1>2. CASE DeviceReads
  BY <1>2, DeviceKeeps
<1>3. CASE \E k \in Chunks : HostReads(k)
  BY <1>3, HostKeeps
<1>4. CASE UNCHANGED vars
  <2>1. /\ receiver' = receiver /\ wire' = wire /\ seen' = seen /\ buf' = buf
        /\ delivered' = delivered /\ number' = number /\ intact' = intact
    BY <1>4 DEF vars
  <2>2. Kept' = Kept
    BY <2>1 DEF Kept
  <2> QED
    BY <2>1, <2>2 DEF LinkInv, SeenOK, HostBufferBounded
<1> QED
  BY <1>1, <1>2, <1>3, <1>4 DEF Next

LEMMA LinkInvHolds == Spec => []LinkInv
BY LinkInit, LinkStep, PTL DEF Spec

LEMMA SaneInOrder == LinkInv => InOrder
<1> SUFFICES ASSUME LinkInv PROVE InOrder
  OBVIOUS
<1>1. /\ delivered \in Seq(Bodies) /\ intact \in Seq(Bodies)
      /\ Rising(delivered)
      /\ \A i \in 1 .. Len(delivered) : \E j \in 1 .. Len(intact) : delivered[i] = intact[j]
  BY DEF LinkInv, Sane
<1>2. DOMAIN delivered = 1 .. Len(delivered) /\ DOMAIN intact = 1 .. Len(intact)
  BY <1>1, LenProperties
<1>3. ToSet(delivered) \subseteq ToSet(intact)
  BY <1>1, <1>2 DEF ToSet
<1> QED
  BY <1>1, <1>2, <1>3 DEF InOrder, Rising

LEMMA BegunWithin ==
    ASSUME NEW s \in Seq(StreamOctets), NEW b \in Bodies, NEW p \in 1 .. Len(s),
           EndAt(p, b) <= Len(s), Begins(s, p, b)
    PROVE  Within(Encode(b), s)
<1> DEFINE frame == Encode(b)
           l == Len(frame)
           i == p - 1
<1>1. /\ frame \in Seq(StreamOctets) /\ l = Len(b) + 5 /\ Len(b) \in Nat
      /\ p + 4 + Len(b) <= Len(s) /\ Len(s) \in Nat
  BY BodyType, EncodeIs, LenProperties DEF EndAt
<1>2. \A j \in 1 .. l : p + j - 1 <= Len(s) => s[p + j - 1] = frame[j]
  BY DEF Begins
<1> HIDE DEF frame
<1>3. l \in Nat /\ p + l - 1 <= Len(s)
  BY <1>1
<1> DEFINE e == p - 1 + l
<1>4. /\ p \in Int /\ e \in Int /\ p <= e /\ e - p + 1 = l /\ e <= Len(s)
      /\ i \in 0 .. (Len(s) - l) /\ i + 1 = p /\ i + l = e
  BY <1>1, <1>3
<1>5. \A j \in p .. e : s[j] \in StreamOctets
  <2> SUFFICES ASSUME NEW j \in p .. e PROVE s[j] \in StreamOctets
    OBVIOUS
  <2>1. j \in 1 .. Len(s)
    BY <1>1, <1>4
  <2> QED
    BY <2>1, ElementOfSeq
<1> HIDE DEF e, i, l
<1> DEFINE w == SubSeq(s, p, e)
<1>6. /\ w \in Seq(StreamOctets) /\ Len(w) = IF p <= e THEN e - p + 1 ELSE 0
      /\ \A j \in 1 .. (e - p + 1) : w[j] = s[p + j - 1]
  BY <1>4, <1>5, SubSeqProperties
<1> HIDE DEF w
<1>7. Len(w) = Len(frame)
  BY <1>4, <1>6 DEF l
<1>8. ASSUME NEW j \in 1 .. Len(w) PROVE w[j] = frame[j]
  <2>1. j \in 1 .. l /\ j \in 1 .. (e - p + 1)
    BY <1>4, <1>7 DEF l
  <2>2. p + j - 1 <= Len(s)
    BY <1>1, <1>3, <2>1
  <2> QED
    BY <1>2, <1>6, <2>1, <2>2
<1>9. w = frame
  BY <1>1, <1>6, <1>7, <1>8, SeqEqual
<1>10. SubSeq(s, i + 1, i + l) = frame
  BY <1>4, <1>9 DEF w
<1>11. Within(frame, s)
  BY <1>4, <1>10 DEF Within, l
<1> QED
  BY <1>11 DEF frame

LEMMA NothingLost == LinkInv => HostLosesNothing
<1> SUFFICES ASSUME LinkInv, receiver = "host"
             PROVE  /\ IsPrefix(delivered, intact)
                    /\ \A i \in (Len(delivered) + 1) .. Len(intact) :
                          Within(Encode(intact[i]), buf \o wire)
  BY DEF HostLosesNothing
<1>1. delivered \in Seq(Bodies) /\ intact \in Seq(Bodies) /\ Kept \o wire \in Seq(StreamOctets)
  BY KeptType
<1>2. Kept = buf
  BY DEF Kept
<1>3. Lossless(buf \o wire, delivered, intact) /\ buf \o wire \in Seq(StreamOctets)
  BY <1>1, <1>2 DEF LinkInv
<1>4. Len(delivered) \in Nat /\ Len(intact) \in Nat /\ Len(delivered) <= Len(intact)
      /\ \A i \in 1 .. Len(delivered) : delivered[i] = intact[i]
  BY <1>1, <1>3, LenProperties DEF Lossless
<1>5. IsPrefix(delivered, intact)
  <2> DEFINE n == Len(delivered)
             q == SubSeq(intact, 1, n)
  <2>1. 1 \in Int /\ n \in Int /\ \A i \in 1 .. n : intact[i] \in Bodies
    <3>1. \A i \in 1 .. n : i \in 1 .. Len(intact)
      BY <1>4
    <3> QED
      BY <1>1, <1>4, <3>1, ElementOfSeq
  <2>2. SubSeq(delivered, 1, n) = delivered
    BY <1>1, SubSeqFull
  <2>3. n \in Nat /\ delivered \in Seq(Bodies) /\ Len(delivered) = n
        /\ \A i \in 1 .. n : delivered[i] = intact[i]
    BY <1>1, <1>4
  <2> HIDE DEF n
  <2>4. /\ q \in Seq(Bodies) /\ Len(q) = IF 1 <= n THEN n - 1 + 1 ELSE 0
        /\ \A i \in 1 .. (n - 1 + 1) : q[i] = intact[1 + i - 1]
    BY <2>1, SubSeqProperties
  <2> HIDE DEF q
  <2>5. Len(q) = n /\ \A i \in 1 .. n : i \in 1 .. (n - 1 + 1) /\ 1 + i - 1 = i
    BY <2>3, <2>4
  <2>6. \A i \in 1 .. Len(delivered) : delivered[i] = q[i]
    <3> SUFFICES ASSUME NEW i \in 1 .. n PROVE delivered[i] = q[i]
      BY <2>3
    <3>1. i \in 1 .. (n - 1 + 1) /\ 1 + i - 1 = i
      BY <2>5
    <3>2. q[i] = intact[1 + i - 1]
      BY <2>4, <3>1
    <3> QED
      BY <2>3, <3>1, <3>2
  <2>7. delivered = q
    BY <2>3, <2>4, <2>5, <2>6, SeqEqual
  <2> QED
    BY <1>4, <2>2, <2>7 DEF IsPrefix, n, q
<1>6. ASSUME NEW i \in (Len(delivered) + 1) .. Len(intact)
      PROVE  Within(Encode(intact[i]), buf \o wire)
  <2> DEFINE s == buf \o wire
  <2>1. i \in 1 .. Len(intact) /\ intact[i] \in Bodies
    <3>1. i \in 1 .. Len(intact)
      BY <1>4
    <3> QED
      BY <1>1, <3>1, ElementOfSeq
  <2>2. PICK p \in 1 .. Len(s) : EndAt(p, intact[i]) <= Len(s) /\ Begins(s, p, intact[i])
    BY <1>3 DEF Lossless
  <2> QED
    BY <1>3, <2>1, <2>2, BegunWithin
<1> QED
  BY <1>5, <1>6

(* Either parser hands on (handle_incoming_frame of the firmware, _onFrame *)
(* of the browser) only frames that were put on the wire whole, each once  *)
(* and in the order they were sent, whatever frames are cut short or       *)
(* changed on the way and whatever noise there is between them.            *)
THEOREM InOrderHolds == Spec => []InOrder
BY LinkInvHolds, SaneInOrder, PTL

(* feed() of the browser's parser loses no frame that arrives whole,       *)
(* however the stream is cut into chunks: what it has handed on is what    *)
(* was sent first, and the rest is in its buffer or under way.             *)
THEOREM HostLosesNothingHolds == Spec => []HostLosesNothing
BY LinkInvHolds, NothingLost, PTL

(* feed() leaves less than one longest frame in its buffer.                *)
THEOREM HostBufferBoundedHolds == Spec => []HostBufferBounded
<1>1. LinkInv => HostBufferBounded
  BY DEF LinkInv
<1> QED
  BY <1>1, LinkInvHolds, PTL

-----------------------------------------------------------------------------
(* The states t of a parser that reads w from the state s on.              *)
Trace(t, s, w) ==
    /\ t[0] = s
    /\ \A k \in 0 .. Len(w) : t[k] \in Seq(StreamOctets) /\ SeenSoFar(t[k])
    /\ \A k \in 1 .. Len(w) : t[k] = Fed(t[k - 1], w[k])

(* The frame b has been handed on, or will be when w is read.              *)
Comes(t, w, got, b) ==
    \/ \E j \in 1 .. Len(got) : got[j] = b
    \/ \E k \in 1 .. Len(w) : Parsed(t[k - 1], w[k]) = <<b>>

(* At the end of what is under way the parser is in no frame, or in one    *)
(* that began before the latest damage ended, calm octets ago; the frames  *)
(* of due come.                                                            *)
Steady(s, w, got, due, calm) ==
    \E t : /\ Trace(t, s, w)
           /\ Len(t[Len(w)]) <= 1 \/ Len(t[Len(w)]) > calm
           /\ \A i \in 1 .. Len(due) : Comes(t, w, got, due[i])

LEMMA Climb ==
    ASSUME NEW T, NEW a \in Nat, NEW n \in Nat, a \in T,
           \A k \in a .. (n - 1) : k \in T => k + 1 \in T
    PROVE  \A k \in a .. n : k \in T
<1> SUFFICES ASSUME NEW j \in a .. n, j \notin T PROVE FALSE
  OBVIOUS
<1> DEFINE U == {k \in a .. n : k \notin T}
<1>1. U \in SUBSET Nat /\ j \in U
  OBVIOUS
<1>2. PICK m \in U : \A k \in U : m <= k
  BY <1>1, Least
<1>3. m \in a .. n /\ m \notin T
  OBVIOUS
<1>4. m # a
  BY <1>3
<1>5. m - 1 \in a .. (n - 1) /\ ~(m <= m - 1) /\ m - 1 \in a .. n
  BY <1>3, <1>4
<1>6. m - 1 \in T
  BY <1>2, <1>5
<1>7. (m - 1) + 1 \in T /\ (m - 1) + 1 = m
  BY <1>3, <1>5, <1>6
<1> QED
  BY <1>3, <1>7

(* What an octet does to the state of the parser.                          *)
LEMMA FedType ==
    ASSUME NEW q \in Seq(StreamOctets), NEW o \in StreamOctets, SeenSoFar(q)
    PROVE  Fed(q, o) \in Seq(StreamOctets) /\ SeenSoFar(Fed(q, o)) /\ Parsed(q, o) \in Seq(Bodies)
BY FedIs DEF FedDoes, Drops

LEMMA FedCases ==
    ASSUME NEW q \in Seq(StreamOctets), NEW o \in StreamOctets
    PROVE  \/ Accepts(q, o) /\ Len(Fed(q, o)) = Len(q) + 1
           \/ Len(q) = 1 /\ o.value = S /\ Len(Fed(q, o)) = 1
           \/ Fed(q, o) = <<>>
<1>1. Len(Append(q, o)) = Len(q) + 1
  BY AppendProperties
<1>2. Len(<<o>>) = 1
  OBVIOUS
<1>3. \/ Accepts(q, o) /\ Fed(q, o) = Append(q, o)
      \/ Len(q) = 1 /\ o.value = S /\ Fed(q, o) = <<o>>
      \/ Fed(q, o) = <<>>
  BY DEF Fed, Restart
<1> QED
  BY <1>1, <1>2, <1>3

LEMMA FedCalm ==
    ASSUME NEW q \in Seq(StreamOctets), NEW o \in StreamOctets, Len(q) <= 1,
           Len(q) = 1 => o.value # Magic[2]
    PROVE  Len(Fed(q, o)) <= 1 /\ (Len(Fed(q, o)) = 1 => o.value = S)
<1>1. Len(q) \in Nat
  BY LenProperties
<1>2. Len(<<>>) = 0
  BY EmptySeq
<1>3. CASE Accepts(q, o) /\ Len(Fed(q, o)) = Len(q) + 1
  <2>1. Len(q) < 4 => o.value = Magic[Len(q) + 1]
    BY <1>3 DEF Accepts
  <2>2. Len(q) = 0
    <3>1. Len(q) = 1 => o.value = Magic[2]
      BY <2>1
    <3>2. Len(q) # 1
      BY <3>1
    <3>3. \A n \in Nat : n <= 1 /\ n # 1 => n = 0
      OBVIOUS
    <3> QED
      BY <1>1, <3>2, <3>3, Zenon
  <2>3. o.value = S
    BY <2>1, <2>2 DEF Magic
  <2> QED
    BY <1>3, <2>2, <2>3
<1>4. CASE Len(q) = 1 /\ o.value = S /\ Len(Fed(q, o)) = 1
  BY <1>4
<1>5. CASE Fed(q, o) = <<>>
  BY <1>2, <1>5
<1> QED
  BY <1>3, <1>4, <1>5, FedCases

(* A parser reads any octets.                                              *)
LEMMA TraceExists ==
    ASSUME NEW s \in Seq(StreamOctets), SeenSoFar(s), NEW w \in Seq(StreamOctets)
    PROVE  \E t : Trace(t, s, w)
<1> DEFINE Upto(t, n) ==
             /\ t[0] = s
             /\ \A k \in 0 .. n : t[k] \in Seq(StreamOctets) /\ SeenSoFar(t[k])
             /\ \A k \in 1 .. n : t[k] = Fed(t[k - 1], w[k])
           T == {n \in Nat : \E t : Upto(t, n)}
<1>1. Len(w) \in Nat /\ \A k \in 1 .. Len(w) : w[k] \in StreamOctets
  BY LenProperties, ElementOfSeq
<1>2. 0 \in T
  <2> DEFINE t == [k \in {0} |-> s]
  <2>1. t[0] = s
    OBVIOUS
  <2> HIDE DEF t
  <2>2. Upto(t, 0)
    BY <2>1
  <2> QED
    BY <2>2
<1>3. ASSUME NEW n \in 0 .. (Len(w) - 1), n \in T PROVE n + 1 \in T
  <2>1. PICK t : Upto(t, n)
    BY <1>3
  <2> DEFINE u == [k \in 0 .. (n + 1) |-> IF k <= n THEN t[k] ELSE Fed(t[n], w[n + 1])]
  <2>2. n \in Nat /\ n + 1 \in 1 .. Len(w)
    BY <1>1
  <2>3. /\ \A k \in 0 .. n : u[k] = t[k]
        /\ u[n + 1] = Fed(t[n], w[n + 1])
    BY <2>2
  <2> HIDE DEF u
  <2>4. t[n] \in Seq(StreamOctets) /\ SeenSoFar(t[n]) /\ w[n + 1] \in StreamOctets
    BY <1>1, <2>1, <2>2
  <2>5. u[n + 1] \in Seq(StreamOctets) /\ SeenSoFar(u[n + 1])
    BY <2>3, <2>4, FedType
  <2>6. u[0] = s
    BY <2>1, <2>2, <2>3
  <2>7. ASSUME NEW k \in 0 .. (n + 1) PROVE u[k] \in Seq(StreamOctets) /\ SeenSoFar(u[k])
    <3>1. k \in 0 .. n \/ k = n + 1
      BY <2>2
    <3> QED
      BY <2>1, <2>3, <2>5, <3>1
  <2>8. ASSUME NEW k \in 1 .. (n + 1) PROVE u[k] = Fed(u[k - 1], w[k])
    <3>1. CASE k = n + 1
      <4>1. k - 1 = n /\ n \in 0 .. n
        BY <2>2, <3>1
      <4> QED
        BY <2>3, <3>1, <4>1
    <3>2. CASE k # n + 1
      <4>1. k \in 1 .. n /\ k \in 0 .. n /\ k - 1 \in 0 .. n
        BY <2>2, <3>2
      <4> QED
        BY <2>1, <2>3, <4>1
    <3> QED
      BY <3>1, <3>2
  <2>9. Upto(u, n + 1)
    BY <2>6, <2>7, <2>8
  <2> QED
    BY <2>2, <2>9
<1> HIDE DEF T
<1>4. \A k \in 0 .. Len(w) : k \in T
  BY <1>1, <1>2, <1>3, Climb
<1>5. Len(w) \in T
  BY <1>1, <1>4
<1>6. PICK t : Upto(t, Len(w))
  BY <1>5 DEF T
<1> QED
  BY <1>6 DEF Trace

(* It reads w, then v.                                                     *)
Joined(t, u, l, n) == [k \in 0 .. (l + n) |-> IF k <= l THEN t[k] ELSE u[k - l]]

LEMMA TraceJoin ==
    ASSUME NEW s, NEW w \in Seq(StreamOctets), NEW v \in Seq(StreamOctets),
           NEW t, Trace(t, s, w), NEW u, Trace(u, t[Len(w)], v), NEW got,
           NEW j, j = Joined(t, u, Len(w), Len(v))
    PROVE  /\ Trace(j, s, w \o v) /\ j[Len(w \o v)] = u[Len(v)]
           /\ \A b : Comes(t, w, got, b) => Comes(j, w \o v, got, b)
           /\ \A b : Comes(u, v, <<>>, b) => Comes(j, w \o v, got, b)
<1> DEFINE l == Len(w)
           n == Len(v)
           x == w \o v
<1>1. l \in Nat /\ n \in Nat
  BY LenProperties
<1>2. Len(x) = l + n /\ \A k \in 1 .. (l + n) : x[k] = IF k <= l THEN w[k] ELSE v[k - l]
  BY ConcatProperties
<1>3. /\ t[0] = s
      /\ \A k \in 0 .. l : t[k] \in Seq(StreamOctets) /\ SeenSoFar(t[k])
      /\ \A k \in 1 .. l : t[k] = Fed(t[k - 1], w[k])
  BY DEF Trace
<1>4. /\ u[0] = t[l]
      /\ \A k \in 0 .. n : u[k] \in Seq(StreamOctets) /\ SeenSoFar(u[k])
      /\ \A k \in 1 .. n : u[k] = Fed(u[k - 1], v[k])
  BY DEF Trace
<1>5. j = Joined(t, u, l, n)
  OBVIOUS
<1>6. \A b : Comes(t, w, got, b) =>
        \/ \E i \in 1 .. Len(got) : got[i] = b
        \/ \E k \in 1 .. l : Parsed(t[k - 1], w[k]) = <<b>>
  BY DEF Comes
<1>7. \A b : Comes(u, v, <<>>, b) => \E k \in 1 .. n : Parsed(u[k - 1], v[k]) = <<b>>
  BY EmptySeq DEF Comes
<1> HIDE DEF l, n, x
<1>8. \A k \in 0 .. (l + n) : j[k] = IF k <= l THEN t[k] ELSE u[k - l]
  BY <1>5 DEF Joined
<1>9. \A k \in 0 .. l : j[k] = t[k]
  BY <1>1, <1>8
<1>10. \A k \in 0 .. n : j[l + k] = u[k]
  <2> TAKE k \in 0 .. n
  <2>1. l + k \in 0 .. (l + n) /\ (l + k) - l = k /\ (k # 0 => ~(l + k <= l)) /\ l + 0 = l
        /\ l \in 0 .. l
    BY <1>1
  <2>2. CASE k = 0
    BY <1>4, <1>9, <2>1, <2>2
  <2>3. CASE k # 0
    BY <1>8, <2>1, <2>3
  <2> QED
    BY <2>2, <2>3
<1>11. ASSUME NEW k \in 0 .. (l + n) PROVE k \in 0 .. l \/ \E m \in 1 .. n : k = l + m
  <2>1. k <= l => k \in 0 .. l
    BY <1>1
  <2>2. ~(k <= l) => k - l \in 1 .. n /\ k = l + (k - l)
    BY <1>1
  <2> QED
    BY <2>1, <2>2
<1>12. ASSUME NEW k \in 0 .. (l + n) PROVE j[k] \in Seq(StreamOctets) /\ SeenSoFar(j[k])
  <2>1. CASE k \in 0 .. l
    BY <1>3, <1>9, <2>1
  <2>2. ASSUME NEW m \in 1 .. n, k = l + m
        PROVE  j[k] \in Seq(StreamOctets) /\ SeenSoFar(j[k])
    <3>1. m \in 0 .. n
      BY <1>1
    <3> QED
      BY <1>4, <1>10, <2>2, <3>1
  <2> QED
    BY <1>11, <2>1, <2>2
<1>13. ASSUME NEW k \in 1 .. l
       PROVE  /\ j[k - 1] = t[k - 1] /\ x[k] = w[k] /\ j[k] = t[k] /\ k \in 1 .. (l + n)
  <2>1. k - 1 \in 0 .. l /\ k \in 0 .. l /\ k \in 1 .. (l + n) /\ k <= l
    BY <1>1
  <2> QED
    BY <1>2, <1>9, <2>1
<1>14. ASSUME NEW m \in 1 .. n
       PROVE  /\ j[(l + m) - 1] = u[m - 1] /\ x[l + m] = v[m] /\ j[l + m] = u[m]
              /\ l + m \in 1 .. (l + n)
  <2>1. /\ m - 1 \in 0 .. n /\ m \in 0 .. n /\ (l + m) - 1 = l + (m - 1)
        /\ l + m \in 1 .. (l + n) /\ ~(l + m <= l) /\ (l + m) - l = m
    BY <1>1
  <2> QED
    BY <1>2, <1>10, <2>1
<1>15. ASSUME NEW k \in 1 .. (l + n) PROVE j[k] = Fed(j[k - 1], x[k])
  <2>1. CASE k \in 1 .. l
    BY <1>3, <1>13, <2>1
  <2>2. ASSUME NEW m \in 1 .. n, k = l + m PROVE j[k] = Fed(j[k - 1], x[k])
    BY <1>4, <1>14, <2>2
  <2>3. k \in 0 .. (l + n) /\ (k \in 0 .. l => k \in 1 .. l)
    BY <1>1
  <2> QED
    BY <1>11, <2>1, <2>2, <2>3
<1>16. Trace(j, s, x)
  <2>1. j[0] = s
    <3>1. 0 \in 0 .. l
      BY <1>1
    <3> QED
      BY <1>3, <1>9, <3>1
  <2> QED
    BY <1>2, <1>12, <1>15, <2>1 DEF Trace
<1>17. j[Len(x)] = u[n]
  BY <1>1, <1>2, <1>10
<1>18. ASSUME NEW b, Comes(t, w, got, b) PROVE Comes(j, x, got, b)
  <2>1. ASSUME NEW k \in 1 .. l, Parsed(t[k - 1], w[k]) = <<b>> PROVE Comes(j, x, got, b)
    BY <1>2, <1>13, <2>1 DEF Comes
  <2>2. ASSUME NEW i \in 1 .. Len(got), got[i] = b PROVE Comes(j, x, got, b)
    BY <2>2 DEF Comes
  <2> QED
    BY <1>6, <1>18, <2>1, <2>2
<1>19. ASSUME NEW b, Comes(u, v, <<>>, b) PROVE Comes(j, x, got, b)
  <2>1. PICK m \in 1 .. n : Parsed(u[m - 1], v[m]) = <<b>>
    BY <1>7, <1>19
  <2>2. Parsed(j[(l + m) - 1], x[l + m]) = <<b>> /\ l + m \in 1 .. Len(x)
    BY <1>2, <1>14, <2>1
  <2> QED
    BY <2>2 DEF Comes
<1> QED
  BY <1>16, <1>17, <1>18, <1>19 DEF x, n

(* It reads the first octet of w.                                          *)
LEMMA SteadyReads ==
    ASSUME NEW s \in Seq(StreamOctets), SeenSoFar(s),
           NEW w \in Seq(StreamOctets), w # <<>>, NEW got \in Seq(Bodies), NEW due, NEW calm,
           Steady(s, w, got, due, calm)
    PROVE  Steady(Fed(s, Head(w)), Tail(w), got \o Parsed(s, Head(w)), due, calm)
<1> DEFINE n == Len(w)
           v == Tail(w)
           out == Parsed(s, w[1])
           all == got \o out
<1>1. n \in Nat /\ n # 0 /\ w[1] \in StreamOctets /\ Head(w) = w[1]
  <2>1. n \in Nat /\ n # 0
    BY LenProperties, EmptySeq
  <2>2. 1 \in 1 .. n
    BY <2>1
  <2> QED
    BY <2>1, <2>2, ElementOfSeq
<1>2. Len(v) = n - 1 /\ \A i \in 1 .. (n - 1) : v[i] = w[i + 1]
  <2>1. Len(Tail(w)) = Len(w) - 1 /\ \A i \in 1 .. Len(Tail(w)) : Tail(w)[i] = w[i + 1]
    BY HeadTailProperties
  <2> QED
    BY <2>1
<1>3. PICK t : /\ Trace(t, s, w)
               /\ Len(t[n]) <= 1 \/ Len(t[n]) > calm
               /\ \A i \in 1 .. Len(due) : Comes(t, w, got, due[i])
  BY DEF Steady
<1>4. /\ t[0] = s
      /\ \A k \in 0 .. n : t[k] \in Seq(StreamOctets) /\ SeenSoFar(t[k])
      /\ \A k \in 1 .. n : t[k] = Fed(t[k - 1], w[k])
  BY <1>3 DEF Trace
<1>5. out \in Seq(Bodies)
  BY <1>1, FedType
<1>6. /\ Len(all) = Len(got) + Len(out) /\ Len(got) \in Nat /\ Len(out) \in Nat
      /\ \A i \in 1 .. (Len(got) + Len(out)) :
            all[i] = IF i <= Len(got) THEN got[i] ELSE out[i - Len(got)]
  <2>1. got \in Seq(Bodies) /\ out \in Seq(Bodies)
    BY <1>5
  <2> HIDE DEF out
  <2> QED
    BY <2>1, ConcatProperties, LenProperties
<1>7. \A b : Comes(t, w, got, b) =>
        \/ \E i \in 1 .. Len(got) : got[i] = b
        \/ \E k \in 1 .. n : Parsed(t[k - 1], w[k]) = <<b>>
  BY DEF Comes
<1> DEFINE u == [k \in 0 .. (n - 1) |-> t[k + 1]]
<1> HIDE DEF n, v, all
<1>8. \A k \in 0 .. (n - 1) : u[k] = t[k + 1]
  OBVIOUS
<1> HIDE DEF u
<1>9. u[0] = Fed(s, w[1]) /\ u[n - 1] = t[n]
  <2>1. 0 \in 0 .. (n - 1) /\ n - 1 \in 0 .. (n - 1) /\ 1 \in 1 .. n
        /\ 0 + 1 = 1 /\ 1 - 1 = 0 /\ (n - 1) + 1 = n
    BY <1>1
  <2> QED
    BY <1>4, <1>8, <2>1
<1>10. Trace(u, Fed(s, w[1]), v)
  <2>1. ASSUME NEW k \in 0 .. (n - 1) PROVE u[k] \in Seq(StreamOctets) /\ SeenSoFar(u[k])
    <3>1. k + 1 \in 0 .. n
      BY <1>1
    <3> QED
      BY <1>4, <1>8, <3>1
  <2>2. ASSUME NEW k \in 1 .. (n - 1) PROVE u[k] = Fed(u[k - 1], v[k])
    <3>1. k \in 0 .. (n - 1) /\ k - 1 \in 0 .. (n - 1) /\ k + 1 \in 1 .. n
          /\ (k + 1) - 1 = k /\ (k - 1) + 1 = k
      BY <1>1
    <3> QED
      BY <1>2, <1>4, <1>8, <3>1
  <2> QED
    BY <1>2, <1>9, <2>1, <2>2 DEF Trace
<1>11. ASSUME NEW b, Comes(t, w, got, b) PROVE Comes(u, v, all, b)
  <2>1. ASSUME NEW i \in 1 .. Len(got), got[i] = b PROVE Comes(u, v, all, b)
    <3>1. i \in 1 .. (Len(got) + Len(out)) /\ i <= Len(got)
      BY <1>6
    <3>2. all[i] = b /\ i \in 1 .. Len(all)
      BY <1>6, <2>1, <3>1
    <3> QED
      BY <3>2 DEF Comes
  <2>2. ASSUME NEW k \in 1 .. n, Parsed(t[k - 1], w[k]) = <<b>> PROVE Comes(u, v, all, b)
    <3>1. CASE k = 1
      <4>1. out = <<b>>
        BY <1>4, <2>2, <3>1
      <4> HIDE DEF out
      <4>2. Len(out) = 1 /\ out[1] = b
        BY <4>1
      <4>3. /\ Len(got) + 1 \in 1 .. (Len(got) + Len(out)) /\ ~(Len(got) + 1 <= Len(got))
            /\ (Len(got) + 1) - Len(got) = 1
        BY <1>6, <4>2
      <4>4. all[Len(got) + 1] = b /\ Len(got) + 1 \in 1 .. Len(all)
        BY <1>6, <4>2, <4>3
      <4> QED
        BY <4>4 DEF Comes
    <3>2. CASE k # 1
      <4>1. k - 1 \in 1 .. (n - 1) /\ (k - 1) + 1 = k /\ (k - 1) - 1 \in 0 .. (n - 1)
            /\ ((k - 1) - 1) + 1 = k - 1
        BY <1>1, <3>2
      <4>2. u[(k - 1) - 1] = t[k - 1] /\ v[k - 1] = w[k] /\ k - 1 \in 1 .. Len(v)
        BY <1>2, <1>8, <4>1
      <4>3. Parsed(u[(k - 1) - 1], v[k - 1]) = <<b>>
        BY <2>2, <4>2
      <4> QED
        BY <4>2, <4>3 DEF Comes
    <3> QED
      BY <3>1, <3>2
  <2> QED
    BY <1>7, <1>11, <2>1, <2>2
<1>12. Len(u[Len(v)]) <= 1 \/ Len(u[Len(v)]) > calm
  BY <1>2, <1>3, <1>9 DEF n
<1>13. Steady(Fed(s, w[1]), v, all, due, calm)
  BY <1>3, <1>10, <1>11, <1>12 DEF Steady
<1> QED
  BY <1>1, <1>13 DEF v, all, out

(* In no frame, it begins none as long as there is none.                   *)
LEMMA CalmStays ==
    ASSUME NEW t, NEW s, NEW w \in Seq(StreamOctets), Trace(t, s, w),
           NEW a \in 0 .. Len(w), Len(t[a]) <= 1,
           Len(t[a]) = 1 /\ a < Len(w) => w[a + 1].value # Magic[2],
           \A i \in (a + 1) .. (Len(w) - 1) : ~(w[i].value = S /\ w[i + 1].value = Magic[2])
    PROVE  Len(t[Len(w)]) <= 1
<1> DEFINE n == Len(w)
           T == {k \in Nat : /\ Len(t[k]) <= 1
                             /\ Len(t[k]) = 1 /\ k < n => w[k + 1].value # Magic[2]}
<1>1. n \in Nat /\ a \in Nat /\ a <= n
  BY LenProperties
<1>2. /\ \A k \in 0 .. n : t[k] \in Seq(StreamOctets)
      /\ \A k \in 1 .. n : t[k] = Fed(t[k - 1], w[k])
  BY DEF Trace
<1>3. a \in T
  BY <1>1
<1> HIDE DEF n
<1>4. ASSUME NEW k \in a .. (n - 1), k \in T PROVE k + 1 \in T
  <2>1. /\ k \in Nat /\ k < n /\ k \in 0 .. n /\ k + 1 \in 1 .. n /\ (k + 1) - 1 = k
        /\ k + 1 \in Nat
    BY <1>1
  <2>2. t[k + 1] = Fed(t[k], w[k + 1]) /\ t[k] \in Seq(StreamOctets)
    BY <1>2, <2>1
  <2>3. w[k + 1] \in StreamOctets
    BY <2>1, ElementOfSeq DEF n
  <2>4. Len(t[k]) <= 1 /\ (Len(t[k]) = 1 => w[k + 1].value # Magic[2])
    BY <1>4, <2>1
  <2>5. Len(t[k + 1]) <= 1 /\ (Len(t[k + 1]) = 1 => w[k + 1].value = S)
    BY <2>2, <2>3, <2>4, FedCalm
  <2>6. ASSUME k + 1 < n PROVE ~(w[k + 1].value = S /\ w[(k + 1) + 1].value = Magic[2])
    <3>1. k + 1 \in (a + 1) .. (n - 1)
      BY <1>1, <2>1, <2>6
    <3> QED
      BY <3>1 DEF n
  <2> QED
    BY <2>1, <2>5, <2>6
<1>5. \A k \in a .. n : k \in T
  <2> HIDE DEF T
  <2> QED
    BY <1>1, <1>3, <1>4, Climb
<1>6. n \in T
  <2>1. n \in a .. n
    BY <1>1
  <2> QED
    BY <1>5, <2>1
<1> QED
  BY <1>6 DEF n

(* In a frame, true or false, it remains there until it is in none.        *)
LEMMA FrameGrows ==
    ASSUME NEW t, NEW s, NEW w \in Seq(StreamOctets), Trace(t, s, w), Len(s) >= 2,
           s \in Seq(StreamOctets)
    PROVE  \/ Len(t[Len(w)]) = Len(s) + Len(w)
           \/ \E a \in 1 .. Len(w) : Len(t[a]) = 0
<1> SUFFICES ASSUME \A a \in 1 .. Len(w) : Len(t[a]) # 0
             PROVE  Len(t[Len(w)]) = Len(s) + Len(w)
  OBVIOUS
<1> DEFINE n == Len(w)
           T == {k \in Nat : Len(t[k]) = Len(s) + k}
<1>1. n \in Nat /\ Len(s) \in Nat
  BY LenProperties
<1>2. /\ t[0] = s
      /\ \A k \in 0 .. n : t[k] \in Seq(StreamOctets)
      /\ \A k \in 1 .. n : t[k] = Fed(t[k - 1], w[k])
  BY DEF Trace
<1>3. 0 \in T
  BY <1>1, <1>2
<1> HIDE DEF n
<1>4. ASSUME NEW k \in 0 .. (n - 1), k \in T PROVE k + 1 \in T
  <2>1. k \in 0 .. n /\ k + 1 \in 1 .. n /\ (k + 1) - 1 = k /\ k + 1 \in Nat
    BY <1>1
  <2>2. t[k + 1] = Fed(t[k], w[k + 1]) /\ t[k] \in Seq(StreamOctets)
    BY <1>2, <2>1
  <2>3. w[k + 1] \in StreamOctets
    BY <2>1, ElementOfSeq DEF n
  <2>4. Len(t[k]) = Len(s) + k /\ Len(t[k]) # 1
    <3>1. Len(t[k]) = Len(s) + k
      BY <1>4
    <3>2. \A l, m \in Nat : l >= 2 => l + m # 1
      OBVIOUS
    <3>3. k \in Nat /\ Len(s) >= 2
      BY <1>1
    <3> QED
      BY <1>1, <3>1, <3>2, <3>3, Zenon
  <2>5. t[k + 1] # <<>>
    BY <2>1, EmptySeq DEF n
  <2>6. Len(t[k + 1]) = Len(t[k]) + 1
    BY <2>2, <2>3, <2>4, <2>5, FedCases
  <2> QED
    BY <1>1, <2>1, <2>4, <2>6
<1>5. \A k \in 0 .. n : k \in T
  <2> HIDE DEF T
  <2> QED
    BY <1>1, <1>3, <1>4, Climb
<1>6. n \in T
  <2>1. n \in 0 .. n
    BY <1>1
  <2> QED
    BY <1>5, <2>1
<1> QED
  BY <1>6 DEF n

(* Once out of a frame it is in none to the end of octets that are clear.  *)
LEMMA Settles ==
    ASSUME NEW t, NEW s \in Seq(StreamOctets), NEW w \in Seq(StreamOctets), Trace(t, s, w),
           NEW calm \in Nat, Len(s) <= 1 \/ Len(s) > calm,
           \A i \in 2 .. (Len(w) - 1) : ~(w[i].value = S /\ w[i + 1].value = Magic[2]),
           Len(s) <= 1 =>
             /\ Clear(w)
             /\ Len(w) > 0 => w[1].value # Magic[2]
    PROVE  Len(t[Len(w)]) <= 1 \/ Len(t[Len(w)]) > calm + Len(w)
<1>1. Len(w) \in Nat /\ Len(s) \in Nat
  BY LenProperties
<1>2. t[0] = s
  BY DEF Trace
<1>3. CASE Len(s) <= 1
  <2>1. 0 \in 0 .. Len(w) /\ 0 + 1 = 1
    BY <1>1
  <2>2. \A i \in 1 .. (Len(w) - 1) : ~(w[i].value = S /\ w[i + 1].value = Magic[2])
    BY <1>3 DEF Clear
  <2>3. Len(t[0]) <= 1 /\ (Len(t[0]) = 1 /\ 0 < Len(w) => w[0 + 1].value # Magic[2])
    BY <1>1, <1>2, <1>3, <2>1
  <2>4. Len(t[Len(w)]) <= 1
    BY <2>1, <2>2, <2>3, CalmStays
  <2> QED
    BY <2>4
<1>4. CASE ~(Len(s) <= 1)
  <2>1. Len(s) >= 2 /\ Len(s) > calm
    BY <1>1, <1>4
  <2>2. CASE Len(t[Len(w)]) = Len(s) + Len(w)
    BY <1>1, <2>1, <2>2
  <2>3. CASE \E a \in 1 .. Len(w) : Len(t[a]) = 0
    <3>1. PICK a \in 1 .. Len(w) : Len(t[a]) = 0
      BY <2>3
    <3>2. a \in 0 .. Len(w) /\ \A i \in (a + 1) .. (Len(w) - 1) : i \in 2 .. (Len(w) - 1)
      BY <1>1
    <3>3. Len(t[a]) <= 1 /\ Len(t[a]) # 1
      BY <3>1
    <3>4. Len(t[Len(w)]) <= 1
      BY <3>2, <3>3, CalmStays
    <3> QED
      BY <3>4
  <2> QED
    BY <2>1, <2>2, <2>3, FrameGrows
<1> QED
  BY <1>3, <1>4

(* In no frame, it gets the frame that comes.                              *)
LEMMA FrameValues ==
    ASSUME NEW b \in Bodies, NEW f, f = Encode(b)
    PROVE  /\ f \in Seq(StreamOctets) /\ Len(f) = Len(b) + 5
           /\ Len(b) \in Nat /\ Len(b) >= 3 /\ Len(b) <= 3 + MaxPayload
           /\ \A i \in 1 .. 4 : f[i].value = Magic[i]
           /\ f[5].value = Version /\ f[7].value = Len(b) - 3
           /\ \A i \in 1 .. Len(b) : f[4 + i] = b[i]
           /\ f[Len(f)] = Crc(b)
<1>1. /\ f \in Seq(StreamOctets) /\ Len(f) = Len(b) + 5
      /\ \A i \in 1 .. 4 : f[i] = Octet(Magic[i])
      /\ \A i \in 1 .. Len(b) : f[4 + i] = b[i]
      /\ f[Len(b) + 5] = Crc(b)
  BY EncodeIs
<1>2. /\ Len(b) \in Nat /\ Len(b) >= 3 /\ Len(b) <= 3 + MaxPayload
      /\ b[1].value = Version /\ b[3].value = Len(b) - 3
  BY BodyType
<1>3. \A x : Octet(x).value = x
  BY DEF Octet
<1>4. f[5] = b[1] /\ f[7] = b[3]
  <2>1. 1 \in 1 .. Len(b) /\ 3 \in 1 .. Len(b) /\ 4 + 1 = 5 /\ 4 + 3 = 7
    BY <1>2
  <2> QED
    BY <1>1, <2>1
<1>5. \A i \in 1 .. 4 : f[i].value = Magic[i]
  BY <1>1, <1>3
<1> QED
  BY <1>1, <1>2, <1>4, <1>5

PartOf(q, f, k) == q \in Seq(StreamOctets) /\ Len(q) = k /\ \A i \in 1 .. k : q[i] = f[i]

LEMMA FrameStep ==
    ASSUME NEW b \in Bodies, NEW f, f = Encode(b), NEW k \in 0 .. (Len(f) - 1),
           NEW q, PartOf(q, f, k)
    PROVE  /\ Accepts(q, f[k + 1])
           /\ PartOf(Append(q, f[k + 1]), f, k + 1)
           /\ Complete(Append(q, f[k + 1])) <=> k + 1 = Len(f)
<1> DEFINE o == f[k + 1]
           x == Append(q, o)
           l == Len(b)
<1>1. /\ f \in Seq(StreamOctets) /\ Len(f) = l + 5 /\ l \in Nat /\ l >= 3 /\ l <= 3 + MaxPayload
      /\ \A i \in 1 .. 4 : f[i].value = Magic[i]
      /\ f[5].value = Version /\ f[7].value = l - 3
  BY FrameValues
<1>2. k \in Nat /\ k < l + 5 /\ k + 1 \in 1 .. Len(f)
  BY <1>1
<1>3. o \in StreamOctets
  BY <1>1, <1>2, ElementOfSeq
<1>4. q \in Seq(StreamOctets) /\ Len(q) = k /\ \A i \in 1 .. k : q[i] = f[i]
  BY DEF PartOf
<1> HIDE DEF o
<1>5. x \in Seq(StreamOctets) /\ Len(x) = k + 1 /\ x[k + 1] = o /\ \A i \in 1 .. k : x[i] = q[i]
  BY <1>3, <1>4, AppendProperties
<1> HIDE DEF x, l
<1>6. \A i \in 1 .. (k + 1) : x[i] = f[i]
  <2> TAKE i \in 1 .. (k + 1)
  <2>1. i \in 1 .. k \/ i = k + 1
    BY <1>2
  <2> QED
    BY <1>4, <1>5, <2>1 DEF o
<1>7. Accepts(q, o)
  <2>1. k < 4 => o.value = Magic[k + 1]
    <3>1. k < 4 => k + 1 \in 1 .. 4
      BY <1>2
    <3> QED
      BY <1>1, <3>1 DEF o
  <2>2. k = 4 => o.value = Version
    <3>1. k = 4 => o = f[5]
      BY DEF o
    <3> QED
      BY <1>1, <3>1
  <2>3. k = 6 => ~TooLong(o.value)
    <3>1. k = 6 => o.value = l - 3
      BY <1>1 DEF o
    <3>2. ~(l - 3 > MaxPayload)
      BY <1>1, FramingAssumption
    <3> QED
      BY <3>1, <3>2 DEF TooLong
  <2>4. HeaderLen - 1 = 6
    BY DEF HeaderLen
  <2> QED
    BY <1>4, <2>1, <2>2, <2>3, <2>4 DEF Accepts
<1>8. Complete(x) <=> k + 1 = l + 5
  <2>1. k + 1 >= 7 => x[7].value = l - 3
    <3>1. k + 1 >= 7 => 7 \in 1 .. (k + 1)
      BY <1>2
    <3> QED
      BY <1>1, <1>6, <3>1
  <2>2. HeaderLen = 7 /\ Overhead = 8
    BY DEF HeaderLen, Overhead
  <2>3. Complete(x) <=> k + 1 >= 7 /\ k + 1 = 8 + x[7].value
    BY <1>5, <2>2 DEF Complete
  <2>4. 8 + (l - 3) = l + 5 /\ l + 5 >= 7
    BY <1>1
  <2> QED
    BY <2>1, <2>3, <2>4
<1> QED
  BY <1>1, <1>5, <1>6, <1>7, <1>8 DEF PartOf, x, o

LEMMA FrameGot ==
    ASSUME NEW b \in Bodies, NEW f, f = Encode(b), NEW q \in Seq(StreamOctets), Len(q) <= 1,
           NEW t, Trace(t, q, f)
    PROVE  Len(t[Len(f)]) = 0 /\ Comes(t, f, <<>>, b)
<1> DEFINE n == Len(f)
           T == {k \in Nat : PartOf(t[k], f, k)}
<1>1. /\ f \in Seq(StreamOctets) /\ n = Len(b) + 5 /\ Len(b) \in Nat /\ Len(b) >= 3
      /\ \A i \in 1 .. 4 : f[i].value = Magic[i]
      /\ \A i \in 1 .. Len(b) : f[4 + i] = b[i]
      /\ f[n] = Crc(b)
  BY FrameValues
<1>2. /\ t[0] = q
      /\ \A k \in 0 .. n : t[k] \in Seq(StreamOctets)
      /\ \A k \in 1 .. n : t[k] = Fed(t[k - 1], f[k])
  BY DEF Trace
<1>3. n \in Nat /\ n >= 8 /\ 1 \in 1 .. n /\ 0 \in 0 .. (n - 1) /\ f[1] \in StreamOctets
  <2>1. n \in Nat /\ n >= 8 /\ 1 \in 1 .. n /\ 0 \in 0 .. (n - 1)
    BY <1>1
  <2> QED
    BY <1>1, <2>1, ElementOfSeq
<1> HIDE DEF n
<1>4. ASSUME NEW k \in 0 .. (n - 2), PartOf(t[k], f, k) PROVE PartOf(t[k + 1], f, k + 1)
  <2>1. k \in 0 .. (n - 1) /\ k + 1 # n /\ k + 1 \in 1 .. n /\ (k + 1) - 1 = k
    BY <1>3
  <2>2. /\ Accepts(t[k], f[k + 1])
        /\ PartOf(Append(t[k], f[k + 1]), f, k + 1)
        /\ ~Complete(Append(t[k], f[k + 1]))
    BY <1>4, <2>1, FrameStep DEF n
  <2>3. t[k + 1] = Fed(t[k], f[k + 1])
    BY <1>2, <2>1
  <2> QED
    BY <2>2, <2>3 DEF Fed
<1>5. PartOf(t[1], f, 1)
  <2>1. Len(q) \in Nat
    BY LenProperties
  <2>2. CASE Len(q) = 0
    <3>1. PartOf(q, f, 0)
      BY <2>2 DEF PartOf
    <3>2. 0 \in 0 .. (n - 2) /\ 0 + 1 = 1
      BY <1>3
    <3> QED
      BY <1>2, <1>4, <3>1, <3>2
  <2>3. CASE Len(q) # 0
    <3>1. Len(q) = 1
      <4>1. \A n1 \in Nat : n1 <= 1 /\ n1 # 0 => n1 = 1
        OBVIOUS
      <4> QED
        BY <2>1, <2>3, <4>1, Zenon
    <3>2. f[1].value = S /\ S # Magic[2]
      BY <1>1 DEF Magic, S
    <3>3. ~Accepts(q, f[1])
      BY <3>1, <3>2 DEF Accepts
    <3>4. Fed(q, f[1]) = <<f[1]>>
      BY <3>1, <3>2, <3>3 DEF Fed, Restart
    <3>5. t[1] = <<f[1]>>
      <4>1. 1 - 1 = 0
        OBVIOUS
      <4> QED
        BY <1>2, <1>3, <3>4, <4>1
    <3>6. <<f[1]>> \in Seq(StreamOctets) /\ Len(<<f[1]>>) = 1 /\ \A i \in 1 .. 1 : <<f[1]>>[i] = f[i]
      BY <1>3
    <3> QED
      BY <3>5, <3>6, Zenon DEF PartOf
  <2> QED
    BY <2>2, <2>3
<1>6. \A k \in 1 .. (n - 1) : k \in T
  <2>1. 1 \in T
    BY <1>5
  <2>2. ASSUME NEW k \in 1 .. ((n - 1) - 1), k \in T PROVE k + 1 \in T
    <3>1. k \in 0 .. (n - 2) /\ k + 1 \in Nat
      BY <1>3
    <3> QED
      BY <1>4, <2>2, <3>1
  <2>3. n - 1 \in Nat
    BY <1>3
  <2> HIDE DEF T
  <2> QED
    BY <2>1, <2>2, <2>3, Climb
<1> DEFINE r == t[n - 1]
           x == Append(r, f[n])
<1>7. PartOf(r, f, n - 1)
  <2>1. n - 1 \in 1 .. (n - 1)
    BY <1>3
  <2> QED
    BY <1>6, <2>1
<1>8. Accepts(r, f[n]) /\ PartOf(x, f, n) /\ Complete(x)
  <2>1. n - 1 \in 0 .. (n - 1) /\ (n - 1) + 1 = n
    BY <1>3
  <2> HIDE DEF r
  <2> QED
    BY <1>7, <2>1, FrameStep DEF n
<1>9. x = f
  <2> HIDE DEF x
  <2>1. x \in Seq(StreamOctets) /\ Len(x) = n /\ \A i \in 1 .. n : x[i] = f[i]
    BY <1>8 DEF PartOf
  <2> QED
    BY <1>1, <2>1, SeqEqual DEF n
<1>10. BodyOf(f) = b
  <2> DEFINE c == SubSeq(f, 5, n - 1)
  <2>1. /\ c \in Seq(StreamOctets) /\ Len(c) = (IF 5 <= n - 1 THEN (n - 1) - 5 + 1 ELSE 0)
        /\ \A i \in 1 .. ((n - 1) - 5 + 1) : c[i] = f[5 + i - 1]
    <3>1. \A i \in 5 .. (n - 1) : f[i] \in StreamOctets
      <4>1. \A i \in 5 .. (n - 1) : i \in 1 .. n
        BY <1>3
      <4> QED
        BY <1>1, <4>1, ElementOfSeq DEF n
    <3>2. 5 \in Int /\ n - 1 \in Int
      BY <1>3
    <3> QED
      BY <3>1, <3>2, SubSeqProperties
  <2> HIDE DEF c
  <2>2. Len(c) = Len(b)
    BY <1>1, <1>3, <2>1
  <2>3. \A i \in 1 .. Len(b) : c[i] = b[i]
    <3> TAKE i \in 1 .. Len(b)
    <3>1. i \in 1 .. ((n - 1) - 5 + 1) /\ 5 + i - 1 = 4 + i
      BY <1>1
    <3> QED
      BY <1>1, <2>1, <3>1
  <2>4. b \in Seq(Pure)
    BY BodyType
  <2>5. c = b
    <3>1. Pure \subseteq [value : Nat, of : {<<>>} \cup Bodies]
      BY DEF Pure
    <3>2. b \in Seq(StreamOctets)
      BY <2>4, <3>1, SeqMonotonic DEF StreamOctets
    <3> QED
      BY <2>1, <2>2, <2>3, <3>2, SeqEqual
  <2> QED
    BY <2>5 DEF BodyOf, c, n
<1>11. CrcMatches(f)
  BY <1>1, <1>10 DEF CrcMatches, n
<1>12. Parsed(r, f[n]) = <<b>>
  BY <1>8, <1>9, <1>10, <1>11 DEF Parsed
<1>13. t[n] = <<>>
  <2>1. Fed(r, f[n]) = <<>>
    BY <1>8 DEF Fed
  <2>2. n \in 1 .. n
    BY <1>3
  <2> QED
    BY <1>2, <2>1, <2>2
<1>14. Comes(t, f, <<>>, b)
  <2>1. n \in 1 .. n
    BY <1>3
  <2> QED
    BY <1>12, <2>1 DEF Comes, n
<1> QED
  BY <1>13, <1>14, EmptySeq DEF n

(* The end of a frame is clear of the start of the magic.                  *)
LEMMA FrameClear ==
    ASSUME NEW b \in Bodies, NEW f, f = Encode(b), Clear(Append(b, Crc(b)))
    PROVE  \A i \in 2 .. (Len(f) - 1) : ~(f[i].value = S /\ f[i + 1].value = Magic[2])
<1> DEFINE l == Len(b)
           c == Append(b, Crc(b))
<1>1. /\ Len(f) = l + 5 /\ l \in Nat
      /\ \A i \in 1 .. 4 : f[i].value = Magic[i]
      /\ \A i \in 1 .. l : f[4 + i] = b[i]
      /\ f[l + 5] = Crc(b)
  BY FrameValues
<1>2. Len(c) = l + 1 /\ c[l + 1] = Crc(b) /\ \A i \in 1 .. l : c[i] = b[i]
  <2>1. b \in Seq(Pure)
    BY BodyType
  <2> QED
    BY <2>1, AppendProperties
<1>3. \A i \in 1 .. (Len(c) - 1) : ~(c[i].value = S /\ c[i + 1].value = Magic[2])
  BY DEF Clear
<1> HIDE DEF l, c
<1> SUFFICES ASSUME NEW i \in 2 .. (Len(f) - 1)
             PROVE  ~(f[i].value = S /\ f[i + 1].value = Magic[2])
  OBVIOUS
<1>4. CASE i <= 4
  <2>1. i \in 2 .. 4 /\ i \in 1 .. 4
    BY <1>4
  <2>2. Magic[2] # S /\ Magic[3] # S /\ Magic[4] # S
    BY DEF Magic, S
  <2>3. i = 2 \/ i = 3 \/ i = 4
    BY <2>1
  <2> QED
    BY <1>1, <2>1, <2>2, <2>3
<1>5. CASE ~(i <= 4)
  <2>1. i - 4 \in 1 .. l /\ 4 + (i - 4) = i /\ i - 4 \in 1 .. ((l + 1) - 1)
    BY <1>1, <1>5
  <2>2. f[i] = c[i - 4]
    BY <1>1, <1>2, <2>1
  <2>3. f[i + 1] = c[(i - 4) + 1]
    <3>1. CASE i - 4 = l
      <4>1. i + 1 = l + 5 /\ (i - 4) + 1 = l + 1
        BY <1>1, <3>1
      <4> QED
        BY <1>1, <1>2, <4>1
    <3>2. CASE i - 4 # l
      <4>1. (i - 4) + 1 \in 1 .. l /\ 4 + ((i - 4) + 1) = i + 1
        BY <1>1, <2>1, <3>2
      <4> QED
        BY <1>1, <1>2, <4>1
    <3> QED
      BY <3>1, <3>2
  <2> QED
    BY <1>2, <1>3, <2>1, <2>2, <2>3
<1> QED
  BY <1>4, <1>5

LEMMA SeenShort ==
    ASSUME NEW q \in Seq(StreamOctets), SeenSoFar(q)
    PROVE  Len(q) \in Nat /\ Len(q) < MaxFrameLen
<1>1. Len(q) \in Nat /\ MaxPayload \in Nat
  BY LenProperties, FramingAssumption
<1>2. HeaderLen = 7 /\ Overhead = 8 /\ MaxFrameLen = 8 + MaxPayload
  BY DEF HeaderLen, Overhead, MaxFrameLen
<1>3. Len(q) >= 7 => ~(q[7].value > MaxPayload) /\ Len(q) < 8 + q[7].value
  BY <1>2 DEF SeenSoFar, TooLong
<1>4. CASE Len(q) >= 7
  <2>1. 7 \in 1 .. Len(q)
    BY <1>1, <1>4
  <2>2. q[7].value \in Nat
    BY <2>1, StreamType
  <2> QED
    BY <1>1, <1>2, <1>3, <1>4, <2>2
<1>5. CASE ~(Len(q) >= 7)
  BY <1>1, <1>2, <1>5
<1> QED
  BY <1>4, <1>5

LEMMA MinOfTwo ==
    ASSUME NEW i \in Nat, NEW j \in Nat
    PROVE  Min({i, j}) \in Nat /\ Min({i, j}) <= i /\ Min({i, j}) <= j
<1>1. \E n \in {i, j} : \A m \in {i, j} : n <= m
  BY Least
<1>2. Min({i, j}) \in {i, j} /\ \A m \in {i, j} : Min({i, j}) <= m
  BY <1>1 DEF Min
<1> QED
  BY <1>2

(* What the octets v put on the stream do.                                 *)
LEMMA SteadyMore ==
    ASSUME NEW s \in Seq(StreamOctets), NEW w \in Seq(StreamOctets),
           NEW v \in Seq(StreamOctets), NEW got, NEW due, NEW calm,
           Steady(s, w, got, due, calm)
    PROVE  \E q, u :
              /\ q \in Seq(StreamOctets) /\ SeenSoFar(q) /\ Trace(u, q, v)
              /\ Len(q) <= 1 \/ Len(q) > calm
              /\ \A more, later :
                    /\ Len(u[Len(v)]) <= 1 \/ Len(u[Len(v)]) > later
                    /\ \A i \in 1 .. Len(more) :
                          (\E k \in 1 .. Len(due) : more[i] = due[k]) \/ Comes(u, v, <<>>, more[i])
                    => Steady(s, w \o v, got, more, later)
<1>1. PICK t : /\ Trace(t, s, w)
               /\ Len(t[Len(w)]) <= 1 \/ Len(t[Len(w)]) > calm
               /\ \A i \in 1 .. Len(due) : Comes(t, w, got, due[i])
  BY DEF Steady
<1> DEFINE q == t[Len(w)]
<1>2. q \in Seq(StreamOctets) /\ SeenSoFar(q)
  <2>1. Len(w) \in 0 .. Len(w)
    BY LenProperties
  <2> QED
    BY <1>1, <2>1 DEF Trace
<1>3. PICK u : Trace(u, q, v)
  BY <1>2, TraceExists
<1> DEFINE j == Joined(t, u, Len(w), Len(v))
<1>4. /\ Trace(j, s, w \o v) /\ j[Len(w \o v)] = u[Len(v)]
      /\ \A b : Comes(t, w, got, b) => Comes(j, w \o v, got, b)
      /\ \A b : Comes(u, v, <<>>, b) => Comes(j, w \o v, got, b)
  BY <1>1, <1>3, TraceJoin
<1> HIDE DEF j
<1>5. ASSUME NEW more, NEW later,
             Len(u[Len(v)]) <= 1 \/ Len(u[Len(v)]) > later,
             \A i \in 1 .. Len(more) :
                (\E k \in 1 .. Len(due) : more[i] = due[k]) \/ Comes(u, v, <<>>, more[i])
      PROVE  Steady(s, w \o v, got, more, later)
  <2>1. ASSUME NEW i \in 1 .. Len(more) PROVE Comes(j, w \o v, got, more[i])
    BY <1>1, <1>4, <1>5
  <2> QED
    BY <1>4, <1>5, <2>1 DEF Steady
<1> QED
  BY <1>1, <1>2, <1>3, <1>5

LEMMA SteadyDamaged ==
    ASSUME NEW s \in Seq(StreamOctets), NEW w \in Seq(StreamOctets),
           NEW v \in Seq(StreamOctets), NEW got, NEW due, NEW calm,
           Steady(s, w, got, due, calm)
    PROVE  Steady(s, w \o v, got, due, 0)
<1>1. PICK q, u :
        /\ Trace(u, q, v)
        /\ \A more, later :
              /\ Len(u[Len(v)]) <= 1 \/ Len(u[Len(v)]) > later
              /\ \A i \in 1 .. Len(more) :
                    (\E k \in 1 .. Len(due) : more[i] = due[k]) \/ Comes(u, v, <<>>, more[i])
              => Steady(s, w \o v, got, more, later)
  BY SteadyMore
<1>2. Len(u[Len(v)]) \in Nat
  <2>1. Len(v) \in 0 .. Len(v)
    BY LenProperties
  <2>2. u[Len(v)] \in Seq(StreamOctets)
    BY <1>1, <2>1 DEF Trace
  <2> QED
    BY <2>2, LenProperties
<1>3. Len(u[Len(v)]) <= 1 \/ Len(u[Len(v)]) > 0
  BY <1>2
<1> QED
  BY <1>1, <1>3

LEMMA SteadyNoise ==
    ASSUME NEW s \in Seq(StreamOctets), NEW w \in Seq(StreamOctets),
           NEW v \in Seq(StreamOctets), NEW got, NEW due, NEW calm \in Nat,
           Steady(s, w, got, due, calm),
           Clear(v), Len(v) > 0 => v[1].value # Magic[2]
    PROVE  Steady(s, w \o v, got, due, calm)
<1>1. PICK q, u :
        /\ q \in Seq(StreamOctets) /\ Trace(u, q, v)
        /\ Len(q) <= 1 \/ Len(q) > calm
        /\ \A more, later :
              /\ Len(u[Len(v)]) <= 1 \/ Len(u[Len(v)]) > later
              /\ \A i \in 1 .. Len(more) :
                    (\E k \in 1 .. Len(due) : more[i] = due[k]) \/ Comes(u, v, <<>>, more[i])
              => Steady(s, w \o v, got, more, later)
  BY SteadyMore
<1>2. Len(v) \in Nat
  BY LenProperties
<1>3. \A i \in 2 .. (Len(v) - 1) : ~(v[i].value = S /\ v[i + 1].value = Magic[2])
  <2>1. \A i \in 2 .. (Len(v) - 1) : i \in 1 .. (Len(v) - 1)
    OBVIOUS
  <2> QED
    BY <2>1 DEF Clear
<1>4. Len(u[Len(v)]) <= 1 \/ Len(u[Len(v)]) > calm + Len(v)
  BY <1>1, <1>3, Settles
<1>5. Len(u[Len(v)]) \in Nat
  <2>1. Len(v) \in 0 .. Len(v)
    BY <1>2
  <2>2. u[Len(v)] \in Seq(StreamOctets)
    BY <1>1, <2>1 DEF Trace
  <2> QED
    BY <2>2, LenProperties
<1>6. Len(u[Len(v)]) <= 1 \/ Len(u[Len(v)]) > calm
  BY <1>2, <1>4, <1>5
<1> QED
  BY <1>1, <1>6

LEMMA SteadyFrame ==
    ASSUME NEW s \in Seq(StreamOctets), NEW w \in Seq(StreamOctets),
           NEW b \in Bodies, NEW f, f = Encode(b), Clear(Append(b, Crc(b))),
           NEW got, NEW due \in Seq(Bodies), NEW calm \in 0 .. MaxFrameLen,
           Steady(s, w, got, due, calm)
    PROVE  Steady(s, w \o f, got, IF calm = MaxFrameLen THEN Append(due, b) ELSE due,
                  Min({calm + Len(f), MaxFrameLen}))
<1> DEFINE more == IF calm = MaxFrameLen THEN Append(due, b) ELSE due
           later == Min({calm + Len(f), MaxFrameLen})
<1>1. f \in Seq(StreamOctets) /\ Len(f) \in Nat
  BY FrameValues, LenProperties
<1>2. PICK q, u :
        /\ q \in Seq(StreamOctets) /\ SeenSoFar(q) /\ Trace(u, q, f)
        /\ Len(q) <= 1 \/ Len(q) > calm
        /\ \A m, l :
              /\ Len(u[Len(f)]) <= 1 \/ Len(u[Len(f)]) > l
              /\ \A i \in 1 .. Len(m) :
                    (\E k \in 1 .. Len(due) : m[i] = due[k]) \/ Comes(u, f, <<>>, m[i])
              => Steady(s, w \o f, got, m, l)
  BY <1>1, SteadyMore
<1>3. MaxFrameLen \in Nat /\ calm \in Nat
  BY FramingAssumption DEF MaxFrameLen, Overhead, HeaderLen
<1>4. later \in Nat /\ later <= calm + Len(f)
  <2>1. calm + Len(f) \in Nat
    BY <1>1, <1>3
  <2> QED
    BY <1>3, <2>1, MinOfTwo
<1>5. /\ Append(due, b) \in Seq(Bodies) /\ Len(Append(due, b)) = Len(due) + 1
      /\ Append(due, b)[Len(due) + 1] = b
      /\ \A i \in 1 .. Len(due) : Append(due, b)[i] = due[i]
      /\ Len(due) \in Nat
  BY AppendProperties, LenProperties
<1>6. Len(q) <= 1 => Len(u[Len(f)]) = 0 /\ Comes(u, f, <<>>, b)
  BY <1>2, FrameGot
<1>7. Len(q) \in Nat /\ Len(q) < MaxFrameLen
  BY <1>2, SeenShort
<1> HIDE DEF more, later
<1>8. CASE Len(q) <= 1
  <2>1. Len(u[Len(f)]) <= 1
    BY <1>6, <1>8
  <2>2. ASSUME NEW i \in 1 .. Len(more)
        PROVE  (\E k \in 1 .. Len(due) : more[i] = due[k]) \/ Comes(u, f, <<>>, more[i])
    <3>1. CASE calm = MaxFrameLen
      <4>1. more = Append(due, b)
        BY <3>1 DEF more
      <4>2. i \in 1 .. Len(due) \/ i = Len(due) + 1
        BY <1>5, <4>1
      <4>3. i = Len(due) + 1 => Comes(u, f, <<>>, more[i])
        BY <1>5, <1>6, <1>8, <4>1
      <4>4. i \in 1 .. Len(due) => more[i] = due[i]
        BY <1>5, <4>1
      <4> QED
        BY <4>2, <4>3, <4>4
    <3>2. CASE calm # MaxFrameLen
      <4>1. more = due
        BY <3>2 DEF more
      <4> QED
        BY <4>1
    <3> QED
      BY <3>1, <3>2
  <2> QED
    BY <1>2, <2>1, <2>2 DEF more, later
<1>9. CASE ~(Len(q) <= 1)
  <2>1. Len(q) > calm /\ calm # MaxFrameLen
    BY <1>2, <1>3, <1>7, <1>9
  <2>2. more = due
    BY <2>1 DEF more
  <2>3. Len(u[Len(f)]) <= 1 \/ Len(u[Len(f)]) > calm + Len(f)
    <3>1. \A i \in 2 .. (Len(f) - 1) : ~(f[i].value = S /\ f[i + 1].value = Magic[2])
      BY FrameClear
    <3> QED
      BY <1>1, <1>2, <1>3, <1>9, <3>1, Settles
  <2>4. Len(u[Len(f)]) \in Nat
    <3>1. Len(f) \in 0 .. Len(f)
      BY <1>1
    <3>2. u[Len(f)] \in Seq(StreamOctets)
      BY <1>2, <3>1 DEF Trace
    <3> QED
      BY <3>2, LenProperties
  <2>5. Len(u[Len(f)]) <= 1 \/ Len(u[Len(f)]) > later
    BY <1>1, <1>3, <1>4, <2>3, <2>4
  <2>6. \A i \in 1 .. Len(more) :
           (\E k \in 1 .. Len(due) : more[i] = due[k]) \/ Comes(u, f, <<>>, more[i])
    BY <2>2
  <2> QED
    BY <1>2, <2>5, <2>6 DEF more, later
<1> QED
  BY <1>8, <1>9

SyncInv ==
    /\ number \in 0 .. MaxFrames
    /\ quiet \in 0 .. MaxFrameLen
    /\ owed \in Seq(Bodies)
    /\ receiver = "device" => Steady(seen, wire, delivered, owed, quiet)

LEMMA SyncInit == Init => SyncInv
<1> SUFFICES ASSUME Init PROVE SyncInv
  OBVIOUS
<1>1. /\ wire = <<>> /\ seen = <<>> /\ delivered = <<>> /\ owed = <<>>
      /\ number = 0 /\ quiet = MaxFrameLen
  BY DEF Init
<1>2. MaxFrameLen \in Nat
  BY FramingAssumption DEF MaxFrameLen, Overhead, HeaderLen
<1>3. /\ <<>> \in Seq(StreamOctets) /\ <<>> \in Seq(Bodies) /\ Len(<<>>) = 0
  BY EmptySeq
<1>4. SeenSoFar(<<>>)
  BY DEF SeenSoFar, HeaderLen
<1>5. PICK t : Trace(t, <<>>, <<>>)
  BY <1>3, <1>4, TraceExists
<1>6. t[0] = <<>>
  BY <1>5 DEF Trace
<1>7. Steady(<<>>, <<>>, <<>>, <<>>, MaxFrameLen)
  BY <1>3, <1>5, <1>6 DEF Steady
<1> QED
  BY <1>1, <1>2, <1>3, <1>7, LinkAssumption DEF SyncInv

LEMMA DamagedType ==
    ASSUME LinkInv, SyncInv, NEW v \in Seq(StreamOctets), Damaged(v)
    PROVE  /\ quiet' = 0 /\ owed' = owed
           /\ receiver' = "device" => Steady(seen, wire, delivered, owed, quiet)'
<1>1. /\ wire' = wire \o v /\ quiet' = 0
      /\ receiver' = receiver /\ seen' = seen /\ delivered' = delivered /\ owed' = owed
  BY DEF Damaged
<1>2. receiver = "device" => Steady(seen, wire, delivered, owed, quiet)
  BY DEF SyncInv
<1>3. receiver = "device" => Steady(seen, wire \o v, delivered, owed, 0)
  BY <1>2, KeptType, SteadyDamaged
<1> QED
  BY <1>1, <1>3

LEMMA SyncStep == ASSUME Unmistakable PROVE LinkInv /\ SyncInv /\ [Next]_vars => SyncInv'
<1> SUFFICES ASSUME LinkInv, SyncInv, [Next]_vars PROVE SyncInv'
  OBVIOUS
<1>1. /\ wire \in Seq(StreamOctets) /\ seen \in Seq(StreamOctets)
      /\ delivered \in Seq(Bodies) /\ number \in Nat
  BY KeptType
<1>2. /\ number \in 0 .. MaxFrames /\ quiet \in 0 .. MaxFrameLen /\ owed \in Seq(Bodies)
      /\ receiver = "device" => Steady(seen, wire, delivered, owed, quiet)
  BY DEF SyncInv
<1>3. MaxFrameLen \in Nat /\ MaxFrames \in Nat
  BY FramingAssumption, LinkAssumption DEF MaxFrameLen, Overhead, HeaderLen
<1>4. MaySend => number \in 0 .. (MaxFrames - 1) /\ number + 1 \in 0 .. MaxFrames
  BY <1>1, <1>3 DEF MaySend
<1>5. 0 \in 0 .. MaxFrameLen
  BY <1>3
<1>6. ASSUME NEW p \in Payloads, Send(p) PROVE SyncInv'
  <2> DEFINE b == Body(number, p)
             f == Encode(b)
             due == IF quiet = MaxFrameLen THEN Append(owed, b) ELSE owed
             calm == Min({quiet + Len(f), MaxFrameLen})
  <2>1. /\ MaySend /\ wire' = wire \o f /\ number' = number + 1 /\ owed' = due /\ quiet' = calm
        /\ receiver' = receiver /\ seen' = seen /\ delivered' = delivered
    BY <1>6 DEF Send
  <2>2. b \in Bodies
    BY <1>1, BodySent
  <2>3. Clear(Append(b, Crc(b)))
    BY <1>4, <2>1 DEF Unmistakable
  <2> HIDE DEF b
  <2>4. receiver = "device" => Steady(seen, wire \o f, delivered, due, calm)
    BY <1>1, <1>2, <2>2, <2>3, SteadyFrame
  <2>5. calm \in 0 .. MaxFrameLen
    <3>1. Len(f) \in Nat
      BY <2>2, FrameValues, LenProperties
    <3> HIDE DEF f
    <3>2. quiet + Len(f) \in Nat
      BY <1>2, <1>3, <3>1
    <3>3. calm \in Nat /\ calm <= MaxFrameLen
      BY <1>3, <3>2, MinOfTwo
    <3> HIDE DEF calm
    <3> QED
      BY <1>3, <3>3
  <2>6. due \in Seq(Bodies)
    BY <1>2, <2>2, AppendProperties
  <2> HIDE DEF f, due, calm
  <2> QED
    BY <1>4, <2>1, <2>4, <2>5, <2>6 DEF SyncInv
<1>7. ASSUME NEW p \in Payloads, NEW k \in 1 .. MaxFrameLen, SendCut(p, k) PROVE SyncInv'
  <2> DEFINE b == Body(number, p)
             v == SubSeq(Encode(b), 1, k)
  <2>1. MaySend /\ k < Len(Encode(b)) /\ Damaged(v) /\ number' = number + 1
    BY <1>7 DEF SendCut
  <2>2. b \in Bodies /\ NumberOf(b) = number
    BY <1>1, BodySent
  <2> HIDE DEF b
  <2>3. k \in Nat
    BY <1>3
  <2>4. v \in Seq(StreamOctets)
    <3>1. Puts(v, b, number, number + 1, <<>>, <<>>)
      BY <1>1, <2>1, <2>2, <2>3, PutsCut
    <3> QED
      BY <3>1 DEF Puts
  <2> HIDE DEF v
  <2>5. /\ quiet' = 0 /\ owed' = owed
        /\ receiver' = "device" => Steady(seen, wire, delivered, owed, quiet)'
    BY <2>1, <2>4, DamagedType
  <2> QED
    BY <1>2, <1>4, <1>5, <2>1, <2>5 DEF SyncInv
<1>8. ASSUME NEW p \in Payloads, NEW k \in 1 .. MaxFrameLen, NEW x \in Octets,
             SendCorrupted(p, k, x)
      PROVE  SyncInv'
  <2> DEFINE b == Body(number, p)
             v == [Encode(b) EXCEPT ![k] = Octet(x)]
  <2>1. /\ MaySend /\ k \in 1 .. Len(Encode(b)) /\ Encode(b)[k].value # x
        /\ Damaged(v) /\ number' = number + 1
    BY <1>8 DEF SendCorrupted
  <2>2. b \in Bodies /\ NumberOf(b) = number
    BY <1>1, BodySent
  <2> HIDE DEF b
  <2>3. x \in Nat
    BY LinkAssumption
  <2>4. v \in Seq(StreamOctets)
    <3>1. Puts(v, b, number, number + 1, <<>>, <<>>)
      BY <1>1, <2>1, <2>2, <2>3, PutsCorrupted
    <3> QED
      BY <3>1 DEF Puts
  <2> HIDE DEF v
  <2>5. /\ quiet' = 0 /\ owed' = owed
        /\ receiver' = "device" => Steady(seen, wire, delivered, owed, quiet)'
    BY <2>1, <2>4, DamagedType
  <2> QED
    BY <1>2, <1>4, <1>5, <2>1, <2>5 DEF SyncInv
<1>9. ASSUME NEW noise \in Noises, Noise(noise) PROVE SyncInv'
  <2> DEFINE v == [i \in 1 .. Len(noise) |-> Octet(noise[i])]
  <2>1. noise \in Seq(Nat) /\ Len(noise) \in Nat
    BY LinkAssumption, LenProperties
  <2>2. number' = number
    BY <1>9 DEF Noise
  <2>3. v \in Seq(StreamOctets)
    <3>1. Puts(v, <<>>, number, number, <<>>, <<>>)
      BY <1>1, PutsNoise
    <3> QED
      BY <3>1 DEF Puts
  <2>4. CASE Deceptive(noise)
    <3>1. Damaged(v)
      BY <1>9, <2>4 DEF Noise
    <3> HIDE DEF v
    <3>2. /\ quiet' = 0 /\ owed' = owed
          /\ receiver' = "device" => Steady(seen, wire, delivered, owed, quiet)'
      BY <2>3, <3>1, DamagedType
    <3> QED
      BY <1>2, <1>5, <2>2, <3>2 DEF SyncInv
  <2>5. CASE ~Deceptive(noise)
    <3>1. /\ wire' = wire \o v
          /\ UNCHANGED <<receiver, seen, buf, delivered, intact, owed, quiet>>
      BY <1>9, <2>5 DEF Noise
    <3>2. Len(v) = Len(noise) /\ \A i \in 1 .. Len(noise) : v[i].value = noise[i]
      BY <2>1 DEF Octet
    <3>3. \A i \in 1 .. (Len(noise) - 1) : ~(noise[i] = S /\ noise[i + 1] = Magic[2])
      BY <2>5 DEF Deceptive, Magic
    <3> HIDE DEF v
    <3>4. Clear(v)
      <4>1. \A i \in 1 .. (Len(noise) - 1) : i \in 1 .. Len(noise) /\ i + 1 \in 1 .. Len(noise)
        BY <2>1
      <4> QED
        BY <3>2, <3>3, <4>1 DEF Clear
    <3>5. Len(v) > 0 => v[1].value # Magic[2]
      <4> SUFFICES ASSUME Len(v) > 0 PROVE v[1].value # Magic[2]
        OBVIOUS
      <4>1. noise # <<>> /\ 1 \in 1 .. Len(noise)
        BY <2>1, <3>2, EmptySeq
      <4> QED
        BY <3>2, <4>1 DEF Unmistakable
    <3>6. receiver = "device" => Steady(seen, wire \o v, delivered, owed, quiet)
      <4>1. quiet \in Nat
        BY <1>2, <1>3
      <4> QED
        BY <1>1, <1>2, <2>3, <3>4, <3>5, <4>1, SteadyNoise
    <3> QED
      BY <1>2, <2>2, <3>1, <3>6 DEF SyncInv
  <2> QED
    BY <2>4, <2>5
<1>10. CASE DeviceReads
  <2>1. /\ receiver = "device" /\ wire # <<>>
        /\ seen' = Fed(seen, Head(wire)) /\ delivered' = delivered \o Parsed(seen, Head(wire))
        /\ wire' = Tail(wire) /\ receiver' = receiver
        /\ UNCHANGED <<number, owed, quiet>>
    BY <1>10 DEF DeviceReads
  <2>2. SeenSoFar(seen)
    BY DEF LinkInv, SeenOK
  <2>3. Steady(Fed(seen, Head(wire)), Tail(wire), delivered \o Parsed(seen, Head(wire)), owed, quiet)
    BY <1>1, <1>2, <2>1, <2>2, SteadyReads
  <2> QED
    BY <1>2, <2>1, <2>3 DEF SyncInv
<1>11. ASSUME NEW k \in Chunks, HostReads(k) PROVE SyncInv'
  BY <1>2, <1>11 DEF HostReads, SyncInv
<1>12. CASE UNCHANGED vars
  BY <1>2, <1>12 DEF vars, SyncInv
<1> QED
  BY <1>6, <1>7, <1>8, <1>9, <1>10, <1>11, <1>12 DEF Next

LEMMA SyncResyncs == LinkInv /\ SyncInv => DeviceResyncs
<1> SUFFICES ASSUME LinkInv, SyncInv, receiver = "device", wire = <<>>, NEW x \in ToSet(owed)
             PROVE  x \in ToSet(delivered)
  BY DEF DeviceResyncs
<1>1. PICK t : \A i \in 1 .. Len(owed) : Comes(t, <<>>, delivered, owed[i])
  BY DEF SyncInv, Steady
<1>2. owed \in Seq(Bodies) /\ delivered \in Seq(Bodies)
  BY KeptType DEF SyncInv
<1>3. PICK i \in 1 .. Len(owed) : x = owed[i]
  BY <1>2 DEF ToSet
<1>4. Len(<<>>) = 0
  BY EmptySeq
<1>5. \E j \in 1 .. Len(delivered) : delivered[j] = x
  BY <1>1, <1>3, <1>4 DEF Comes
<1> QED
  BY <1>2, <1>5 DEF ToSet

(* The firmware is back in step at the latest one longest frame after the  *)
(* damage, whatever the damage and the longest payload: it then gets every *)
(* frame sent whole, if none seems to begin inside another or across noise *)
(* (slvr_parser_feed_byte, which does not look back).                      *)
THEOREM DeviceResyncsHolds == ASSUME Unmistakable PROVE Spec => []DeviceResyncs
<1>1. LinkInv /\ SyncInv /\ [Next]_vars => SyncInv'
  BY SyncStep
<1> QED
  BY <1>1, SyncInit, LinkInvHolds, SyncResyncs, PTL DEF Spec
=============================================================================
