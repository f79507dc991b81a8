---------------------------- MODULE FlasherProofs ----------------------------
(***************************************************************************)
(* The installer for every number of images, blocks and attempts, every    *)
(* kind of device, and any interleaving of answers, timeouts, lost         *)
(* commands, pulled cables and repeated installations.                     *)
(***************************************************************************)
EXTENDS Flasher, SequenceTheorems, TLAPS

Flashing == {"begin", "data", "end", "md5"}
Steps == Commands \cup Resting \cup {"boot", "fetch", "reset"}
Answer == [op : Commands \cup {"short"}, ok : BOOLEAN, value : {"none", "esp32", "esp32s3"}]
Command == [op : Commands, img : 1 .. Images, blk : 1 .. Blocks]

PageTypeOK ==
    /\ step \in Steps /\ sent \in BOOLEAN /\ (sent = TRUE => step \in Commands)
    /\ attempt \in Nat /\ chip \in {"esp32s3", "other"}
    /\ img \in 1 .. Images /\ blk \in 1 .. Blocks
    /\ open \in BOOLEAN

LinkTypeOK ==
    /\ rx \in Seq(Answer) /\ inbox \in Seq(Command)
    /\ device \in Devices
    /\ flash \in [AllBlocks -> {"old", "erased", "new"}]
    /\ mishaps \in Nat /\ leftover \in BOOLEAN

FlasherTypeOK == PageTypeOK /\ LinkTypeOK

(* What keeps the installer off a chip that is not an ESP32-S3: it never   *)
(* hears the answer that would take it past the detection.                 *)
Spared ==
    device.kind # "esp32s3" =>
        /\ flash = [b \in AllBlocks |-> "old"]
        /\ chip # "esp32s3"
        /\ step \notin Flashing \cup {"fetch", "reset"}
        /\ \A i \in 1 .. Len(rx) : rx[i].value # "esp32s3"
        /\ \A i \in 1 .. Len(inbox) : inbox[i].op \notin Flashing

LEMMA Sizes == /\ Images \in Nat /\ Images > 0 /\ Blocks \in Nat /\ Blocks > 0
               /\ MaxAttempts \in Nat
  BY FlasherAssumption

LEMMA HeadTail ==
    ASSUME NEW S, NEW s \in Seq(S), s # <<>>
    PROVE  /\ Len(s) \in Nat /\ Len(s) > 0
           /\ Head(s) = s[1] /\ Head(s) \in S
           /\ Tail(s) \in Seq(S) /\ Len(Tail(s)) = Len(s) - 1
           /\ \A i \in 1 .. Len(Tail(s)) : i + 1 \in 1 .. Len(s) /\ Tail(s)[i] = s[i + 1]
  BY HeadTailProperties, EmptySeq, LenProperties

(* What the buffer gets: the answer itself comes last, and the fragments   *)
(* before it carry nothing.                                                *)
LEMMA FramesAre ==
    ASSUME device \in Devices, NEW a \in Answer, NEW n \in Nat
    PROVE  /\ Frames(a, n) \in Seq(Answer)
           /\ Len(Frames(a, n)) = IF device.framed THEN 2 * n ELSE n
           /\ \A i \in 1 .. Len(Frames(a, n)) : Frames(a, n)[i] \in {Short, a}
           /\ n = 1 => /\ Frames(a, n)[Len(Frames(a, n))] = a
                       /\ device.framed => Frames(a, n)[1] = Short
<1>1. device.framed \in BOOLEAN /\ Short \in Answer
  BY FlasherAssumption DEF Short, Answer
<1> DEFINE two == [k \in 1 .. (2 * n) |-> IF k % 2 = 1 THEN Short ELSE a]
           one == [k \in 1 .. n |-> a]
<1>2. two \in [1 .. (2 * n) -> Answer] /\ one \in [1 .. n -> Answer]
  BY <1>1
<1>3. 2 * n \in Nat
  OBVIOUS
<1>4. two \in Seq(Answer) /\ Len(two) = 2 * n /\ one \in Seq(Answer) /\ Len(one) = n
  <2> HIDE DEF two, one
  <2> QED
    BY <1>2, <1>3, SeqDef, LenProperties
<1>5. n = 1 => two[1] = Short /\ two[2] = a /\ one[1] = a
  OBVIOUS
<1>6. Frames(a, n) = IF device.framed THEN two ELSE one
  BY DEF Frames
<1>7. \A i \in 1 .. (2 * n) : two[i] \in {Short, a}
  OBVIOUS
<1>8. \A i \in 1 .. n : one[i] \in {Short, a}
  OBVIOUS
<1> HIDE DEF two, one
<1> QED
  BY <1>1, <1>4, <1>5, <1>6, <1>7, <1>8

(* Where an answer, or an exception, can lead.                             *)
LEMMA NextTypes ==
    ASSUME PageTypeOK, Halt \/ TryAgain \/ NextImage \/ NextBlock
                          \/ (\E s \in Steps : Only(s))
                          \/ (\E c \in {"esp32s3", "other"} : Detected(c))
    PROVE  PageTypeOK' /\ sent' = FALSE
<1>1. {"sync", "attach", "begin", "data", "end", "reset", "halted"} \subseteq Steps
  BY DEF Steps, Commands, Resting
<1>2. CASE Halt
  BY <1>1, <1>2 DEF Halt, GoTo, PageTypeOK
<1>3. CASE TryAgain
  <2>1. attempt + 1 \in Nat
    BY DEF PageTypeOK
  <2> QED
    BY <1>1, <1>2, <1>3, <2>1 DEF TryAgain, GoTo, PageTypeOK
<1>4. CASE \E s \in Steps : Only(s)
  BY <1>4 DEF Only, GoTo, PageTypeOK
<1>5. CASE NextImage
  <2>1. 1 \in 1 .. Blocks /\ (img < Images => img + 1 \in 1 .. Images)
    BY Sizes DEF PageTypeOK
  <2> QED
    BY <1>1, <1>4, <1>5, <2>1 DEF NextImage, GoTo, PageTypeOK
<1>6. CASE NextBlock
  <2>1. blk < Blocks => blk + 1 \in 1 .. Blocks
    BY Sizes DEF PageTypeOK
  <2> QED
    BY <1>1, <1>4, <1>6, <2>1 DEF NextBlock, GoTo, PageTypeOK
<1>7. CASE \E c \in {"esp32s3", "other"} : Detected(c)
  BY <1>1, <1>7 DEF Detected, GoTo, PageTypeOK
<1> QED
  BY <1>2, <1>3, <1>4, <1>5, <1>6, <1>7

LEMMA ThrownTypes ==
    ASSUME PageTypeOK, Thrown PROVE PageTypeOK' /\ sent' = FALSE
<1>1. Halt \/ TryAgain \/ NextImage \/ Only("regS3") \/ Detected("other")
  BY DEF Thrown
<1>2. "regS3" \in Steps
  BY DEF Steps, Commands
<1> QED
  BY <1>1, <1>2, NextTypes

LEMMA TakenTypes ==
    ASSUME PageTypeOK, step \in Commands, NEW a, Taken(a) PROVE PageTypeOK' /\ sent' = FALSE
<1>1. \/ Halt \/ TryAgain \/ NextImage \/ NextBlock \/ Detected("other") \/ Detected("esp32s3")
      \/ Only("reg32") \/ Only("regS3") \/ Only("fetch") \/ Only("data") \/ Only("md5")
  <2>1. step \in {"sync", "reg32", "regS3", "attach", "begin", "data", "end", "md5"}
    BY DEF Commands
  <2> QED
    BY <2>1 DEF Taken
<1>2. {"reg32", "regS3", "fetch", "data", "md5"} \subseteq Steps
  BY DEF Steps, Commands
<1> QED
  BY <1>1, <1>2, NextTypes

(* The answer of the device to the first command it has not handled.       *)
LEMMA AnswerIs ==
    ASSUME FlasherTypeOK, DeviceAnswers
    PROVE  \E a \in Answer, n \in Nat :
             /\ a.op = Head(inbox).op
             /\ n = 1 \/ a.op = "sync"
             /\ a.value = "esp32s3" => a.op = "regS3" /\ device.kind = "esp32s3"
             /\ IF a.ok THEN Performed(Head(inbox)) ELSE UNCHANGED <<base, flash>>
             /\ rx' = IF open THEN rx \o Frames(a, n) ELSE rx
<1>1. /\ Head(inbox) \in Command /\ device.echoes \in Nat
  BY HeadTail, FlasherAssumption DEF DeviceAnswers, FlasherTypeOK, LinkTypeOK
<1>2. PICK ok \in BOOLEAN, value \in Values(Head(inbox).op) :
        /\ IF ok THEN Performed(Head(inbox)) ELSE UNCHANGED <<base, flash>>
        /\ rx' = IF open
                 THEN rx \o Frames([op |-> Head(inbox).op, ok |-> ok, value |-> value],
                                   IF Head(inbox).op = "sync" THEN device.echoes ELSE 1)
                 ELSE rx
  BY DEF DeviceAnswers
<1>3. /\ value \in {"none", "esp32", "esp32s3"}
      /\ value = "esp32s3" => Head(inbox).op = "regS3" /\ device.kind = "esp32s3"
  BY <1>2 DEF Values
<1> DEFINE a == [op |-> Head(inbox).op, ok |-> ok, value |-> value]
           n == IF Head(inbox).op = "sync" THEN device.echoes ELSE 1
<1>4. /\ a \in Answer /\ n \in Nat /\ (n = 1 \/ a.op = "sync")
      /\ a.op = Head(inbox).op /\ a.ok = ok /\ a.value = value
  BY <1>1, <1>3 DEF Answer, Command
<1>5. rx' = IF open THEN rx \o Frames(a, n) ELSE rx
  BY <1>2
<1> HIDE DEF a, n
<1> QED
  BY <1>2, <1>3, <1>4, <1>5

(* The buffer afterwards.                                                  *)
LEMMA Buffer ==
    ASSUME FlasherTypeOK, NEW a \in Answer, NEW n \in Nat
    PROVE  LET F == Frames(a, n) IN
           /\ rx \o F \in Seq(Answer)
           /\ Len(rx \o F) = Len(rx) + Len(F)
           /\ \A i \in 1 .. Len(rx) : (rx \o F)[i] = rx[i]
           /\ \A i \in 1 .. Len(F) : (rx \o F)[Len(rx) + i] = F[i]
           /\ \A i \in 1 .. Len(rx \o F) :
                \/ i <= Len(rx) /\ (rx \o F)[i] = rx[i]
                \/ i > Len(rx) /\ (rx \o F)[i] \in {Short, a}
<1> DEFINE F == Frames(a, n)
<1>1. /\ F \in Seq(Answer) /\ rx \in Seq(Answer) /\ Len(rx) \in Nat /\ Len(F) \in Nat
      /\ \A i \in 1 .. Len(F) : F[i] \in {Short, a}
  BY FramesAre, LenProperties DEF FlasherTypeOK, LinkTypeOK
<1> HIDE DEF F
<1>2. /\ rx \o F \in Seq(Answer) /\ Len(rx \o F) = Len(rx) + Len(F)
      /\ \A i \in 1 .. Len(rx) + Len(F) :
            (rx \o F)[i] = IF i <= Len(rx) THEN rx[i] ELSE F[i - Len(rx)]
  BY <1>1, ConcatProperties
<1>3. \A i \in 1 .. Len(F) : (rx \o F)[Len(rx) + i] = F[i]
  <2> TAKE i \in 1 .. Len(F)
  <2>1. Len(rx) + i \in 1 .. Len(rx) + Len(F) /\ ~(Len(rx) + i <= Len(rx))
        /\ (Len(rx) + i) - Len(rx) = i
    BY <1>1
  <2> QED
    BY <1>2, <2>1
<1>4. ASSUME NEW i \in 1 .. Len(rx \o F)
      PROVE  \/ i <= Len(rx) /\ (rx \o F)[i] = rx[i]
             \/ i > Len(rx) /\ (rx \o F)[i] \in {Short, a}
  <2>1. i > Len(rx) => i - Len(rx) \in 1 .. Len(F)
    BY <1>1, <1>2
  <2> QED
    BY <1>1, <1>2, <2>1
<1>5. \A i \in 1 .. Len(rx) : (rx \o F)[i] = rx[i]
  BY <1>1, <1>2
<1> QED
  BY <1>2, <1>3, <1>4, <1>5 DEF F

LEMMA AnswerTypes ==
    ASSUME FlasherTypeOK, DeviceAnswers
    PROVE  /\ rx' \in Seq(Answer)
           /\ flash' \in [AllBlocks -> {"old", "erased", "new"}]
<1>1. PICK a \in Answer, n \in Nat :
        /\ IF a.ok THEN Performed(Head(inbox)) ELSE UNCHANGED <<base, flash>>
        /\ rx' = IF open THEN rx \o Frames(a, n) ELSE rx
  BY AnswerIs
<1>2. rx \in Seq(Answer) /\ flash \in [AllBlocks -> {"old", "erased", "new"}]
  BY DEF FlasherTypeOK, LinkTypeOK
<1>3. rx' \in Seq(Answer)
  BY <1>1, <1>2, Buffer
<1>4. flash' \in [AllBlocks -> {"old", "erased", "new"}]
  BY <1>1, <1>2 DEF Performed
<1> QED
  BY <1>3, <1>4

LEMMA TypeStarts == Init => FlasherTypeOK
<1>1. 1 \in 1 .. Images /\ 1 \in 1 .. Blocks
  BY Sizes
<1>2. <<>> \in Seq(Answer) /\ <<>> \in Seq(Command)
  BY EmptySeq
<1> QED
  <2> SUFFICES ASSUME Init PROVE FlasherTypeOK
    OBVIOUS
  <2>1. /\ step = "idle" /\ sent = FALSE /\ attempt = 1 /\ chip = "other"
        /\ img = 1 /\ blk = 1 /\ open = FALSE /\ rx = <<>> /\ inbox = <<>>
        /\ device \in Devices /\ flash = [b \in AllBlocks |-> "old"]
        /\ mishaps = 0 /\ leftover = FALSE
    BY DEF Init
  <2>2. attempt \in Nat /\ mishaps \in Nat
    BY <2>1
  <2>3. PageTypeOK
    BY <1>1, <2>1, <2>2 DEF PageTypeOK, Steps, Resting
  <2>4. flash \in [AllBlocks -> {"old", "erased", "new"}]
    BY <2>1
  <2>5. LinkTypeOK
    BY <1>2, <2>1, <2>2, <2>4 DEF LinkTypeOK
  <2> QED
    BY <2>3, <2>5 DEF FlasherTypeOK

LEMMA TypeStep == FlasherTypeOK /\ [Next]_vars => FlasherTypeOK'
<1> SUFFICES ASSUME FlasherTypeOK, [Next]_vars PROVE FlasherTypeOK'
  OBVIOUS
<1>1. PageTypeOK /\ LinkTypeOK
  BY DEF FlasherTypeOK, PageTypeOK, LinkTypeOK
<1>2. /\ 1 \in 1 .. Images /\ 1 \in 1 .. Blocks
      /\ <<>> \in Seq(Answer) /\ <<>> \in Seq(Command)
      /\ Commands \cup Resting \cup {"boot", "fetch", "reset"} = Steps
      /\ MaxMishaps \in Nat
  BY Sizes, EmptySeq, FlasherAssumption DEF Steps
<1>3. inbox # <<>> => Tail(inbox) \in Seq(Command)
  BY HeadTail DEF FlasherTypeOK, LinkTypeOK
<1>4. CASE Click
  BY <1>2, <1>4 DEF Click, GoTo, deviceVars, FlasherTypeOK, PageTypeOK, LinkTypeOK
<1>5. CASE Boot
  BY <1>2, <1>5 DEF Boot, Reset, Only, GoTo, FlasherTypeOK, PageTypeOK, LinkTypeOK, Commands
<1>6. CASE HardReset
  BY <1>2, <1>6 DEF HardReset, Reset, GoTo, historyVars, FlasherTypeOK, PageTypeOK, LinkTypeOK, Resting
<1>7. CASE Send
  <2>1. [op |-> step, img |-> img, blk |-> blk] \in Command
    BY <1>7 DEF Send, Command, FlasherTypeOK, PageTypeOK, LinkTypeOK
  <2>2. inbox' \in Seq(Command)
    BY <1>7, <2>1, AppendProperties DEF Send, FlasherTypeOK, PageTypeOK, LinkTypeOK
  <2> QED
    BY <1>7, <2>2 DEF Send, historyVars, FlasherTypeOK, PageTypeOK, LinkTypeOK
<1>8. CASE Read
  <2>1. step \in Commands
    BY <1>1, <1>8 DEF Read, PageTypeOK
  <2>2. PageTypeOK'
    BY <1>1, <1>8, <2>1, TakenTypes, ThrownTypes DEF Read
  <2>3. rx' \in Seq(Answer)
    BY <1>8, HeadTail DEF Read, FlasherTypeOK, PageTypeOK, LinkTypeOK
  <2> QED
    BY <1>1, <1>8, <2>2, <2>3 DEF FlasherTypeOK, LinkTypeOK, Read, deviceVars, historyVars
<1>9. CASE TimesOut
  <2>1. PageTypeOK'
    BY <1>1, <1>9, ThrownTypes DEF TimesOut
  <2> QED
    BY <1>1, <1>2, <1>9, <2>1 DEF FlasherTypeOK, LinkTypeOK, TimesOut, deviceVars
<1>10. CASE PortGone
  <2>1. PageTypeOK'
    BY <1>1, <1>10, ThrownTypes DEF PortGone
  <2> QED
    BY <1>1, <1>10, <2>1 DEF FlasherTypeOK, LinkTypeOK, PortGone, deviceVars, historyVars
<1>11. CASE Fetch
  <2>1. PageTypeOK'
    BY <1>1, <1>2, <1>11, NextTypes DEF Fetch, Commands
  <2> QED
    BY <1>1, <1>11, <2>1 DEF FlasherTypeOK, LinkTypeOK, Fetch, deviceVars
<1>12. CASE DeviceAnswers
  <2>1. rx' \in Seq(Answer) /\ flash' \in [AllBlocks -> {"old", "erased", "new"}]
    BY <1>12, AnswerTypes
  <2>2. inbox' \in Seq(Command)
    BY <1>3, <1>12 DEF DeviceAnswers
  <2>3. UNCHANGED <<pageVars, device, mishaps, leftover>>
    BY <1>12 DEF DeviceAnswers
  <2> QED
    BY <1>1, <2>1, <2>2, <2>3 DEF FlasherTypeOK, LinkTypeOK, pageVars, PageTypeOK
<1>13. CASE CommandLost
  BY <1>2, <1>3, <1>13 DEF CommandLost, pageVars, FlasherTypeOK, PageTypeOK, LinkTypeOK
<1>14. CASE Unplug
  BY <1>2, <1>14 DEF Unplug, FlasherTypeOK, PageTypeOK, LinkTypeOK
<1>15. CASE Replug
  BY <1>15 DEF Replug, pageVars, historyVars, FlasherTypeOK, PageTypeOK, LinkTypeOK
<1>16. CASE UNCHANGED vars
  BY <1>16 DEF vars, pageVars, deviceVars, historyVars, FlasherTypeOK, PageTypeOK, LinkTypeOK
<1> QED
  BY <1>4, <1>5, <1>6, <1>7, <1>8, <1>9, <1>10, <1>11, <1>12, <1>13, <1>14, <1>15, <1>16
  DEF Next, Page

(* A chip that is not an ESP32-S3.                                         *)
LEMMA SparedStep == FlasherTypeOK /\ Spared /\ [Next]_vars => Spared'
<1> SUFFICES ASSUME FlasherTypeOK, Spared, [Next]_vars, device'.kind # "esp32s3"
             PROVE  /\ flash' = [b \in AllBlocks |-> "old"]
                    /\ chip' # "esp32s3"
                    /\ step' \notin Flashing \cup {"fetch", "reset"}
                    /\ \A i \in 1 .. Len(rx') : rx'[i].value # "esp32s3"
                    /\ \A i \in 1 .. Len(inbox') : inbox'[i].op \notin Flashing
  BY DEF Spared
<1>1. device' = device
  BY DEF Next, Page, vars, deviceVars, Click, Boot, Send, Read, TimesOut, PortGone, Fetch,
         HardReset, DeviceAnswers, CommandLost, Unplug, Replug
<1>2. /\ flash = [b \in AllBlocks |-> "old"]
      /\ chip # "esp32s3"
      /\ step \notin Flashing \cup {"fetch", "reset"}
      /\ \A i \in 1 .. Len(rx) : rx[i].value # "esp32s3"
      /\ \A i \in 1 .. Len(inbox) : inbox[i].op \notin Flashing
  BY <1>1 DEF Spared
<1>3. /\ Len(<<>>) = 0 /\ (\A i : i \notin 1 .. 0)
      /\ rx \in Seq(Answer) /\ inbox \in Seq(Command)
  BY EmptySeq DEF FlasherTypeOK, LinkTypeOK
<1>4. inbox # <<>> => \A i \in 1 .. Len(Tail(inbox)) : Tail(inbox)[i].op \notin Flashing
  BY <1>2, <1>3, HeadTail
<1>5. Halt \/ TryAgain \/ Detected("other") \/ Only("reg32") \/ Only("regS3") =>
        chip' # "esp32s3" /\ step' \notin Flashing \cup {"fetch", "reset"}
  BY <1>2 DEF Halt, TryAgain, Detected, Only, GoTo, Flashing
<1>6. Thrown => chip' # "esp32s3" /\ step' \notin Flashing \cup {"fetch", "reset"}
  BY <1>2, <1>5 DEF Thrown, Flashing
<1>7. CASE Click
  BY <1>2, <1>3, <1>7 DEF Click, GoTo, deviceVars, Flashing
<1>8. CASE Boot
  BY <1>2, <1>3, <1>8 DEF Boot, Reset, Only, GoTo, Flashing
<1>9. CASE HardReset \/ Fetch
  BY <1>2, <1>9 DEF HardReset, Fetch
<1>10. CASE Send
  <2>1. step \notin Flashing /\ [op |-> step, img |-> img, blk |-> blk] \in Command
    BY <1>2, <1>10 DEF Send, Command, FlasherTypeOK, PageTypeOK
  <2>2. \A i \in 1 .. Len(inbox') : inbox'[i].op \notin Flashing
    <3> DEFINE own == [op |-> step, img |-> img, blk |-> blk]
    <3>1. own \in Command /\ own.op = step /\ inbox' = Append(inbox, own)
      BY <1>10, <2>1 DEF Send
    <3> HIDE DEF own
    <3>2. /\ Len(inbox') = Len(inbox) + 1 /\ inbox'[Len(inbox) + 1] = own
          /\ \A i \in 1 .. Len(inbox) : inbox'[i] = inbox[i]
      BY <1>3, <3>1, AppendProperties
    <3>3. \A i \in 1 .. (Len(inbox) + 1) : i \in 1 .. Len(inbox) \/ i = Len(inbox) + 1
      BY <1>3, LenProperties
    <3> QED
      BY <1>2, <2>1, <3>1, <3>2, <3>3
  <2> QED
    BY <1>2, <1>10, <2>2 DEF Send
<1>11. CASE Read
  <2>1. /\ rx' = Tail(rx) /\ Head(rx).value # "esp32s3"
        /\ \A i \in 1 .. Len(rx') : rx'[i].value # "esp32s3"
    <3>1. rx # <<>> /\ rx' = Tail(rx)
      BY <1>11 DEF Read
    <3>2. 1 \in 1 .. Len(rx) /\ Head(rx) = rx[1]
      BY <1>3, <3>1, HeadTail
    <3> QED
      BY <1>2, <1>3, <3>1, <3>2, HeadTail
  <2>2. Taken(Head(rx)) => chip' # "esp32s3" /\ step' \notin Flashing \cup {"fetch", "reset"}
    <3>1. step \in {"sync", "reg32", "regS3", "attach"}
      BY <1>2, <1>11 DEF Read, FlasherTypeOK, PageTypeOK, Commands, Flashing
    <3>2. Taken(Head(rx)) =>
            Halt \/ TryAgain \/ Detected("other") \/ Only("reg32") \/ Only("regS3")
      BY <1>2, <2>1, <3>1 DEF Taken, Supported
    <3> QED
      BY <1>5, <3>2
  <2> QED
    BY <1>2, <1>6, <1>11, <2>1, <2>2 DEF Read, deviceVars
<1>12. CASE TimesOut
  BY <1>2, <1>6, <1>12 DEF TimesOut, deviceVars
<1>13. CASE PortGone
  BY <1>2, <1>6, <1>13 DEF PortGone, deviceVars
<1>14. CASE DeviceAnswers
  <2>1. PICK a \in Answer, n \in Nat :
          /\ a.value = "esp32s3" => device.kind = "esp32s3"
          /\ IF a.ok THEN Performed(Head(inbox)) ELSE UNCHANGED <<base, flash>>
          /\ rx' = IF open THEN rx \o Frames(a, n) ELSE rx
    BY <1>14, AnswerIs
  <2>2. \A i \in 1 .. Len(rx') : rx'[i].value # "esp32s3"
    <3>1. a.value # "esp32s3" /\ Short.value # "esp32s3"
      BY <1>1, <2>1 DEF Short
    <3>2. \A i : i \in 1 .. Len(rx \o Frames(a, n)) /\ i <= Len(rx) => i \in 1 .. Len(rx)
      BY <1>3, Buffer, LenProperties
    <3>3. CASE open
      <4>1. rx' = rx \o Frames(a, n)
        BY <2>1, <3>3
      <4>2. \A i \in 1 .. Len(rx \o Frames(a, n)) :
               \/ i <= Len(rx) /\ (rx \o Frames(a, n))[i] = rx[i]
               \/ (rx \o Frames(a, n))[i] \in {Short, a}
        BY Buffer
      <4>3. \A i \in 1 .. Len(rx \o Frames(a, n)) : (rx \o Frames(a, n))[i].value # "esp32s3"
        BY <1>2, <3>1, <3>2, <4>2
      <4> QED
        BY <4>1, <4>3
    <3> QED
      BY <1>2, <2>1, <3>3
  <2>3. flash' = flash
    <3>1. inbox # <<>> /\ Head(inbox).op \notin Flashing
      <4>1. inbox # <<>>
        BY <1>14 DEF DeviceAnswers
      <4>2. 1 \in 1 .. Len(inbox) /\ Head(inbox) = inbox[1]
        BY <1>3, <4>1, HeadTail
      <4> QED
        BY <1>2, <4>1, <4>2
    <3> QED
      BY <2>1, <3>1 DEF Performed, Flashing
  <2> QED
    BY <1>2, <1>4, <1>14, <2>2, <2>3 DEF DeviceAnswers, pageVars
<1>15. CASE CommandLost
  BY <1>2, <1>4, <1>15 DEF CommandLost, pageVars
<1>16. CASE Unplug
  BY <1>2, <1>3, <1>16 DEF Unplug
<1>17. CASE Replug
  BY <1>2, <1>17 DEF Replug, pageVars
<1>18. CASE UNCHANGED vars
  BY <1>2, <1>18 DEF vars, pageVars, deviceVars
<1> QED
  BY <1>7, <1>8, <1>9, <1>10, <1>11, <1>12, <1>13, <1>14, <1>15, <1>16, <1>17, <1>18
  DEF Next, Page

(* A chip that is not an ESP32-S3 is never erased or written, whatever is  *)
(* late, lost or left over when detectChip and initFlasher look at it.     *)
THEOREM TargetOnlyHolds == Spec => []TargetOnly
<1>1. Init => FlasherTypeOK /\ Spared
  <2> SUFFICES ASSUME Init PROVE FlasherTypeOK /\ Spared
    OBVIOUS
  <2>1. /\ step = "idle" /\ chip = "other" /\ rx = <<>> /\ inbox = <<>>
        /\ flash = [b \in AllBlocks |-> "old"]
    BY DEF Init
  <2>2. Len(<<>>) = 0 /\ (\A i : i \notin 1 .. 0)
    BY EmptySeq
  <2> QED
    BY <2>1, <2>2, TypeStarts DEF Spared, Flashing
<1>2. Spared => TargetOnly
  BY DEF Spared, TargetOnly
<1> QED
  BY <1>1, <1>2, TypeStep, SparedStep, PTL DEF Spec

(* The rest is about installations that nothing older than the reset       *)
(* spoils.  The question whose answer cannot be mistaken for another is    *)
(* the last one asked.                                                     *)
Placed ==
    /\ step \in {"boot", "sync", "reg32", "regS3", "attach", "fetch"} => img = 1 /\ blk = 1
    /\ step = "begin" => blk = 1
    /\ step \in {"end", "md5"} => blk = Blocks

Asking ==
    /\ step \in {"sync", "reg32"} \/ (step = "regS3" /\ sent = FALSE) =>
         /\ \A i \in 1 .. Len(rx) : rx[i].value # "esp32s3"
         /\ \A i \in 1 .. Len(inbox) : inbox[i].op # "regS3"
    /\ step = "regS3" /\ sent = TRUE =>
         /\ \A i \in 1 .. Len(rx) :
              rx[i].value = "esp32s3" => i = Len(rx) /\ Len(inbox) = 0
         /\ \A i \in 1 .. Len(inbox) : inbox[i].op = "regS3" => i = Len(inbox)

(* What an answer of success to the command of this step, or to the one    *)
(* before it, says of the flash.                                           *)
Own == [op |-> step, img |-> img, blk |-> blk]
OwnDone == step = "data" => flash[<<img, blk>>] = "new"

LastBlock == IF step = "data" THEN blk - 1 ELSE Blocks  \* the latest left behind
WriteBefore == (step = "data" /\ blk > 1) \/ step = "end"

Before(c) ==  \* c is the command before that of this step
    IF WriteBefore THEN c.op = "data" /\ c.img = img /\ c.blk = LastBlock
    ELSE CASE step = "begin" -> c.op = "md5"
           [] step = "data" -> c.op = "begin" /\ c.img = img
           [] OTHER -> c.op = "end"
BeforeDone == WriteBefore => flash[<<img, LastBlock>>] = "new"

(* The blocks known to be written: all that were sent but for the latest   *)
(* l, whose answer is not in yet.                                          *)
Passed(b, l) ==
    \/ b[1] < img
    \/ b[1] = img /\ (step = "md5" \/ (step \in {"data", "end"} /\ b[2] <= LastBlock - l))

Written(l) == \A b \in AllBlocks : Passed(b, l) => flash[b] = "new"

(* Every answer that comes is the one waited for.                          *)
InStep ==
    \/ sent = FALSE /\ Len(rx) = 0 /\ Len(inbox) = 0
    \/ sent = TRUE /\ Len(rx) = 0 /\ Len(inbox) = 1 /\ inbox[1] = Own
    \/ /\ sent = TRUE /\ Len(rx) > 0 /\ Len(inbox) = 0
       /\ rx[1].ok \/ step # "attach" => Len(rx) = 1 /\ rx[1].op = step
       /\ rx[1].ok => ~device.framed /\ OwnDone
    \/ sent = TRUE /\ Len(rx) = 0 /\ Len(inbox) = 0 /\ mishaps = 1

(* The answer to an MD5 command was not awaited, and every answer taken    *)
(* since is that of the command before.                                    *)
Lagging ==
    /\ mishaps = 1 /\ step \in Flashing
    /\ \/ sent = FALSE /\ Len(rx) = 0 /\ Len(inbox) = 1 /\ Before(inbox[1])
       \/ sent = FALSE /\ Len(rx) = 1 /\ Len(inbox) = 0 /\ (rx[1].ok => BeforeDone)
       \/ /\ sent = TRUE /\ Len(rx) = 0 /\ Len(inbox) = 2
          /\ Before(inbox[1]) /\ inbox[2] = Own
       \/ /\ sent = TRUE /\ Len(rx) = 1 /\ Len(inbox) = 1
          /\ rx[1].ok => BeforeDone
          /\ inbox[1] = Own
       \/ /\ sent = TRUE /\ Len(rx) = 2 /\ Len(inbox) = 0
          /\ rx[1].ok => BeforeDone
          /\ rx[2].ok => OwnDone

Installing ==
    /\ step \in {"fetch"} \cup Flashing => chip = "esp32s3" /\ ~device.framed
    /\ step \in {"attach", "fetch"} \cup Flashing /\ chip = "esp32s3" =>
         /\ open = TRUE => (InStep /\ Written(0)) \/ (Lagging /\ Written(1))
         /\ open = FALSE => Len(inbox) = 0 /\ (step = "md5" => Written(0))
         /\ step = "fetch" => sent = FALSE
    /\ step \in {"reset", "complete"} =>
         /\ \A b \in AllBlocks : flash[b] = "new"
         /\ \A i \in 1 .. Len(inbox) : inbox[i].op \notin {"begin", "data"}

(* Once an installation is past the reset with nothing left over.          *)
Cleanly ==
    /\ leftover = FALSE => Asking
    /\ leftover = FALSE /\ mishaps < 2 => Installing

LEMMA PlacedStep == FlasherTypeOK /\ Placed /\ [Next]_vars => Placed'
<1> SUFFICES ASSUME FlasherTypeOK, Placed, [Next]_vars PROVE Placed'
  OBVIOUS
<1> DEFINE Early == {"boot", "sync", "reg32", "regS3", "attach", "fetch"}
<1>1. /\ step \in Early => img = 1 /\ blk = 1
      /\ step = "begin" => blk = 1
      /\ step \in {"end", "md5"} => blk = Blocks
      /\ blk \in 1 .. Blocks /\ step \in Steps
  BY DEF Placed, FlasherTypeOK, PageTypeOK
<1>2. Halt => Placed'
  BY DEF Halt, GoTo, Placed
<1>3. step \in Early /\ TryAgain => Placed'
  BY <1>1, <1>2 DEF TryAgain, GoTo, Placed
<1>4. \A s \in Early : step \in Early /\ Only(s) => Placed'
  BY <1>1 DEF Only, GoTo, Placed
<1>5. \A c : step \in Early /\ Detected(c) => Placed'
  BY <1>1 DEF Detected, GoTo, Placed
<1>6. NextImage => Placed'
  <2>1. NextImage => (step' = "begin" /\ blk' = 1) \/ step' = "reset"
    BY DEF NextImage, Only, GoTo
  <2> QED
    BY <2>1 DEF Placed
<1>7. NextBlock => Placed'
  <2>1. ~(blk < Blocks) => blk = Blocks
    BY <1>1, Sizes
  <2>2. NextBlock => step' = "data" \/ (step' = "end" /\ blk' = Blocks)
    BY <2>1 DEF NextBlock, Only, GoTo
  <2> QED
    BY <2>2 DEF Placed
<1>8. Thrown => Placed'
  BY <1>2, <1>3, <1>4, <1>5, <1>6 DEF Thrown
<1>9. \A a : step \in Commands /\ Taken(a) => Placed'
  <2> TAKE a
  <2> SUFFICES ASSUME step \in Commands, Taken(a) PROVE Placed'
    OBVIOUS
  <2>1. CASE step \in {"sync", "reg32", "regS3", "attach"}
    BY <1>2, <1>3, <1>4, <1>5, <2>1 DEF Taken
  <2>2. CASE step = "begin"
    BY <1>1, <2>2 DEF Taken, Only, GoTo, Placed
  <2>3. CASE step = "data"
    BY <1>7, <2>3 DEF Taken
  <2>4. CASE step = "end"
    BY <1>1, <2>4 DEF Taken, Only, GoTo, Placed
  <2>5. CASE step = "md5"
    BY <1>6, <2>5 DEF Taken
  <2> QED
    BY <2>1, <2>2, <2>3, <2>4, <2>5 DEF Commands
<1>10. CASE Click
  BY <1>10 DEF Click, GoTo, Placed
<1>11. CASE Boot
  BY <1>4, <1>11 DEF Boot
<1>12. CASE HardReset
  BY <1>12 DEF HardReset, GoTo, Placed
<1>13. CASE Send \/ DeviceAnswers \/ CommandLost \/ Unplug \/ Replug \/ UNCHANGED vars
  BY <1>13 DEF Send, DeviceAnswers, CommandLost, Unplug, Replug, vars, pageVars, Placed
<1>14. CASE Read
  BY <1>8, <1>9, <1>14 DEF Read, FlasherTypeOK, PageTypeOK
<1>15. CASE TimesOut \/ PortGone
  BY <1>8, <1>15 DEF TimesOut, PortGone
<1>16. CASE Fetch
  BY <1>1, <1>2, <1>16 DEF Fetch, Only, GoTo, Placed
<1> QED
  BY <1>10, <1>11, <1>12, <1>13, <1>14, <1>15, <1>16 DEF Next, Page

(* No answer but that to the second register read can be taken for it.     *)
LEMMA AskingStep ==
    FlasherTypeOK /\ (leftover = FALSE => Asking) /\ [Next]_vars => (leftover' = FALSE => Asking')
<1> SUFFICES ASSUME FlasherTypeOK, leftover = FALSE => Asking, [Next]_vars, leftover' = FALSE
             PROVE  Asking'
  OBVIOUS
<1>1. /\ Len(<<>>) = 0 /\ (\A i : i \notin 1 .. 0)
      /\ rx \in Seq(Answer) /\ inbox \in Seq(Command)
      /\ Len(rx) \in Nat /\ Len(inbox) \in Nat
  BY EmptySeq, LenProperties DEF FlasherTypeOK, LinkTypeOK
<1>2. CASE Click
  BY <1>2 DEF Click, GoTo, Asking
<1>3. CASE Boot
  BY <1>1, <1>3 DEF Boot, Only, GoTo, Asking
<1>4. CASE HardReset \/ Fetch
  BY <1>4 DEF HardReset, Fetch, Only, Halt, GoTo, Asking
<1>5. CASE Send
  <2>1. Asking /\ step \in Commands /\ sent = FALSE
    BY <1>5 DEF Send, historyVars, FlasherTypeOK, PageTypeOK
  <2> DEFINE own == [op |-> step, img |-> img, blk |-> blk]
  <2>2. own \in Command /\ own.op = step
    BY <2>1 DEF Command, FlasherTypeOK, PageTypeOK
  <2>3. inbox' = Append(inbox, own) /\ rx' = rx /\ step' = step /\ sent' = TRUE
    BY <1>5 DEF Send
  <2> HIDE DEF own
  <2>4. /\ Len(inbox') = Len(inbox) + 1 /\ inbox'[Len(inbox) + 1] = own
        /\ \A i \in 1 .. Len(inbox) : inbox'[i] = inbox[i]
    BY <1>1, <2>2, <2>3, AppendProperties
  <2>5. \A i \in 1 .. (Len(inbox) + 1) : i \in 1 .. Len(inbox) \/ i = Len(inbox) + 1
    BY <1>1
  <2> QED
    BY <2>1, <2>2, <2>3, <2>4, <2>5 DEF Asking
<1>6. ASSUME Asking, inbox' = inbox, sent' = FALSE,
             \A i \in 1 .. Len(rx') : \E j \in 1 .. Len(rx) : rx'[i] = rx[j],
             step' \in {"sync", "reg32", "regS3"} => step \in {"sync", "reg32"}
      PROVE  Asking'
  BY <1>6 DEF Asking
<1>7. Halt \/ NextImage \/ NextBlock \/ (\E c : Detected(c))
          \/ Only("fetch") \/ Only("data") \/ Only("md5") =>
        step' \notin {"sync", "reg32", "regS3"} /\ sent' = FALSE
  BY DEF Halt, NextImage, NextBlock, Detected, Only, GoTo
<1>8. Thrown =>
        sent' = FALSE /\ (step' \in {"sync", "reg32", "regS3"} => step \in {"sync", "reg32"})
  BY <1>7 DEF Thrown, TryAgain, Only, GoTo
<1>9. \A a : step \in Commands /\ Taken(a) =>
        sent' = FALSE /\ (step' \in {"sync", "reg32", "regS3"} => step \in {"sync", "reg32"})
  <2> TAKE a
  <2> SUFFICES ASSUME step \in Commands, Taken(a)
      PROVE sent' = FALSE /\ (step' \in {"sync", "reg32", "regS3"} => step \in {"sync", "reg32"})
    OBVIOUS
  <2>1. CASE step \in {"sync", "reg32"}
    BY <1>7, <2>1 DEF Taken, TryAgain, Only, GoTo
  <2>2. CASE step \in {"regS3", "attach", "begin", "data", "end", "md5"}
    BY <1>7, <2>2 DEF Taken
  <2> QED
    BY <2>1, <2>2 DEF Commands
<1>10. CASE Read
  <2>1. Asking /\ inbox' = inbox /\ rx' = Tail(rx) /\ rx # <<>> /\ step \in Commands
    BY <1>10 DEF Read, historyVars, deviceVars, FlasherTypeOK, PageTypeOK
  <2>2. \A i \in 1 .. Len(rx') : \E j \in 1 .. Len(rx) : rx'[i] = rx[j]
    BY <1>1, <2>1, HeadTail
  <2> QED
    BY <1>6, <1>8, <1>9, <1>10, <2>1, <2>2 DEF Read
<1>11. CASE TimesOut \/ PortGone
  BY <1>6, <1>8, <1>11 DEF TimesOut, PortGone, historyVars, deviceVars
<1>12. inbox # <<>> => /\ Len(inbox) > 0 /\ Len(Tail(inbox)) = Len(inbox) - 1
                       /\ Head(inbox) = inbox[1] /\ 1 \in 1 .. Len(inbox)
                       /\ \A i \in 1 .. Len(Tail(inbox)) :
                            i + 1 \in 1 .. Len(inbox) /\ Tail(inbox)[i] = inbox[i + 1]
  BY <1>1, HeadTail
<1>13. ASSUME inbox # <<>>, inbox' = Tail(inbox), step' = step, sent' = sent, Asking
       PROVE  /\ step \in {"sync", "reg32"} \/ (step = "regS3" /\ sent = FALSE) =>
                   \A i \in 1 .. Len(inbox') : inbox'[i].op # "regS3"
              /\ step = "regS3" /\ sent = TRUE =>
                   \A i \in 1 .. Len(inbox') : inbox'[i].op = "regS3" => i = Len(inbox')
  BY <1>1, <1>12, <1>13 DEF Asking
<1>14. CASE DeviceAnswers
  <2>1. /\ Asking /\ inbox # <<>> /\ inbox' = Tail(inbox) /\ step' = step /\ sent' = sent
    BY <1>14 DEF DeviceAnswers, pageVars
  <2>2. PICK a \in Answer, n \in Nat :
          /\ a.op = Head(inbox).op
          /\ n = 1 \/ a.op = "sync"
          /\ a.value = "esp32s3" => a.op = "regS3"
          /\ rx' = IF open THEN rx \o Frames(a, n) ELSE rx
    BY <1>14, AnswerIs
  <2> DEFINE F == Frames(a, n)
  <2>3. /\ \A i \in 1 .. Len(rx') : i <= Len(rx) => i \in 1 .. Len(rx) /\ rx'[i] = rx[i]
        /\ \A i \in 1 .. Len(rx') :
              i > Len(rx) => rx'[i] \in {Short, a} /\ (n = 1 /\ i # Len(rx') => rx'[i] = Short)
    <3>1. CASE ~open
      <4>1. rx' = rx
        BY <2>2, <3>1
      <4> QED
        BY <1>1, <4>1
    <3>2. CASE open
      <4>1. /\ rx' = rx \o F /\ Len(F) \in Nat
            /\ Len(rx \o F) = Len(rx) + Len(F)
            /\ \A i \in 1 .. Len(rx) : (rx \o F)[i] = rx[i]
            /\ \A i \in 1 .. Len(F) : (rx \o F)[Len(rx) + i] = F[i]
            /\ \A i \in 1 .. Len(rx \o F) :
                 \/ i <= Len(rx) /\ (rx \o F)[i] = rx[i]
                 \/ i > Len(rx) /\ (rx \o F)[i] \in {Short, a}
        <5>1. rx' = rx \o F
          BY <2>2, <3>2
        <5>2. device \in Devices
          BY DEF FlasherTypeOK, LinkTypeOK
        <5>3. Len(F) \in Nat
          BY <5>2, FramesAre
        <5> QED
          BY <5>1, <5>3, Buffer
      <4>2. n = 1 => \/ Len(F) = 1
                     \/ Len(F) = 2 /\ F[1] = Short
        <5>1. device \in Devices
          BY DEF FlasherTypeOK, LinkTypeOK
        <5>2. Len(F) = IF device.framed THEN 2 * n ELSE n
          BY <5>1, FramesAre
        <5>3. n = 1 /\ device.framed => F[1] = Short
          BY <5>1, FramesAre
        <5> QED
          BY <5>2, <5>3
      <4> HIDE DEF F
      <4>3. ASSUME NEW i \in 1 .. Len(rx'), i > Len(rx), n = 1, i # Len(rx')
            PROVE  rx'[i] = Short
        <5>1. Len(F) = 2 /\ F[1] = Short /\ i = Len(rx) + 1 /\ 1 \in 1 .. Len(F)
          <6>1. i \in Nat /\ i <= Len(rx) + Len(F) /\ i # Len(rx) + Len(F)
            BY <4>1, <4>3
          <6>2. Len(F) # 1
            <7>1. \A u, v, w \in Nat : u > v /\ u <= v + w /\ u # v + w => w # 1
              OBVIOUS
            <7> QED
              BY <1>1, <4>1, <4>3, <6>1, <7>1
          <6>3. Len(F) = 2 /\ F[1] = Short
            BY <4>2, <4>3, <6>2
          <6> QED
            BY <1>1, <4>3, <6>1, <6>3
        <5> QED
          BY <4>1, <5>1
      <4> QED
        BY <1>1, <4>1, <4>3
    <3> QED
      BY <3>1, <3>2
  <2> HIDE DEF F
  <2>4. Short.value # "esp32s3"
    BY DEF Short
  <2>5. CASE step \in {"sync", "reg32"} \/ (step = "regS3" /\ sent = FALSE)
    <3>1. a.value # "esp32s3"
      BY <1>12, <2>1, <2>2, <2>5 DEF Asking
    <3>2. \A i \in 1 .. Len(rx') : rx'[i].value # "esp32s3"
      <4> TAKE i \in 1 .. Len(rx')
      <4>1. i \in Nat
        OBVIOUS
      <4> QED
        BY <1>1, <2>1, <2>3, <2>4, <2>5, <3>1, <4>1 DEF Asking
    <3> QED
      BY <1>13, <2>1, <2>5, <3>2 DEF Asking
  <2>6. CASE step = "regS3" /\ sent = TRUE
    <3>1. ASSUME NEW i \in 1 .. Len(rx'), rx'[i].value = "esp32s3"
          PROVE  i = Len(rx') /\ Len(inbox') = 0
      <4>1. i \in Nat
        OBVIOUS
      <4>2. ~(i <= Len(rx))
        BY <1>1, <1>12, <2>1, <2>3, <2>6, <3>1 DEF Asking
      <4>3. rx'[i] = a /\ a.value = "esp32s3"
        BY <1>1, <2>3, <2>4, <3>1, <4>1, <4>2
      <4>4. inbox[1].op = "regS3" /\ n = 1
        BY <1>12, <2>1, <2>2, <4>3
      <4>5. Len(inbox) = 1
        BY <1>12, <2>1, <2>6, <4>4 DEF Asking
      <4>6. i = Len(rx')
        BY <1>1, <2>3, <2>4, <3>1, <4>1, <4>2, <4>4
      <4> QED
        BY <1>12, <2>1, <4>5, <4>6
    <3> QED
      BY <1>13, <2>1, <2>6, <3>1 DEF Asking
  <2>7. CASE step \notin {"sync", "reg32", "regS3"}
    BY <2>1, <2>7 DEF Asking
  <2> QED
    BY <2>1, <2>5, <2>6, <2>7 DEF FlasherTypeOK, PageTypeOK
<1>15. CASE CommandLost
  <2>1. /\ Asking /\ inbox # <<>> /\ inbox' = Tail(inbox) /\ step' = step /\ sent' = sent
        /\ rx' = rx
    BY <1>15 DEF CommandLost, pageVars
  <2> QED
    BY <1>12, <1>13, <2>1 DEF Asking
<1>16. CASE Unplug
  BY <1>1, <1>16 DEF Unplug, Asking
<1>17. CASE Replug \/ UNCHANGED vars
  BY <1>17 DEF Replug, vars, pageVars, deviceVars, historyVars, Asking
<1> QED
  BY <1>2, <1>3, <1>4, <1>5, <1>10, <1>11, <1>14, <1>15, <1>16, <1>17 DEF Next, Page

LEMMA Ranges ==
    ASSUME FlasherTypeOK
    PROVE  /\ img \in 1 .. Images /\ blk \in 1 .. Blocks /\ img \in Nat /\ blk \in Nat
           /\ Images \in Nat /\ Blocks \in Nat
           /\ \A b \in AllBlocks :
                b[1] \in 1 .. Images /\ b[2] \in 1 .. Blocks /\ b = <<b[1], b[2]>>
           /\ \A b \in AllBlocks : b[1] \in Nat /\ b[2] \in Nat /\ b[2] > 0 /\ b[2] <= Blocks
<1>1. /\ img \in 1 .. Images /\ blk \in 1 .. Blocks /\ img \in Nat /\ blk \in Nat
      /\ Images \in Nat /\ Blocks \in Nat
  BY Sizes DEF FlasherTypeOK, PageTypeOK
<1>2. \A b \in AllBlocks :
         b[1] \in 1 .. Images /\ b[2] \in 1 .. Blocks /\ b = <<b[1], b[2]>>
  BY DEF AllBlocks
<1>3. \A b \in AllBlocks : b[1] \in Nat /\ b[2] \in Nat /\ b[2] > 0 /\ b[2] <= Blocks
  BY <1>1, <1>2
<1> QED
  BY <1>1, <1>2, <1>3

(* How far the flash is written when the installation is at a step.        *)
LEMMA PassedAt ==
    ASSUME FlasherTypeOK, Placed, NEW b \in AllBlocks, NEW l \in {0, 1}
    PROVE  /\ b[1] \in 1 .. Images /\ b[2] \in 1 .. Blocks /\ b = <<b[1], b[2]>>
           /\ step \in {"attach", "fetch"} => ~Passed(b, l)
           /\ step = "begin" => (Passed(b, l) <=> b[1] < img)
           /\ step = "data" => (Passed(b, l) <=> b[1] < img \/ (b[1] = img /\ b[2] <= blk - 1 - l))
           /\ step = "end" => (Passed(b, l) <=> b[1] < img \/ (b[1] = img /\ b[2] <= Blocks - l))
           /\ step = "md5" => (Passed(b, l) <=> b[1] <= img)
<1>1. b[1] \in 1 .. Images /\ b[2] \in 1 .. Blocks /\ b = <<b[1], b[2]>>
  BY DEF AllBlocks
<1>2. img \in Nat /\ blk \in Nat /\ (step \in {"attach", "fetch"} => img = 1)
  BY DEF Placed, FlasherTypeOK, PageTypeOK
<1>3. step \in {"attach", "fetch"} => ~Passed(b, l)
  BY <1>1, <1>2 DEF Passed
<1>4. step = "begin" => (Passed(b, l) <=> b[1] < img)
  BY DEF Passed
<1>5. step = "data" => (Passed(b, l) <=> b[1] < img \/ (b[1] = img /\ b[2] <= blk - 1 - l))
  BY DEF Passed, LastBlock
<1>6. step = "end" => (Passed(b, l) <=> b[1] < img \/ (b[1] = img /\ b[2] <= Blocks - l))
  BY DEF Passed, LastBlock
<1>7. step = "md5" => (Passed(b, l) <=> b[1] <= img)
  BY <1>1, <1>2 DEF Passed
<1> QED
  BY <1>1, <1>3, <1>4, <1>5, <1>6, <1>7

(* The state of the line after the page has taken an answer: nothing is    *)
(* under way, or the answer taken was that of the command before.          *)
Caught == Len(rx') = 0 /\ Len(inbox) = 0 /\ Written(0) /\ OwnDone
Behind ==
    /\ mishaps' = 1 /\ Written(1) /\ BeforeDone
    /\ \/ Len(rx') = 0 /\ Len(inbox) = 1 /\ inbox[1] = Own
       \/ Len(rx') = 1 /\ Len(inbox) = 0 /\ (rx'[1].ok => OwnDone)
Linked == /\ chip = "esp32s3" /\ ~device.framed
          /\ inbox' = inbox /\ flash' = flash /\ device' = device

LEMMA NextBlockKeeps ==
    ASSUME FlasherTypeOK, FlasherTypeOK', Placed, Placed', Linked, step = "data", NextBlock,
           open = TRUE, Caught \/ Behind
    PROVE  Installing'
<1>1. /\ sent' = FALSE /\ chip' = chip /\ img' = img /\ open' = open
      /\ \/ blk < Blocks /\ step' = "data" /\ blk' = blk + 1
         \/ blk = Blocks /\ step' = "end" /\ blk' = blk
      /\ blk \in Nat /\ img \in Nat /\ blk >= 1 /\ blk <= Blocks /\ img \in 1 .. Images
      /\ flash' = flash /\ device' = device /\ inbox' = inbox
      /\ chip = "esp32s3" /\ ~device.framed
  <2>1. blk \in Nat /\ img \in Nat /\ blk >= 1 /\ blk <= Blocks /\ img \in 1 .. Images
    BY Sizes DEF FlasherTypeOK, PageTypeOK
  <2>2. ~(blk < Blocks) => blk = Blocks
    BY <2>1, Sizes
  <2> QED
    BY <2>1, <2>2 DEF NextBlock, Only, GoTo, Linked
<1>2. LastBlock' = blk /\ WriteBefore'
  BY <1>1 DEF LastBlock, WriteBefore
<1>3. ASSUME NEW l \in {0, 1}, Written(l),
             \A b \in AllBlocks : b[1] = img /\ b[2] \in {blk, blk - 1} /\ b[2] <= blk - l =>
                                  flash[b] = "new"
      PROVE  Written(l)'
  <2> SUFFICES ASSUME NEW b \in AllBlocks, Passed(b, l)' PROVE flash[b] = "new"
    BY <1>1 DEF Written
  <2>1. b[1] \in Nat /\ b[2] \in Nat
    BY PassedAt
  <2>2. b[1] < img \/ (b[1] = img /\ b[2] <= blk - l)
    BY <1>1, <1>2 DEF Passed
  <2>3. b[1] < img \/ (b[1] = img /\ b[2] <= blk - 1 - l) => flash[b] = "new"
    BY <1>3, PassedAt DEF Written
  <2>4. b[2] <= blk - l => b[2] <= blk - 1 - l \/ b[2] \in {blk, blk - 1}
    BY <1>1, <2>1
  <2> QED
    BY <1>3, <2>2, <2>3, <2>4
<1>4. \A b \in AllBlocks : b = <<b[1], b[2]>> /\ b[1] \in Nat /\ b[2] \in Nat
  BY PassedAt
<1>5. CASE Caught
  <2>1. flash[<<img, blk>>] = "new"
    BY <1>5 DEF Caught, OwnDone
  <2>2. \A b \in AllBlocks : b[1] = img /\ b[2] = blk - 1 => flash[b] = "new"
    <3> SUFFICES ASSUME NEW b \in AllBlocks, b[1] = img, b[2] = blk - 1
                 PROVE  flash[b] = "new"
      OBVIOUS
    <3>1. Passed(b, 0)
      BY <1>1, PassedAt
    <3> QED
      BY <1>5, <3>1 DEF Caught, Written
  <2>3. \A b \in AllBlocks : b[1] = img /\ b[2] = blk => flash[b] = "new"
    BY <1>4, <2>1
  <2>4. Written(0)'
    BY <1>3, <1>5, <2>2, <2>3 DEF Caught
  <2>5. InStep'
    BY <1>1, <1>5 DEF Caught, InStep
  <2> QED
    BY <1>1, <2>4, <2>5 DEF Installing, Flashing
<1>6. CASE Behind
  <2>1. \A b \in AllBlocks : b[1] = img /\ b[2] = blk - 1 => flash[b] = "new"
    <3>1. blk > 1 => flash[<<img, blk - 1>>] = "new"
      BY <1>6 DEF Behind, BeforeDone, WriteBefore, LastBlock
    <3>2. \A b \in AllBlocks : b[2] = blk - 1 => blk > 1
      BY <1>1 DEF AllBlocks
    <3> QED
      BY <1>4, <3>1, <3>2
  <2>2. \A b \in AllBlocks : b[1] = img /\ b[2] \in {blk, blk - 1} /\ b[2] <= blk - 1 =>
                             flash[b] = "new"
    BY <1>1, <1>4, <2>1
  <2>3. Written(1)'
    BY <1>3, <1>6, <2>2 DEF Behind
  <2>4. Own.op = "data" /\ Own.img = img /\ Own.blk = blk
    BY DEF Own
  <2>5. inbox[1] = Own => Before(inbox[1])'
    BY <1>1, <1>2, <2>4 DEF Before
  <2>6. OwnDone => BeforeDone'
    BY <1>1, <1>2 DEF BeforeDone, OwnDone
  <2>7. Lagging'
    BY <1>1, <1>6, <2>5, <2>6 DEF Behind, Lagging, Flashing
  <2> QED
    BY <1>1, <2>3, <2>7 DEF Installing, Flashing
<1> QED
  BY <1>5, <1>6

LEMMA NextImageKeeps ==
    ASSUME FlasherTypeOK, FlasherTypeOK', Placed, Placed', Linked, step = "md5", NextImage,
           Written(0),
           open = TRUE =>
              \/ Len(rx') = 0 /\ Len(inbox) = 0
              \/ /\ mishaps' = 1
                 /\ \/ Len(rx') = 0 /\ Len(inbox) = 1 /\ inbox[1].op = "md5"
                    \/ Len(rx') = 1 /\ Len(inbox) = 0,
           open = FALSE => Len(inbox) = 0
    PROVE  Installing'
<1>1. /\ open \in BOOLEAN /\ img \in 1 .. Images /\ img \in Nat /\ Images \in Nat
      /\ \A b \in AllBlocks : b[1] \in 1 .. Images /\ b[1] \in Nat
      /\ \A b \in AllBlocks : b[1] <= img => flash[b] = "new"
  <2>1. open \in BOOLEAN /\ img \in 1 .. Images /\ img \in Nat /\ Images \in Nat
    BY Sizes DEF FlasherTypeOK, PageTypeOK
  <2>2. ASSUME NEW b \in AllBlocks
        PROVE  b[1] \in 1 .. Images /\ b[1] \in Nat /\ (b[1] <= img => flash[b] = "new")
    BY <2>1, PassedAt DEF Written
  <2> QED
    BY <2>1, <2>2
<1>2. \A i \in 1 .. Len(inbox) : inbox[i].op \notin {"begin", "data"}
  <2>1. Len(inbox) = 0 \/ (Len(inbox) = 1 /\ inbox[1].op = "md5")
    BY <1>1
  <2>2. Len(inbox) = 1 => \A i \in 1 .. Len(inbox) : i = 1
    OBVIOUS
  <2>3. Len(inbox) = 0 => \A i \in 1 .. Len(inbox) : FALSE
    OBVIOUS
  <2> QED
    BY <2>1, <2>2, <2>3
<1>3. CASE img < Images
  <2>1. /\ step' = "begin" /\ sent' = FALSE /\ img' = img + 1 /\ chip' = chip /\ open' = open
        /\ inbox' = inbox /\ flash' = flash /\ device' = device
        /\ chip = "esp32s3" /\ ~device.framed
    BY <1>3 DEF NextImage, GoTo, Linked
  <2>2. ASSUME NEW b \in AllBlocks, NEW l \in {0, 1}, Passed(b, l)' PROVE b[1] <= img
    BY <1>1, <2>1, <2>2 DEF Passed
  <2>3. Written(0)' /\ Written(1)'
    BY <1>1, <2>1, <2>2 DEF Written
  <2>4. \A c : c.op = "md5" => Before(c)'
    BY <2>1 DEF Before, WriteBefore
  <2>5. BeforeDone'
    BY <2>1 DEF BeforeDone, WriteBefore
  <2>6. Len(rx') = 0 /\ Len(inbox) = 0 => InStep'
    BY <2>1 DEF InStep
  <2>7. mishaps' = 1 /\ ~(Len(rx') = 0 /\ Len(inbox) = 0) /\ open = TRUE => Lagging'
    BY <2>1, <2>4, <2>5 DEF Lagging, Flashing
  <2>8. open = TRUE => (InStep' /\ Written(0)') \/ (Lagging' /\ Written(1)')
    BY <2>3, <2>6, <2>7
  <2> QED
    BY <1>1, <2>1, <2>8 DEF Installing, Flashing
<1>4. CASE ~(img < Images)
  <2>1. step' = "reset" /\ inbox' = inbox /\ flash' = flash
    BY <1>4 DEF NextImage, Only, GoTo, Linked
  <2>2. \A b \in AllBlocks : flash[b] = "new"
    BY <1>1, <1>4
  <2> QED
    BY <1>2, <2>1, <2>2 DEF Installing, Flashing
<1> QED
  BY <1>3, <1>4

(* FLASH_BEGIN and FLASH_END answered.                                     *)
LEMMA BeginKeeps ==
    ASSUME FlasherTypeOK, FlasherTypeOK', Placed, Placed', Linked, step = "begin",
           Only("data"), open = TRUE, Caught \/ Behind
    PROVE  Installing'
<1>1. /\ step' = "data" /\ sent' = FALSE /\ img' = img /\ blk' = blk /\ blk = 1
      /\ chip' = chip /\ open' = open
      /\ inbox' = inbox /\ flash' = flash /\ device' = device
      /\ chip = "esp32s3" /\ ~device.framed
  BY DEF Only, GoTo, Linked, Placed
<1>2. ASSUME NEW l \in {0, 1}, Written(l) PROVE Written(l)'
  <2> SUFFICES ASSUME NEW b \in AllBlocks, Passed(b, l)' PROVE Passed(b, l)
    BY <1>1, <1>2 DEF Written
  <2>1. b[1] \in Nat /\ b[2] \in 1 .. Blocks /\ img \in Nat
    BY Ranges
  <2>2. b[1] < img \/ (b[1] = img /\ b[2] <= 0 - l)
    BY <1>1, <2>1 DEF Passed, LastBlock
  <2>3. b[1] < img
    BY <2>1, <2>2
  <2> QED
    BY <2>3 DEF Passed
<1>3. CASE Caught
  BY <1>1, <1>2, <1>3 DEF Caught, InStep, Installing, Flashing
<1>4. CASE Behind
  <2>1. ~WriteBefore'
    BY <1>1 DEF WriteBefore
  <2>2. inbox[1] = Own => Before(inbox[1])'
    BY <1>1, <2>1 DEF Before, Own
  <2>3. Lagging'
    BY <1>1, <1>4, <2>1, <2>2 DEF Behind, Lagging, Flashing, BeforeDone
  <2> QED
    BY <1>1, <1>2, <1>4, <2>3 DEF Behind, Installing, Flashing
<1> QED
  BY <1>3, <1>4

LEMMA EndKeeps ==
    ASSUME FlasherTypeOK, FlasherTypeOK', Placed, Placed', Linked, step = "end",
           Only("md5"), open = TRUE, Caught \/ Behind
    PROVE  Installing'
<1>1. /\ step' = "md5" /\ sent' = FALSE /\ img' = img /\ blk' = blk
      /\ chip' = chip /\ open' = open
      /\ inbox' = inbox /\ flash' = flash /\ device' = device
      /\ chip = "esp32s3" /\ ~device.framed
  BY DEF Only, GoTo, Linked
<1>2. ASSUME NEW b \in AllBlocks, b[1] <= img PROVE flash[b] = "new"
  <2>1. /\ b[1] \in Nat /\ b[2] \in Nat /\ b[2] <= Blocks /\ img \in Nat /\ Blocks \in Nat
        /\ b = <<b[1], b[2]>>
    BY Ranges
  <2>2. Caught => flash[b] = "new"
    BY <1>2, <2>1, PassedAt DEF Caught, Written
  <2>3. Behind /\ ~(b[1] = img /\ b[2] = Blocks) => flash[b] = "new"
    <3>1. ~(b[1] = img /\ b[2] = Blocks) => Passed(b, 1)
      BY <1>2, <2>1, PassedAt
    <3> QED
      BY <3>1 DEF Behind, Written
  <2>4. Behind /\ b[1] = img /\ b[2] = Blocks => flash[b] = "new"
    <3>1. Behind => flash[<<img, Blocks>>] = "new"
      BY DEF Behind, BeforeDone, WriteBefore, LastBlock
    <3> QED
      BY <2>1, <3>1
  <2> QED
    BY <2>2, <2>3, <2>4
<1>3. Written(0)' /\ Written(1)'
  <2>1. \A b \in AllBlocks, l \in {0, 1} : Passed(b, l)' => b[1] <= img
    BY <1>1, Ranges DEF Passed
  <2> QED
    BY <1>1, <1>2, <2>1 DEF Written
<1>4. CASE Caught
  BY <1>1, <1>3, <1>4 DEF Caught, InStep, Installing, Flashing
<1>5. CASE Behind
  <2>1. ~WriteBefore'
    BY <1>1 DEF WriteBefore
  <2>2. inbox[1] = Own => Before(inbox[1])'
    BY <1>1, <2>1 DEF Before, Own
  <2>3. Lagging'
    BY <1>1, <1>5, <2>1, <2>2 DEF Behind, Lagging, Flashing, BeforeDone
  <2> QED
    BY <1>1, <1>3, <2>3 DEF Installing, Flashing
<1> QED
  BY <1>4, <1>5

(* The ways out of the detection and out of an installation that fails.    *)
LEMMA Elsewhere ==
    ASSUME step' \notin {"fetch", "reset", "complete"} \cup Flashing,
           step' = "attach" => chip' # "esp32s3"
    PROVE  Installing'
  BY DEF Installing

LEMMA HaltKeeps == Halt => Installing'
  BY Elsewhere DEF Halt, GoTo, Flashing

LEMMA DetectKeeps ==
    ASSUME TryAgain \/ Detected("other") \/ Only("reg32") \/ Only("regS3")
    PROVE  Installing'
  BY Elsewhere, HaltKeeps DEF TryAgain, Detected, Only, GoTo, Flashing

(* An answer of the read that identifies the chip leaves nothing behind.   *)
LEMMA TargetKeeps ==
    ASSUME FlasherTypeOK, FlasherTypeOK', Placed, Placed', Detected("esp32s3"),
           Len(rx') = 0, Len(inbox') = 0
    PROVE  Installing'
<1>1. step' = "attach" /\ sent' = FALSE
  BY DEF Detected, GoTo
<1>2. Written(0)'
  <2> SUFFICES ASSUME NEW b \in AllBlocks PROVE ~Passed(b, 0)'
    BY DEF Written
  <2>1. img' = 1 /\ b[1] \in Nat /\ b[1] > 0
    BY <1>1, Ranges DEF Placed
  <2> QED
    BY <1>1, <2>1 DEF Passed
<1>3. InStep'
  BY <1>1 DEF InStep
<1> QED
  BY <1>1, <1>2, <1>3 DEF Installing, Flashing

LEMMA ReadKeeps ==
    ASSUME FlasherTypeOK, FlasherTypeOK', Placed, Placed', Asking, Installing, Read
    PROVE  Installing'
<1>1. /\ sent = TRUE /\ open = TRUE /\ step \in Commands /\ rx # <<>>
      /\ IF Head(rx).ok THEN Taken(Head(rx)) ELSE Thrown
      /\ rx' = Tail(rx) /\ inbox' = inbox /\ flash' = flash /\ device' = device
      /\ mishaps' = mishaps
  BY DEF Read, deviceVars, historyVars, FlasherTypeOK, PageTypeOK
<1>2. /\ Len(rx) \in Nat /\ Len(rx) > 0 /\ Head(rx) = rx[1] /\ Len(rx') = Len(rx) - 1
      /\ Len(rx) = 2 => rx'[1] = rx[2]
      /\ Len(inbox) \in Nat
  <2>1. rx \in Seq(Answer) /\ inbox \in Seq(Command)
    BY DEF FlasherTypeOK, LinkTypeOK
  <2>2. /\ Len(rx) \in Nat /\ Len(rx) > 0 /\ Head(rx) = rx[1] /\ Len(rx') = Len(rx) - 1
        /\ \A i \in 1 .. Len(rx') : rx'[i] = rx[i + 1]
    BY <1>1, <2>1, HeadTail
  <2>3. Len(rx) = 2 => rx'[1] = rx[2]
    BY <2>2
  <2> QED
    BY <2>1, <2>2, <2>3, LenProperties
<1>3. CASE step \in {"sync", "reg32"}
  BY <1>1, <1>3, DetectKeeps, HaltKeeps DEF Taken, Thrown
<1>4. CASE step = "regS3"
  <2>1. Detected("other") \/ (Head(rx).value = "esp32s3" /\ Detected("esp32s3"))
    BY <1>1, <1>4 DEF Taken, Thrown
  <2>2. Head(rx).value = "esp32s3" => Len(rx') = 0 /\ Len(inbox') = 0
    <3>1. 1 \in 1 .. Len(rx)
      BY <1>2
    <3>2. Head(rx).value = "esp32s3" => 1 = Len(rx) /\ Len(inbox) = 0
      BY <1>1, <1>2, <1>4, <3>1 DEF Asking
    <3> QED
      BY <1>1, <1>2, <3>2
  <2> QED
    BY <2>1, <2>2, DetectKeeps, TargetKeeps
<1>5. CASE step = "attach"
  <2>1. Halt \/ (Head(rx).ok /\ chip = "esp32s3" /\ Only("fetch"))
    BY <1>1, <1>5 DEF Taken, Thrown, Supported
  <2>2. ASSUME rx[1].ok, chip = "esp32s3", Only("fetch") PROVE Installing'
    <3>1. InStep
      BY <1>1, <1>5, <2>2 DEF Installing, Lagging, Flashing
    <3>2. Len(rx) = 1 /\ Len(inbox) = 0 /\ ~device.framed
      BY <1>1, <1>2, <2>2, <3>1 DEF InStep
    <3>3. /\ step' = "fetch" /\ sent' = FALSE /\ chip' = chip /\ open' = open
      BY <2>2 DEF Only, GoTo
    <3>4. Written(0)'
      <4> SUFFICES ASSUME NEW b \in AllBlocks PROVE ~Passed(b, 0)'
        BY DEF Written
      <4>1. img' = 1 /\ b[1] \in Nat /\ b[1] > 0
        BY <3>3, Ranges DEF Placed
      <4> QED
        BY <3>3, <4>1 DEF Passed
    <3>5. InStep'
      BY <1>1, <1>2, <3>2, <3>3 DEF InStep
    <3> QED
      BY <1>1, <2>2, <3>2, <3>3, <3>4, <3>5 DEF Installing, Flashing
  <2> QED
    BY <1>2, <2>1, <2>2, HaltKeeps
<1>6. ASSUME step \in Flashing
      PROVE  /\ Linked
             /\ \/ Len(rx') = 0 /\ Len(inbox) = 0 /\ Written(0) /\ (rx[1].ok => OwnDone)
                \/ /\ mishaps' = 1 /\ Written(1) /\ (rx[1].ok => BeforeDone)
                   /\ \/ Len(rx') = 0 /\ Len(inbox) = 1 /\ inbox[1] = Own
                      \/ Len(rx') = 1 /\ Len(inbox) = 0 /\ (rx'[1].ok => OwnDone)
  <2>1. Linked /\ ((InStep /\ Written(0)) \/ (Lagging /\ Written(1)))
    BY <1>1, <1>6 DEF Installing, Linked
  <2>2. step # "attach"
    BY <1>6 DEF Flashing
  <2>3. CASE InStep /\ Written(0)
    BY <1>1, <1>2, <2>1, <2>2, <2>3 DEF InStep
  <2>4. CASE Lagging /\ Written(1)
    BY <1>1, <1>2, <2>1, <2>4 DEF Lagging
  <2> QED
    BY <2>1, <2>3, <2>4
<1>7. rx[1].ok /\ step \in Flashing => Caught \/ Behind
  BY <1>6 DEF Caught, Behind
<1>8. CASE step = "begin"
  <2>1. (rx[1].ok /\ Only("data")) \/ Halt
    BY <1>1, <1>2, <1>8 DEF Taken, Thrown
  <2> QED
    BY <1>1, <1>6, <1>7, <1>8, <2>1, BeginKeeps, HaltKeeps DEF Flashing
<1>9. CASE step = "data"
  <2>1. (rx[1].ok /\ NextBlock) \/ Halt
    BY <1>1, <1>2, <1>9 DEF Taken, Thrown
  <2> QED
    BY <1>1, <1>6, <1>7, <1>9, <2>1, NextBlockKeeps, HaltKeeps DEF Flashing
<1>10. CASE step = "end"
  <2>1. (rx[1].ok /\ Only("md5")) \/ Halt
    BY <1>1, <1>2, <1>10 DEF Taken, Thrown
  <2> QED
    BY <1>1, <1>6, <1>7, <1>10, <2>1, EndKeeps, HaltKeeps DEF Flashing
<1>11. CASE step = "md5"
  <2>1. NextImage
    BY <1>1, <1>11 DEF Taken, Thrown
  <2>2. Written(1) => Written(0)
    BY <1>11 DEF Written, Passed
  <2>3. Linked /\ Written(0)
    BY <1>6, <1>11, <2>2 DEF Flashing
  <2>4. Own.op = "md5"
    BY <1>11 DEF Own
  <2>5. \/ Len(rx') = 0 /\ Len(inbox) = 0
        \/ /\ mishaps' = 1
           /\ \/ Len(rx') = 0 /\ Len(inbox) = 1 /\ inbox[1].op = "md5"
              \/ Len(rx') = 1 /\ Len(inbox) = 0
    BY <1>6, <1>11, <2>4 DEF Flashing
  <2> QED
    BY <1>1, <1>11, <2>1, <2>3, <2>5, NextImageKeeps
<1> QED
  BY <1>1, <1>3, <1>4, <1>5, <1>8, <1>9, <1>10, <1>11 DEF Commands

LEMMA TimesOutKeeps ==
    ASSUME MaxMishaps >= 2, FlasherTypeOK, FlasherTypeOK', Placed, Placed', Installing,
           TimesOut, mishaps' < 2
    PROVE  Installing'
<1>1. /\ sent = TRUE /\ open = TRUE /\ step \in Commands /\ Len(rx) = 0
      /\ Thrown
      /\ rx' = rx /\ inbox' = inbox /\ flash' = flash /\ device' = device
  BY EmptySeq DEF TimesOut, deviceVars, FlasherTypeOK, PageTypeOK
<1>2. CASE step \in {"sync", "reg32", "regS3"}
  BY <1>1, <1>2, DetectKeeps, HaltKeeps DEF Thrown
<1>3. CASE step \in {"attach", "begin", "data", "end"}
  BY <1>1, <1>3, HaltKeeps DEF Thrown
<1>4. CASE step = "md5"
  <2>1. NextImage
    BY <1>1, <1>4 DEF Thrown
  <2>2. mishaps' = 1 /\ mishaps = 0
    <3>1. mishaps' = IF mishaps < MaxMishaps THEN mishaps + 1 ELSE mishaps
      BY <1>4 DEF TimesOut
    <3>2. mishaps \in Nat /\ MaxMishaps \in Nat
      BY FlasherAssumption DEF FlasherTypeOK, LinkTypeOK
    <3> QED
      BY <3>1, <3>2
  <2>3. Linked /\ InStep /\ Written(0)
    BY <1>1, <1>4, <2>2 DEF Installing, Linked, Flashing, Lagging
  <2>4. Len(inbox) = 1 /\ inbox[1] = Own /\ Own.op = "md5"
    BY <1>1, <1>4, <2>2, <2>3 DEF InStep, Own
  <2> QED
    BY <1>1, <1>4, <2>1, <2>2, <2>3, <2>4, NextImageKeeps
<1> QED
  BY <1>1, <1>2, <1>3, <1>4 DEF Commands

LEMMA PortGoneKeeps ==
    ASSUME FlasherTypeOK, FlasherTypeOK', Placed, Placed', Installing, PortGone
    PROVE  Installing'
<1>1. /\ open = FALSE /\ step \in Commands /\ Thrown
      /\ rx' = rx /\ inbox' = inbox /\ flash' = flash /\ device' = device
  BY DEF PortGone, deviceVars, FlasherTypeOK, PageTypeOK
<1>2. CASE step \in {"sync", "reg32", "regS3"}
  BY <1>1, <1>2, DetectKeeps, HaltKeeps DEF Thrown
<1>3. CASE step \in {"attach", "begin", "data", "end"}
  BY <1>1, <1>3, HaltKeeps DEF Thrown
<1>4. CASE step = "md5"
  <2>1. NextImage
    BY <1>1, <1>4 DEF Thrown
  <2>2. Linked /\ Len(inbox) = 0 /\ Written(0)
    BY <1>1, <1>4 DEF Installing, Linked, Flashing
  <2> QED
    BY <1>1, <1>4, <2>1, <2>2, NextImageKeeps
<1> QED
  BY <1>1, <1>2, <1>3, <1>4 DEF Commands

LEMMA FetchKeeps ==
    ASSUME FlasherTypeOK, FlasherTypeOK', Placed, Placed', Installing, Fetch
    PROVE  Installing'
<1>1. /\ step = "fetch" /\ (Halt \/ Only("begin"))
      /\ rx' = rx /\ inbox' = inbox /\ flash' = flash /\ device' = device
  BY DEF Fetch, deviceVars
<1>2. CASE Only("begin")
  <2>1. /\ step' = "begin" /\ sent' = FALSE /\ img' = img /\ chip' = chip /\ open' = open
    BY <1>2 DEF Only, GoTo
  <2>2. /\ chip = "esp32s3" /\ ~device.framed /\ sent = FALSE
        /\ open = TRUE => InStep
        /\ open = FALSE => Len(inbox) = 0
    BY <1>1 DEF Installing, Lagging, Flashing
  <2>3. Written(0)'
    <3> SUFFICES ASSUME NEW b \in AllBlocks PROVE ~Passed(b, 0)'
      BY DEF Written
    <3>1. img' = 1 /\ b[1] \in Nat /\ b[1] > 0
      BY <1>1, <2>1, Ranges DEF Placed
    <3> QED
      BY <2>1, <3>1 DEF Passed
  <2>4. InStep => InStep'
    BY <1>1, <2>1, <2>2 DEF InStep
  <2> QED
    BY <1>1, <2>1, <2>2, <2>3, <2>4 DEF Installing, Flashing
<1> QED
  BY <1>1, <1>2, HaltKeeps

LEMMA SendKeeps ==
    ASSUME FlasherTypeOK, Installing, Send
    PROVE  Installing'
<1>1. /\ step \in Commands /\ sent = FALSE /\ open = TRUE
      /\ inbox' = Append(inbox, Own) /\ sent' = TRUE
      /\ step' = step /\ chip' = chip /\ img' = img /\ blk' = blk /\ open' = open
      /\ rx' = rx /\ flash' = flash /\ device' = device /\ mishaps' = mishaps
  BY DEF Send, Own, historyVars, FlasherTypeOK, PageTypeOK
<1>2. Own \in Command
  BY <1>1 DEF Own, Command, FlasherTypeOK, PageTypeOK
<1>3. /\ Len(inbox) \in Nat /\ Len(inbox') = Len(inbox) + 1
      /\ inbox'[Len(inbox) + 1] = Own
      /\ Len(inbox) = 1 => inbox'[1] = inbox[1]
  BY <1>1, <1>2, AppendProperties, LenProperties DEF FlasherTypeOK, LinkTypeOK
<1>4. Own' = Own /\ (OwnDone' <=> OwnDone) /\ (BeforeDone' <=> BeforeDone)
      /\ LastBlock' = LastBlock /\ (WriteBefore' <=> WriteBefore)
  BY <1>1 DEF Own, OwnDone, BeforeDone, LastBlock, WriteBefore
<1>5. Before(inbox[1])' <=> Before(inbox'[1])
  BY <1>1 DEF Before, WriteBefore, LastBlock
<1>6. \A l : Written(l)' <=> Written(l)
  BY <1>1 DEF Written, Passed, LastBlock
<1>7. InStep => InStep'
  BY <1>1, <1>3, <1>4 DEF InStep
<1>8. Lagging => Lagging'
  <2>1. inbox'[1] = inbox[1] => (Before(inbox[1])' <=> Before(inbox[1]))
    BY <1>1, <1>4 DEF Before
  <2> QED
    BY <1>1, <1>3, <1>4, <2>1 DEF Lagging
<1>9. step \notin {"fetch", "reset", "complete"}
  BY <1>1 DEF Commands
<1> QED
  BY <1>1, <1>6, <1>7, <1>8, <1>9 DEF Installing

LEMMA TailInbox ==
    ASSUME FlasherTypeOK, inbox # <<>>, inbox' = Tail(inbox)
    PROVE  /\ Len(inbox) \in Nat /\ Len(inbox) > 0 /\ Len(inbox') = Len(inbox) - 1
           /\ Head(inbox) = inbox[1] /\ inbox[1] \in Command
           /\ Len(inbox) = 2 => inbox'[1] = inbox[2]
           /\ \A i \in 1 .. Len(inbox') : i + 1 \in 1 .. Len(inbox) /\ inbox'[i] = inbox[i + 1]
<1>1. inbox \in Seq(Command)
  BY DEF FlasherTypeOK, LinkTypeOK
<1>2. /\ Len(inbox) \in Nat /\ Len(inbox) > 0 /\ Len(inbox') = Len(inbox) - 1
      /\ Head(inbox) = inbox[1] /\ inbox[1] \in Command
      /\ \A i \in 1 .. Len(inbox') : i + 1 \in 1 .. Len(inbox) /\ inbox'[i] = inbox[i + 1]
  BY <1>1, HeadTail
<1> QED
  BY <1>2

LEMMA CommandLostKeeps ==
    ASSUME FlasherTypeOK, Installing, CommandLost, mishaps' < 2
    PROVE  Installing'
<1>1. /\ inbox # <<>> /\ inbox' = Tail(inbox) /\ mishaps' = mishaps + 1
      /\ step' = step /\ sent' = sent /\ chip' = chip /\ img' = img /\ blk' = blk
      /\ open' = open /\ rx' = rx /\ flash' = flash /\ device' = device
  BY DEF CommandLost, pageVars
<1>2. mishaps' = 1 /\ mishaps = 0
  BY <1>1 DEF FlasherTypeOK, LinkTypeOK
<1>3. \A l : Written(l)' <=> Written(l)
  BY <1>1 DEF Written, Passed, LastBlock
<1>4. InStep => InStep' /\ sent' = TRUE
  BY <1>1, <1>2, TailInbox DEF InStep
<1>5. ~Lagging
  BY <1>2 DEF Lagging
<1>6. open \in BOOLEAN
  BY DEF FlasherTypeOK, PageTypeOK
<1>7. step \in {"reset", "complete"} =>
        \A i \in 1 .. Len(inbox') : inbox'[i].op \notin {"begin", "data"}
  BY <1>1, TailInbox DEF Installing
<1>8. Len(inbox) # 0
  BY <1>1, TailInbox
<1> QED
  BY <1>1, <1>3, <1>4, <1>5, <1>6, <1>7, <1>8 DEF Installing

LEMMA UnplugKeeps ==
    ASSUME FlasherTypeOK, Installing, Unplug
    PROVE  Installing'
<1>1. /\ Len(inbox') = 0 /\ open' = FALSE
      /\ step' = step /\ sent' = sent /\ chip' = chip /\ img' = img /\ blk' = blk
      /\ flash' = flash /\ device' = device
      /\ \A i : i \notin 1 .. 0
  BY EmptySeq DEF Unplug
<1>2. \A l : Written(l)' <=> Written(l)
  BY <1>1 DEF Written, Passed, LastBlock
<1>3. step = "md5" /\ Written(1) => Written(0)
  BY DEF Written, Passed
<1>4. open \in BOOLEAN
  BY DEF FlasherTypeOK, PageTypeOK
<1> QED
  BY <1>1, <1>2, <1>3, <1>4 DEF Installing, Flashing

LEMMA HardResetKeeps ==
    ASSUME FlasherTypeOK, Installing, HardReset
    PROVE  Installing'
<1>1. /\ step = "reset" /\ step' = "complete" /\ flash' = flash
      /\ Len(inbox') = 0 \/ inbox' = inbox
      /\ \A i : i \notin 1 .. 0
  BY EmptySeq DEF HardReset, Reset, GoTo
<1> QED
  BY <1>1 DEF Installing, Flashing

(* What the device does with a command.                                    *)
LEMMA AnswersKeep ==
    ASSUME FlasherTypeOK, Placed, Installing, DeviceAnswers
    PROVE  Installing'
<1> DEFINE c == inbox[1]
<1>1. /\ inbox # <<>> /\ inbox' = Tail(inbox)
      /\ step' = step /\ sent' = sent /\ chip' = chip /\ img' = img /\ blk' = blk
      /\ open' = open /\ device' = device /\ mishaps' = mishaps
  BY DEF DeviceAnswers, pageVars
<1>2. /\ Len(inbox) \in Nat /\ Len(inbox) > 0 /\ Len(inbox') = Len(inbox) - 1
      /\ Head(inbox) = c /\ c \in Command
      /\ Len(inbox) = 2 => inbox'[1] = inbox[2]
      /\ \A i \in 1 .. Len(inbox') : i + 1 \in 1 .. Len(inbox) /\ inbox'[i] = inbox[i + 1]
  BY <1>1, TailInbox
<1> HIDE DEF c
<1>3. PICK a \in Answer, n \in Nat :
        /\ a.op = c.op
        /\ n = 1 \/ a.op = "sync"
        /\ IF a.ok THEN Performed(c) ELSE UNCHANGED <<base, flash>>
        /\ rx' = IF open THEN rx \o Frames(a, n) ELSE rx
  BY <1>2, AnswerIs
<1>4. /\ \A b \in AllBlocks :
           flash[b] = "new" /\ ~(c.op = "begin" /\ b[1] = c.img) => flash'[b] = "new"
      /\ a.ok /\ c.op = "data" => flash'[<<c.img, c.blk>>] = "new"
  <2>1. flash \in [AllBlocks -> {"old", "erased", "new"}] /\ <<c.img, c.blk>> \in AllBlocks
    BY <1>2 DEF FlasherTypeOK, LinkTypeOK, AllBlocks, Command
  <2>2. CASE ~a.ok
    BY <1>3, <2>2
  <2>3. CASE a.ok /\ c.op = "begin"
    BY <1>3, <2>1, <2>3 DEF Performed
  <2>4. CASE a.ok /\ c.op = "data"
    BY <1>3, <2>1, <2>4 DEF Performed
  <2>5. CASE a.ok /\ c.op \notin {"begin", "data"}
    BY <1>3, <2>5 DEF Performed
  <2> QED
    BY <2>2, <2>3, <2>4, <2>5
<1>5. CASE step \in {"reset", "complete"}
  <2>1. /\ \A b \in AllBlocks : flash[b] = "new"
        /\ \A i \in 1 .. Len(inbox) : inbox[i].op \notin {"begin", "data"}
    BY <1>5 DEF Installing
  <2>2. c.op # "begin"
    <3>1. 1 \in 1 .. Len(inbox)
      BY <1>2
    <3> QED
      BY <2>1, <3>1 DEF c
  <2>3. \A i \in 1 .. Len(inbox') : inbox'[i].op \notin {"begin", "data"}
    BY <1>2, <2>1
  <2> QED
    BY <1>1, <1>4, <1>5, <2>1, <2>2, <2>3 DEF Installing, Flashing
<1>6. CASE step \in {"attach", "fetch"} \cup Flashing /\ chip = "esp32s3"
  <2>1. open = TRUE /\ ((InStep /\ Written(0)) \/ (Lagging /\ Written(1)))
        /\ (step \in Flashing => ~device.framed) /\ (step = "fetch" => sent = FALSE)
    BY <1>2, <1>6 DEF Installing, FlasherTypeOK, PageTypeOK
  <2>2. /\ Len(rx) \in Nat
        /\ rx' = rx \o Frames(a, n)
        /\ Len(rx') = Len(rx) + Len(Frames(a, n))
        /\ \A i \in 1 .. Len(rx) : rx'[i] = rx[i]
        /\ \A i \in 1 .. Len(Frames(a, n)) : rx'[Len(rx) + i] = Frames(a, n)[i]
    BY <1>3, <2>1, Buffer, LenProperties DEF FlasherTypeOK, LinkTypeOK
  <2>3. n = 1 => /\ device.framed => Len(Frames(a, n)) = 2 /\ Frames(a, n)[1] = Short
                 /\ ~device.framed => Len(Frames(a, n)) = 1 /\ Frames(a, n)[1] = a
    <3>1. device \in Devices
      BY DEF FlasherTypeOK, LinkTypeOK
    <3>2. Len(Frames(a, n)) = IF device.framed THEN 2 * n ELSE n
      BY <3>1, FramesAre
    <3>3. n = 1 => /\ Frames(a, n)[Len(Frames(a, n))] = a
                   /\ device.framed => Frames(a, n)[1] = Short
      BY <3>1, FramesAre
    <3> QED
      BY <3>2, <3>3
  <2>4. step = "begin" => blk = 1
    BY DEF Placed
  <2>5. CASE InStep /\ Written(0)
    <3>1. Len(rx) = 0 /\ Len(inbox) = 1 /\ c = Own /\ sent = TRUE /\ step # "fetch"
      BY <1>2, <2>1, <2>5 DEF InStep, c
    <3>2. /\ c.op = step /\ c.img = img /\ c.blk = blk /\ n = 1
      BY <1>3, <1>6, <3>1 DEF Own, Flashing
    <3>3. Len(inbox') = 0
      BY <1>2, <3>1
    <3>4. a.ok => OwnDone'
      BY <1>1, <1>4, <3>2 DEF OwnDone
    <3>5. CASE device.framed
      <4>1. Len(rx') = 2 /\ rx'[1] = Short /\ step = "attach"
        <5>1. 1 \in 1 .. Len(Frames(a, n)) /\ Len(rx) + 1 = 1
          BY <2>3, <3>1, <3>2, <3>5
        <5> QED
          BY <1>6, <2>1, <2>2, <2>3, <3>1, <3>2, <3>5, <5>1
      <4> QED
        <5>1. InStep'
          BY <1>1, <3>1, <3>3, <4>1 DEF InStep, Short
        <5>2. Written(0)'
          <6>1. \A b \in AllBlocks : Passed(b, 0)' <=> Passed(b, 0)
            BY <1>1 DEF Passed, LastBlock
          <6> QED
            BY <4>1, <6>1, PassedAt DEF Written
        <5> QED
          BY <1>1, <2>1, <4>1, <5>1, <5>2 DEF Installing, Flashing
    <3>6. CASE ~device.framed
      <4>1. Len(rx') = 1 /\ rx'[1] = a
        <5>1. 1 \in 1 .. Len(Frames(a, n)) /\ Len(rx) + 1 = 1
          BY <2>3, <3>1, <3>2, <3>6
        <5> QED
          BY <2>2, <2>3, <3>1, <3>2, <3>6, <5>1
      <4>2. InStep'
        BY <1>1, <1>3, <3>1, <3>2, <3>3, <3>4, <3>6, <4>1 DEF InStep
      <4>3. Written(0)'
        <5> SUFFICES ASSUME NEW b \in AllBlocks, Passed(b, 0)' PROVE flash'[b] = "new"
          BY DEF Written
        <5>1. Passed(b, 0) /\ flash[b] = "new"
          BY <1>1, <2>5 DEF Passed, LastBlock, Written
        <5>2. step = "begin" => b[1] # img
          BY <5>1, PassedAt, Ranges
        <5> QED
          BY <1>4, <3>2, <5>1, <5>2
      <4> QED
        BY <1>1, <1>6, <2>1, <4>2, <4>3 DEF Installing, Flashing
    <3> QED
      BY <3>5, <3>6
  <2>6. CASE Lagging /\ Written(1)
    <3>1. ~device.framed /\ step \in Flashing /\ mishaps = 1
      BY <2>1, <2>6 DEF Lagging
    <3>2. \/ sent = FALSE /\ Len(rx) = 0 /\ Len(inbox) = 1 /\ Before(c)
          \/ sent = TRUE /\ Len(rx) = 0 /\ Len(inbox) = 2 /\ Before(c) /\ inbox[2] = Own
          \/ /\ sent = TRUE /\ Len(rx) = 1 /\ Len(inbox) = 1
             /\ (rx[1].ok => BeforeDone) /\ c = Own
      BY <1>2, <2>6 DEF Lagging, c
    <3>3. /\ Before(c) => c.op \in {"data", "md5", "begin", "end"}
          /\ Before(c) /\ c.op = "data" => WriteBefore /\ c.img = img /\ c.blk = LastBlock
          /\ Before(c) /\ c.op = "begin" => ~WriteBefore /\ step = "data" /\ c.img = img
          /\ Before(c) /\ WriteBefore => c.op = "data"
      BY DEF Before
    <3>4. c = Own => c.op = step /\ c.img = img /\ c.blk = blk
      BY DEF Own
    <3>5. n = 1 /\ Len(Frames(a, n)) = 1 /\ Frames(a, n)[1] = a
      BY <1>3, <2>3, <3>1, <3>2, <3>3, <3>4 DEF Flashing
    <3>6. /\ Len(rx') = Len(rx) + 1 /\ rx'[Len(rx) + 1] = a
          /\ Len(rx) = 1 => rx'[1] = rx[1]
      BY <2>2, <3>5
    <3>7. a.ok /\ Before(c) => BeforeDone'
      BY <1>1, <1>4, <3>3 DEF BeforeDone, WriteBefore, LastBlock
    <3>8. a.ok /\ c = Own => OwnDone'
      BY <1>1, <1>4, <3>4 DEF OwnDone
    <3>9. c = Own /\ BeforeDone => BeforeDone'
      <4> SUFFICES ASSUME c = Own, BeforeDone, WriteBefore
                   PROVE  flash'[<<img, LastBlock>>] = "new"
        BY <1>1 DEF BeforeDone, WriteBefore, LastBlock
      <4>1. flash[<<img, LastBlock>>] = "new" /\ step # "begin"
        BY DEF BeforeDone, WriteBefore
      <4>2. <<img, LastBlock>> \in AllBlocks
        BY Ranges DEF WriteBefore, LastBlock, AllBlocks
      <4> QED
        BY <1>4, <3>4, <4>1, <4>2
    <3>10. Lagging'
      <4>1. CASE Before(c) /\ Len(rx) = 0
        <5>1. Own' = Own /\ step' \in Flashing /\ mishaps' = 1
          BY <1>1, <3>1 DEF Own
        <5>2. Len(rx') = 1 /\ rx'[1] = a
          BY <3>6, <4>1
        <5>3. CASE sent = FALSE /\ Len(inbox) = 1
          BY <1>1, <1>2, <3>7, <4>1, <5>1, <5>2, <5>3 DEF Lagging
        <5>4. CASE sent = TRUE /\ Len(inbox) = 2 /\ inbox[2] = Own
          <6>1. Len(inbox') = 1 /\ inbox'[1] = Own' /\ sent' = TRUE
            BY <1>1, <1>2, <5>1, <5>4
          <6>2. rx'[1].ok => BeforeDone'
            BY <3>7, <4>1, <5>2
          <6> QED
            BY <5>1, <5>2, <6>1, <6>2 DEF Lagging
        <5>5. Len(rx) # 1
          BY <4>1
        <5> QED
          BY <3>2, <5>3, <5>4, <5>5
      <4>2. CASE c = Own /\ Len(rx) = 1 /\ sent = TRUE /\ Len(inbox) = 1 /\ (rx[1].ok => BeforeDone)
        BY <1>1, <1>2, <3>1, <3>6, <3>8, <3>9, <4>2 DEF Lagging, Own
      <4> QED
        BY <3>2, <4>1, <4>2
    <3>11. Written(1)'
      <4> SUFFICES ASSUME NEW b \in AllBlocks, Passed(b, 1)' PROVE flash'[b] = "new"
        BY DEF Written
      <4>1. Passed(b, 1) /\ flash[b] = "new"
        BY <1>1, <2>6 DEF Passed, LastBlock, Written
      <4>2. c.op = "begin" => c.img = img /\ (step = "begin" \/ (step = "data" /\ ~(blk > 1)))
        BY <3>2, <3>3, <3>4 DEF WriteBefore
      <4>3. c.op = "begin" => b[1] # img
        BY <4>1, <4>2, PassedAt, Ranges
      <4> QED
        BY <1>4, <4>1, <4>2, <4>3
    <3> QED
      BY <1>1, <1>6, <2>1, <3>1, <3>10, <3>11 DEF Installing, Flashing
  <2> QED
    BY <2>1, <2>5, <2>6
<1>7. CASE /\ step \notin {"reset", "complete", "fetch"} \cup Flashing
           /\ ~(step = "attach" /\ chip = "esp32s3")
  BY <1>1, <1>7, Elsewhere
<1>8. step \in {"fetch"} \cup Flashing => chip = "esp32s3"
  BY DEF Installing
<1> QED
  BY <1>5, <1>6, <1>7, <1>8

LEMMA CleanlyStep ==
    MaxMishaps >= 2 /\ FlasherTypeOK /\ Placed /\ Cleanly /\ [Next]_vars => Cleanly'
<1> SUFFICES ASSUME MaxMishaps >= 2, FlasherTypeOK, Placed, Cleanly, [Next]_vars,
                    leftover' = FALSE
             PROVE  Asking' /\ (mishaps' < 2 => Installing')
  BY DEF Cleanly
<1>1. FlasherTypeOK' /\ Placed' /\ Asking'
  BY TypeStep, PlacedStep, AskingStep DEF Cleanly
<1> SUFFICES ASSUME mishaps' < 2 PROVE Installing'
  BY <1>1
<1>2. CASE Click
  BY <1>2, Elsewhere DEF Click, GoTo, Flashing
<1>3. CASE Boot
  BY <1>3, Elsewhere DEF Boot, Only, GoTo, Flashing
<1>4. CASE leftover' = leftover /\ mishaps < 2
  <2>1. Asking /\ Installing
    BY <1>4 DEF Cleanly
  <2>2. CASE UNCHANGED <<pageVars, rx, device, inbox, flash, mishaps>>
    BY <2>1, <2>2
    DEF pageVars, Installing, InStep, Lagging, Before, BeforeDone, WriteBefore, LastBlock,
        Own, OwnDone, Written, Passed
  <2>3. CASE Replug \/ UNCHANGED vars
    BY <2>2, <2>3 DEF Replug, vars, deviceVars, historyVars
  <2> QED
    BY <1>1, <1>2, <1>3, <2>1, <2>3, ReadKeeps, TimesOutKeeps, PortGoneKeeps, FetchKeeps,
       SendKeeps, HardResetKeeps, AnswersKeep, CommandLostKeeps, UnplugKeeps
    DEF Next, Page
<1>5. Click \/ Boot \/ (leftover' = leftover /\ mishaps < 2)
  <2>1. mishaps' \in {mishaps, mishaps + 1} \/ Click
    BY DEF Next, Page, vars, historyVars, Boot, Send, Read, TimesOut, PortGone, Fetch,
           HardReset, DeviceAnswers, CommandLost, Unplug, Replug
  <2>2. mishaps' \in {mishaps, mishaps + 1} => mishaps < 2
    BY DEF FlasherTypeOK, LinkTypeOK
  <2>3. leftover' = leftover \/ Click \/ Boot
    BY DEF Next, Page, vars, historyVars, Send, Read, TimesOut, PortGone, Fetch,
           HardReset, DeviceAnswers, CommandLost, Unplug, Replug
  <2> QED
    BY <2>1, <2>2, <2>3
<1> QED
  BY <1>2, <1>3, <1>4, <1>5

(* Two is as far as mishaps must be counted.                               *)
FlasherInv == FlasherTypeOK /\ Placed /\ Cleanly

LEMMA FlasherInvHolds == ASSUME MaxMishaps >= 2 PROVE Spec => []FlasherInv
<1>1. Init => FlasherInv
  <2> SUFFICES ASSUME Init PROVE FlasherInv
    OBVIOUS
  <2>1. step = "idle" /\ img = 1 /\ blk = 1
    BY DEF Init
  <2>2. FlasherTypeOK
    BY TypeStarts
  <2> QED
    BY <2>1, <2>2 DEF FlasherInv, Placed, Cleanly, Asking, Installing, Flashing
<1>2. FlasherInv /\ [Next]_vars => FlasherInv'
  BY TypeStep, PlacedStep, CleanlyStep DEF FlasherInv
<1> QED
  BY <1>1, <1>2, PTL DEF Spec

(* An installation that reports completion has written every block of      *)
(* every image, although flashData and its callers take any answer for     *)
(* their own and one MD5 answer may have gone unheard.                     *)
THEOREM DoneMeansWrittenHolds == ASSUME MaxMishaps >= 2 PROVE Spec => []DoneMeansWritten
<1>1. FlasherInv => DoneMeansWritten
  BY DEF FlasherInv, FlasherTypeOK, LinkTypeOK, Cleanly, Installing, DoneMeansWritten
<1> QED
  BY <1>1, FlasherInvHolds, PTL

(* Until something goes wrong, a command of the installation can only get  *)
(* the answer that is its own.                                             *)
THEOREM AnswersMatchHolds == ASSUME MaxMishaps >= 2 PROVE Spec => []AnswersMatch
<1>1. FlasherInv => AnswersMatch
  <2> SUFFICES ASSUME FlasherInv, step \in Flashing, sent = TRUE, open = TRUE,
                      mishaps = 0, leftover = FALSE
               PROVE  [k \in 1 .. Len(rx) |-> rx[k].op]
                        \o [k \in 1 .. Len(inbox) |-> inbox[k].op] = <<step>>
    BY DEF AnswersMatch, Flashing, FlasherInv, FlasherTypeOK, PageTypeOK, LinkTypeOK
  <2> DEFINE u == [k \in 1 .. Len(rx) |-> rx[k].op]
             w == [k \in 1 .. Len(inbox) |-> inbox[k].op]
  <2>1. InStep /\ rx \in Seq(Answer) /\ inbox \in Seq(Command)
    BY DEF FlasherInv, FlasherTypeOK, LinkTypeOK, Cleanly, Installing, Lagging
  <2>2. \/ Len(rx) = 0 /\ Len(inbox) = 1 /\ inbox[1].op = step
        \/ Len(rx) = 1 /\ Len(inbox) = 0 /\ rx[1].op = step
    BY <2>1 DEF InStep, Own, Flashing
  <2>3. <<step>> \in Seq(Steps) /\ Len(<<step>>) = 1 /\ <<step>>[1] = step
    BY DEF FlasherInv, FlasherTypeOK, PageTypeOK
  <2>4. CASE Len(rx) = 0 /\ Len(inbox) = 1 /\ inbox[1].op = step
    <3>1. u = <<>> /\ w = <<step>>
      BY <2>3, <2>4
    <3> QED
      BY <2>3, <3>1, ConcatEmptySeq
  <2>5. CASE Len(rx) = 1 /\ Len(inbox) = 0 /\ rx[1].op = step
    <3>1. u = <<step>> /\ w = <<>>
      BY <2>3, <2>5
    <3> QED
      BY <2>3, <3>1, ConcatEmptySeq
  <2> QED
    BY <2>2, <2>4, <2>5
<1> QED
  BY <1>1, FlasherInvHolds, PTL
=============================================================================
