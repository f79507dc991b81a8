------------------------------- MODULE Flasher -------------------------------
(***************************************************************************)
(* The firmware installer of the web page: the button of main.js, the      *)
(* detection of device_detector.js, the bootloader client of esp_loader.js *)
(* and esp_protocol.js, the image loop of flash_manager.js, over the       *)
(* receive buffer of webserial.js.  On the other side is the ROM loader of *)
(* the chip, which handles commands in the order they come.                *)
(*                                                                         *)
(* readUntil cuts the received bytes after each 0xC0: the buffer holds     *)
(* what it is going to return, answers and fragments too short to be one.  *)
(* The device may be slow, so that any read may time out before the answer *)
(* comes, and the answer comes later; it may refuse a command; a command   *)
(* may be lost on the way, the cable pulled, and the user try again.       *)
(*                                                                         *)
(* Of the ROM it is assumed that only an ESP32-S3 answers the read of      *)
(* 0x60007000 as one, and that no other answer looks like that one.  One   *)
(* installation runs at a time: a second click cannot open the port.       *)
(* Definitions named Bad... are faulty variants of the one that follows.   *)
(***************************************************************************)
EXTENDS Integers, Sequences

CONSTANTS
    Devices,     \* records: kind, framed, echoes and signals
    Images,      \* the number of firmware images
    Blocks,      \* the number of blocks in each
    MaxAttempts, \* of sync
    MaxClicks,   \* bound: how often the user starts the installation
    MaxMishaps   \* bound: commands lost in one installation, and mishaps counted

ASSUME FlasherAssumption ==
    /\ Devices \subseteq [kind : {"esp32s3", "other"},
                          framed : BOOLEAN,    \* answers open with 0xC0, too
                          echoes : Nat \ {0},  \* answers to a SYNC
                          signals : BOOLEAN]   \* the driver can reset the chip
    /\ {Images, Blocks, MaxAttempts} \subseteq Nat \ {0}
    /\ {MaxClicks, MaxMishaps} \subseteq Nat

VARIABLES
    step,      \* where the installation is
    sent,      \* the command of this step has been sent
    attempt,   \* of sync
    chip,      \* what detectChip made of the device
    img, blk,  \* imgIdx + 1 and blockIdx + 1
    open,      \* isOpen of the serial port
    rx,        \* rxBuffer, cut after each 0xC0
    device,    \* the device attached
    plugged,   \* the cable is plugged in
    inbox,     \* the commands that the device has not handled
    base,      \* the image it expects blocks of, or 0
    flash,     \* its flash: what it holds of each block
    mishaps,   \* history: commands lost, and MD5 answers not awaited
    trouble,   \* history: something went wrong outside the page
    leftover,  \* history: commands or answers older than the reset outlive it
    clicks     \* history: installations started
pageVars == <<step, sent, attempt, chip, img, blk, open>>
deviceVars == <<device, plugged, inbox, base, flash>>
historyVars == <<mishaps, trouble, leftover, clicks>>
vars == <<pageVars, rx, deviceVars, historyVars>>

Commands == {"sync", "reg32", "regS3", "attach", "begin", "data", "end", "md5"}
Resting == {"idle", "complete", "halted"}
AllBlocks == (1 .. Images) \X (1 .. Blocks)

Short == [op |-> "short", ok |-> FALSE, value |-> "none"]  \* less than ten bytes

Init ==
    /\ step = "idle" /\ sent = FALSE /\ attempt = 1 /\ chip = "other"
    /\ img = 1 /\ blk = 1 /\ open = FALSE
    /\ rx = <<>>
    /\ device \in Devices
    /\ plugged = TRUE
    /\ inbox = <<>> /\ base = 0
    /\ flash = [b \in AllBlocks |-> "old"]
    /\ mishaps = 0 /\ trouble = FALSE /\ leftover = FALSE /\ clicks = 0
-----------------------------------------------------------------------------
(* The ways an installation goes on.  GoTo leaves the step for the next.   *)
GoTo(s) == step' = s /\ sent' = FALSE

Halt == GoTo("halted") /\ open' = FALSE /\ UNCHANGED <<attempt, chip, img, blk>>

Only(s) == GoTo(s) /\ UNCHANGED <<attempt, chip, img, blk, open>>

BadTryAgain == Only("sync")  \* attempts not counted

(* sync: another attempt, or none is left.                                 *)
TryAgain ==
    IF attempt < MaxAttempts
    THEN /\ GoTo("sync") /\ attempt' = attempt + 1
         /\ UNCHANGED <<chip, img, blk, open>>
    ELSE Halt

(* detectChip returns; the chip is looked at after spiAttach.              *)
Detected(c) == GoTo("attach") /\ chip' = c /\ UNCHANGED <<attempt, img, blk, open>>

(* FlashManager.flash: the next image, or the hard reset of the end.       *)
NextImage ==
    IF img < Images
    THEN /\ GoTo("begin") /\ img' = img + 1 /\ blk' = 1
         /\ UNCHANGED <<attempt, chip, open>>
    ELSE Only("reset")

NextBlock ==
    IF blk < Blocks
    THEN /\ GoTo("data") /\ blk' = blk + 1
         /\ UNCHANGED <<attempt, chip, img, open>>
    ELSE Only("end")

(* What an exception of write, readUntil, parseResponsePacket or           *)
(* sendCommand comes to: it is caught around each attempt of sync, around  *)
(* both register reads and around the MD5 check.                           *)
BadThrown ==  \* the exceptions of flashData are caught, too
    CASE step = "sync" -> TryAgain
      [] step = "reg32" -> Only("regS3")
      [] step = "regS3" -> Detected("other")
      [] step = "md5" -> NextImage
      [] step = "data" -> NextBlock
      [] OTHER -> Halt

Thrown ==
    CASE step = "sync" -> TryAgain
      [] step = "reg32" -> Only("regS3")
      [] step = "regS3" -> Detected("other")
      [] step = "md5" -> NextImage
      [] OTHER -> Halt

BadSupported == TRUE  \* any chip

Supported == chip = "esp32s3"  \* DeviceInfo.isSupportedTarget

(* What an answer of success comes to; only sync looks at its opcode.      *)
Taken(a) ==
    CASE step = "sync" -> IF a.op = "sync" THEN Only("reg32") ELSE TryAgain
      [] step = "reg32" -> IF a.value = "esp32" THEN Detected("other") ELSE Only("regS3")
      [] step = "regS3" -> Detected(IF a.value = "esp32s3" THEN "esp32s3" ELSE "other")
      [] step = "attach" -> IF Supported THEN Only("fetch") ELSE Halt
      [] step = "begin" -> Only("data")
      [] step = "data" -> NextBlock
      [] step = "end" -> Only("md5")
      [] step = "md5" -> NextImage
-----------------------------------------------------------------------------
(* The button: the port is opened and its buffer emptied.                  *)
Click ==
    /\ step \in Resting /\ clicks < MaxClicks
    /\ plugged
    /\ clicks' = clicks + 1
    /\ mishaps' = 0 /\ trouble' = FALSE /\ leftover' = FALSE
    /\ GoTo("boot")
    /\ open' = TRUE
    /\ rx' = <<>>
    /\ attempt' = 1 /\ chip' = "other" /\ img' = 1 /\ blk' = 1
    /\ UNCHANGED deviceVars

(* The chip starts again, if the driver can reset it.                      *)
Reset == IF device.signals THEN inbox' = <<>> /\ base' = 0 ELSE UNCHANGED <<inbox, base>>

(* enterBootloader: the buffer was emptied before the reset, not after it. *)
Boot ==
    /\ step = "boot"
    /\ Reset
    /\ Only("sync")
    /\ leftover' = (rx # <<>> \/ inbox' # <<>>)
    /\ UNCHANGED <<rx, device, plugged, flash, mishaps, trouble, clicks>>

(* hardReset, and the port is closed.                                      *)
HardReset ==
    /\ step = "reset"
    /\ Reset
    /\ GoTo("complete") /\ open' = FALSE /\ UNCHANGED <<attempt, chip, img, blk>>
    /\ UNCHANGED <<rx, device, plugged, flash, historyVars>>

(* The command of the step is written.                                     *)
Send ==
    /\ step \in Commands /\ ~sent /\ open
    /\ inbox' = Append(inbox, [op |-> step, img |-> img, blk |-> blk])
    /\ sent' = TRUE
    /\ UNCHANGED <<step, attempt, chip, img, blk, open, rx, device, plugged, base, flash,
                   historyVars>>

(* readPacket: what the buffer holds up to the next 0xC0.                  *)
Read ==
    /\ sent /\ open /\ rx # <<>>
    /\ IF Head(rx).ok THEN Taken(Head(rx)) ELSE Thrown
    /\ rx' = Tail(rx)
    /\ UNCHANGED <<deviceVars, historyVars>>

TimesOut ==
    /\ sent /\ open /\ rx = <<>>
    /\ Thrown
    /\ mishaps' = IF step = "md5" /\ mishaps < MaxMishaps THEN mishaps + 1 ELSE mishaps
    /\ trouble' = TRUE
    /\ UNCHANGED <<rx, deviceVars, leftover, clicks>>

(* The port is found closed, before a write or during a read.              *)
PortGone ==
    /\ step \in Commands /\ ~open
    /\ Thrown
    /\ UNCHANGED <<rx, deviceVars, historyVars>>

(* The manifest and the images are fetched and checked.                    *)
Fetch ==
    /\ step = "fetch"
    /\ \/ Only("begin") /\ UNCHANGED trouble
       \/ Halt /\ trouble' = TRUE
    /\ UNCHANGED <<rx, deviceVars, mishaps, leftover, clicks>>

Page == Boot \/ Send \/ Read \/ TimesOut \/ PortGone \/ Fetch \/ HardReset
-----------------------------------------------------------------------------
(* The ROM loader.  What the answer to a command may say:                  *)
Values(op) ==
    CASE op = "sync" -> {"none", "esp32"}
      [] op = "reg32" -> IF device.kind = "other" THEN {"none", "esp32"} ELSE {"none"}
      [] op = "regS3" -> {IF device.kind = "esp32s3" THEN "esp32s3" ELSE "none"}
      [] OTHER -> {"none"}

Frames(a, n) ==  \* n answers, as readUntil is going to cut them
    IF device.framed THEN [k \in 1 .. (2 * n) |-> IF k % 2 = 1 THEN Short ELSE a]
                     ELSE [k \in 1 .. n |-> a]

Performed(c) ==
    /\ base' = IF c.op = "begin" THEN c.img ELSE base
    /\ flash' = CASE c.op = "begin" ->
                       [b \in AllBlocks |-> IF b[1] = c.img THEN "erased" ELSE flash[b]]
                  [] c.op = "data" -> [flash EXCEPT ![<<c.img, c.blk>>] = "new"]
                  [] OTHER -> flash

DeviceAnswers ==
    /\ plugged /\ inbox # <<>>
    /\ LET c == Head(inbox) IN
         \E ok \in BOOLEAN, value \in Values(c.op) :
           /\ IF ok THEN Performed(c) ELSE UNCHANGED <<base, flash>>
           /\ ok /\ c.op = "data" => base = c.img
           /\ rx' = IF open
                    THEN rx \o Frames([op |-> c.op, ok |-> ok, value |-> value],
                                      IF c.op = "sync" THEN device.echoes ELSE 1)
                    ELSE rx
           /\ trouble' = (trouble \/ ~ok)
    /\ inbox' = Tail(inbox)
    /\ UNCHANGED <<pageVars, device, plugged, mishaps, leftover, clicks>>

(* A command is spoilt on the way and not answered.                        *)
CommandLost ==
    /\ inbox # <<>> /\ mishaps < MaxMishaps
    /\ inbox' = Tail(inbox)
    /\ mishaps' = mishaps + 1
    /\ trouble' = TRUE
    /\ UNCHANGED <<pageVars, rx, device, plugged, base, flash, leftover, clicks>>

Unplug ==
    /\ plugged
    /\ plugged' = FALSE
    /\ open' = FALSE
    /\ inbox' = <<>> /\ base' = 0
    /\ trouble' = TRUE
    /\ UNCHANGED <<step, sent, attempt, chip, img, blk, rx, device, flash, mishaps,
                   leftover, clicks>>

Replug ==
    /\ ~plugged
    /\ plugged' = TRUE
    /\ UNCHANGED <<pageVars, rx, device, inbox, base, flash, historyVars>>

Next == Click \/ Page \/ DeviceAnswers \/ CommandLost \/ Unplug \/ Replug

(* Timers and promises of the page are served.                             *)
Spec == Init /\ [][Next]_vars /\ WF_vars(Page)
-----------------------------------------------------------------------------
(* Whatever is late, lost or left over from an installation before, a chip *)
(* that is not an ESP32-S3 is neither erased nor written (detectChip takes *)
(* any answer for that of its register read, initFlasher compares).        *)
TargetOnly == device.kind # "esp32s3" => flash = [b \in AllBlocks |-> "old"]

(* An installation, the first or a repetition of one that was interrupted, *)
(* that reports completion has every block of every image on the flash,    *)
(* although the answers it took need not be those of its commands.  It     *)
(* takes two mishaps for a refused block to go unnoticed, or something     *)
(* left over from before the reset (FlashManager.flash, sendCommand).      *)
DoneMeansWritten ==
    step = "complete" /\ mishaps < 2 /\ ~leftover => \A b \in AllBlocks : flash[b] = "new"

(* Late answers do not outlive the detection, which asks two questions     *)
(* whose answers differ: until the first mishap, the only answer that a    *)
(* flash command can get is its own, unless something is left over from    *)
(* before the reset (enterBootloader, sync, detectChip).                   *)
AnswersMatch ==
    step \in {"begin", "data", "end", "md5"} /\ sent /\ open
      /\ mishaps = 0 /\ ~leftover =>
        [k \in 1 .. Len(rx) |-> rx[k].op] \o [k \in 1 .. Len(inbox) |-> inbox[k].op]
            = <<step>>

(* An installation ends: no sequence of answers keeps it in a loop, and no *)
(* silence of the device blocks it.                                        *)
FlasherEnds == step = "boot" ~> step \in {"complete", "halted"}

(* "Reads hardware registers: confirms ESP32-S3 revision"                  *)
(* (docs/FLASHING.md): an ESP32-S3 that answers every command, in time,    *)
(* is not refused.                                                         *)
SupportedAccepted == step = "halted" /\ device.kind = "esp32s3" => trouble
=============================================================================
