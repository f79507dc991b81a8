----------------------------- MODULE MacroPlayer -----------------------------
(***************************************************************************)
(* The macro player of os/apps/ble_hid: the parser of macro_parser.c,      *)
(* which reads macro.txt through a buffer, and the state machine of        *)
(* ble_hid.c, which sends one keyboard report a slice.                     *)
(*                                                                         *)
(* A file is a sequence of cells: a command word, a digit, a letter, a     *)
(* symbol without a key, a space or a newline, each one long.  The parser  *)
(* reads it once, front to back, so that its buffer shows only when the    *)
(* flash cannot be read: then the file ends where the buffer does.         *)
(* A host counts as connected while the keyboard advertises, as on the     *)
(* host build; on the device s_ble_connected is never set.  The player is  *)
(* not started while it runs: ble_hid_start would forget the open file.    *)
(*                                                                         *)
(* The macros have a command on each line, with its argument (IsLine); a   *)
(* command that lacks it takes the next line for it.                       *)
(* Definitions named Bad... are faulty variants of the one that follows.   *)
(***************************************************************************)
EXTENDS Integers, SequencesExt

CONSTANTS
    MacroFiles,  \* the macros, each a sequence of lines
    BufferSize,  \* MACRO_BUFFER_SIZE, in cells
    WordCap,     \* the length of the longest command word
    StrCap,      \* the length of the longest string
    OpenCooldown, PlayCooldown,  \* ticks of rest
    Ticks(_)     \* of a delay: delay_ms / 10 + 1

VARIABLES
    player,       \* s_state
    macro,        \* the lines of macro.txt
    unread,       \* the cells not yet read
    pending,      \* the rest of the string being typed
    rest,         \* s_delay_remaining_ticks
    advertising,  \* s_ble_advertising
    fileOpen,     \* s_macro_fd is a descriptor
    reports,      \* history: the reports sent since the macro was opened
    cut           \* history: the macro could not be read to its end
macroVars == <<player, macro, unread, pending, rest, advertising, fileOpen, reports, cut>>

Newline == {"\n"}
Spaces == {" ", "\n"}
Digits == {"1", "2"}
Letters == {"a", "B"}
Commands == {"STRING", "DELAY", "ENTER"}
Cells == Commands \cup {"!"} \cup Digits \cup Letters \cup Spaces
Text == Seq(Cells)
Release == "release"

(* A line of a macro: a string after one space, a number after one space,  *)
(* ENTER alone, or no command at all.  The last may lack its newline.      *)
IsLine(l) ==
    /\ l \in Text /\ l # <<>>
    /\ \A i \in 1 .. (Len(l) - 1) : l[i] # "\n"
    /\ \/ l[1] = "STRING" /\ Len(l) >= 2 /\ l[2] = " " /\ (Len(l) >= 3 => l[3] # " ")
       \/ /\ l[1] = "DELAY" /\ Len(l) >= 3 /\ l[2] = " " /\ l[3] \in Digits
          /\ \A i \in 3 .. Len(l) : l[i] \in Digits \cup Newline
       \/ l[1] = "ENTER" /\ (Len(l) = 1 \/ l = <<"ENTER", "\n">>)
       \/ \A i \in 1 .. Len(l) : l[i] \notin Commands

IsMacro(lines) ==
    /\ \A k \in 1 .. Len(lines) : IsLine(lines[k])
    /\ \A k \in 1 .. (Len(lines) - 1) : lines[k][Len(lines[k])] = "\n"

ASSUME MacroAssumption ==
    /\ \A m \in MacroFiles : m \in Seq(Text) /\ IsMacro(m)
    /\ {BufferSize, WordCap, StrCap} \subseteq Nat \ {0}

(* char_to_hid: the key of a character, if it has one.                     *)
HasKey(c) == c \in Letters \cup Spaces

(* The cells of s before the first that is one of set, and those from the  *)
(* first on that is none of set.                                           *)
Until(set, s) ==
    SubSeq(s, 1, Min({k \in 1 .. Len(s) : s[k] \in set} \cup {Len(s) + 1}) - 1)
Drop(s, n) == SubSeq(s, n + 1, Len(s))
Skip(set, s) == Drop(s, Len(Until(Cells \ set, s)))
Take(s, n) == SubSeq(s, 1, Min({n, Len(s)}))
-----------------------------------------------------------------------------
(* The result of macro_parser_next_event: what it reads, the key or the    *)
(* delay, and where it leaves the file and the string.                     *)
Event(type, arg, file, string) ==
    [type |-> type, arg |-> arg, unread |-> file, pending |-> string]

BadTyped(string, file) ==  \* one without a key ends the string
    Event("char", Head(string), file, IF HasKey(Head(string)) THEN Tail(string) ELSE <<>>)

Typed(string, file) ==  \* the next character of a string
    Event("char", Head(string), file, Tail(string))

(* The first word of s, without what exceeds the buffer of the word.  The  *)
(* cell that ends the word is read as well, a letter if the word is cut.   *)
Word[s \in Text] == Take(Until(Spaces, s), WordCap)
AfterWord[s \in Text] == Drop(s, Len(Word[s]) + 1)

(* STRING: the rest of the line.                                           *)
StringEvent[s \in Text] ==
    LET line == Until(Newline, s)
        file == Drop(s, Len(line) + 1)
    IN  IF line = <<>> THEN Event("none", "", file, <<>>)
        ELSE Typed(Take(line, StrCap), file)

(* DELAY: the number may stand on a later line; the cell after it is read. *)
DelayEvent[s \in Text] ==
    IF s = <<>> THEN Event("delay", "", <<>>, <<>>)
    ELSE Event("delay", Head(s), Drop(Skip(Digits, Tail(s)), 1), <<>>)

Command[s \in Text] ==
    CASE s = <<>> -> Event("eof", "", <<>>, <<>>)
      [] Word[s] = <<"STRING">> -> StringEvent[Skip({" "}, AfterWord[s])]
      [] Word[s] = <<"DELAY">> -> DelayEvent[Skip(Spaces, AfterWord[s])]
      [] Word[s] = <<"ENTER">> -> Event("char", "\n", AfterWord[s], <<>>)
      [] OTHER -> Event("none", "", AfterWord[s], <<>>)

NextEvent ==
    IF pending # <<>> THEN Typed(pending, unread) ELSE Command[Skip(Spaces, unread)]
-----------------------------------------------------------------------------
MacroInit ==
    /\ player = "wait"
    /\ macro \in MacroFiles
    /\ unread = <<>> /\ pending = <<>>
    /\ rest = 0
    /\ advertising = FALSE /\ fileOpen = FALSE
    /\ reports = <<>> /\ cut = FALSE

(* ble_hid_start.                                                          *)
StartPlayer ==
    /\ ~advertising
    /\ advertising' = TRUE
    /\ player' = "wait"
    /\ UNCHANGED <<macro, unread, pending, rest, fileOpen, reports, cut>>

(* ble_hid_stop.                                                           *)
StopPlayer ==
    /\ advertising
    /\ advertising' = FALSE
    /\ fileOpen' = FALSE
    /\ player' = "wait"
    /\ UNCHANGED <<macro, unread, pending, rest, reports, cut>>

(* The cases of ble_hid_task.                                              *)
Connect ==
    /\ player = "wait" /\ advertising
    /\ player' = "open"
    /\ UNCHANGED <<macro, unread, pending, rest, advertising, fileOpen, reports, cut>>

OpenMacro ==
    /\ player = "open"
    /\ reports' = <<>>
    /\ \/ /\ fileOpen' = TRUE /\ cut' = FALSE
          /\ unread' = FlattenSeq(macro) /\ pending' = <<>>
          /\ player' = "parse"
          /\ UNCHANGED rest
       \/ /\ cut' = TRUE                \* no such file, or no descriptor
          /\ rest' = OpenCooldown
          /\ player' = "cooldown"
          /\ UNCHANGED <<fileOpen, unread, pending>>
    /\ UNCHANGED <<macro, advertising>>

(* What follows from an event; a character without a key costs a slice.    *)
Press(key) == player' = "release" /\ reports' = Append(reports, key) /\ UNCHANGED <<rest, fileOpen>>
Pause(n) == player' = "delay" /\ rest' = n /\ UNCHANGED <<reports, fileOpen>>
Finish ==
    /\ player' = "cooldown" /\ rest' = PlayCooldown
    /\ fileOpen' = FALSE
    /\ UNCHANGED reports

Parse ==
    /\ player = "parse"
    /\ LET e == NextEvent IN
         /\ unread' = e.unread /\ pending' = e.pending
         /\ CASE e.type = "eof" -> Finish
              [] e.type = "delay" -> Pause(Ticks(e.arg))
              [] e.type = "char" /\ HasKey(e.arg) -> Press(e.arg)
              [] OTHER -> UNCHANGED <<player, rest, fileOpen, reports>>
    /\ UNCHANGED <<macro, advertising, cut>>

SendRelease ==
    /\ player = "release"
    /\ reports' = Append(reports, Release)
    /\ player' = "parse"
    /\ UNCHANGED <<macro, unread, pending, rest, advertising, fileOpen, cut>>

BadAfterRest == IF player = "delay" THEN "delay" ELSE "wait"  \* never over

AfterRest == IF player = "delay" THEN "parse" ELSE "wait"

Resting ==
    /\ player \in {"delay", "cooldown"}
    /\ IF rest > 0 THEN rest' = rest - 1 /\ UNCHANGED player
                   ELSE player' = AfterRest /\ UNCHANGED rest
    /\ UNCHANGED <<macro, unread, pending, advertising, fileOpen, reports, cut>>

(* A later vfs_read is going to fail, and refill_buffer to take that for   *)
(* the end: the parser gets what the buffer had been filled with.          *)
ReadFails ==
    /\ fileOpen
    /\ ~cut
    /\ LET size == Len(FlattenSeq(macro))
           done == size - Len(unread)
       IN  \E buffered \in {n \in done .. (size - 1) : n % BufferSize = 0} :
              unread' = Take(unread, buffered - done)
    /\ cut' = TRUE
    /\ UNCHANGED <<player, macro, pending, rest, advertising, fileOpen, reports>>

PlayerTask == Connect \/ OpenMacro \/ Parse \/ SendRelease \/ Resting

MacroNext == StartPlayer \/ StopPlayer \/ PlayerTask \/ ReadFails
-----------------------------------------------------------------------------
(* What the lines of a macro mean: a string types those of its first       *)
(* StrCap characters that have keys, ENTER types a newline, everything     *)
(* else types nothing; a key is pressed and released.                      *)
Keys[text \in Text] ==
    FlattenSeq([k \in 1 .. Len(text) |-> IF HasKey(text[k]) THEN <<text[k]>> ELSE <<>>])

KeysOf(line) ==
    CASE line[1] = "STRING" -> Keys[Take(Until(Newline, Drop(line, 2)), StrCap)]
      [] line[1] = "ENTER" -> <<"\n">>
      [] OTHER -> <<>>

AllKeys(lines) == FlattenSeq([k \in 1 .. Len(lines) |-> KeysOf(lines[k])])

Reference(lines) ==
    LET keys == AllKeys(lines)
    IN  [k \in 1 .. 2 * Len(keys) |-> IF k % 2 = 1 THEN keys[(k + 1) \div 2] ELSE Release]

(* Played through words too long, strings too long, characters without a   *)
(* key, stops, restarts and a flash that fails, the reports are always     *)
(* those the macro asks for, in order, and at its end all of them, each    *)
(* key released; the file is open exactly while it is played               *)
(* (ble_hid_task and macro_parser_next_event).                             *)
TypesMacro ==
    /\ IsPrefix(reports, Reference(macro))
    /\ player = "cooldown" /\ ~cut => reports = Reference(macro)
    /\ fileOpen <=> player \in {"parse", "release", "delay"}

(* A macro that is being played comes to its end, unless the player is     *)
(* stopped: no event leaves the parser where it was, no delay lasts.       *)
PlaysOut == player = "parse" ~> player = "cooldown" \/ ~advertising
=============================================================================
