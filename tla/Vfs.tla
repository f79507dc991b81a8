--------------------------------- MODULE Vfs ---------------------------------
(***************************************************************************)
(* The file system of os/vfs/vfs.c on the NOR flash sectors of             *)
(* os/vfs/vfs_block.c: a superblock with the directory in sector 0, one    *)
(* sector of data per file, a table of open files.                         *)
(*                                                                         *)
(* A call changes the RAM at once, which nobody else sees before it        *)
(* returns because tasks are cooperative, and queues its flash commands in *)
(* todo; they are executed one at a time, and the power may fail between   *)
(* two of them or, if Torn, in the middle of programming a sector.  The    *)
(* next call starts when todo is empty.  Programming the data of vfs_write *)
(* may fail, the one flash command whose result the code looks at; the     *)
(* others do not.                                                          *)
(*                                                                         *)
(* Callers (ble_hid.c, vfs_log.c, the tests) read with VFS_O_RDONLY and    *)
(* write with VFS_O_CREAT | VFS_O_WRONLY and one of VFS_O_APPEND and       *)
(* VFS_O_TRUNC, one writer at a time, and truncate or delete no file that  *)
(* is open.  The code checks none of that.  Here a file may be truncated   *)
(* while it is open and have two writers: an inode so misused, or that a   *)
(* write fails on, is forfeit, and nothing is promised of its data until   *)
(* it starts afresh.  No file is deleted while it is open, and names are   *)
(* shorter than VFS_MAX_FILENAME_LEN - 1.                                  *)
(* Definitions named Bad... are faulty variants of the one that follows.   *)
(***************************************************************************)
EXTENDS Integers, Sequences, FiniteSetsExt

CONSTANTS
    Names,      \* the file names used, "macro.txt" and "wifi_audit.log" among them
    MaxFiles,   \* VFS_MAX_FILES
    MaxOpen,    \* VFS_MAX_OPEN_FILES
    SectorSize, \* VFS_SECTOR_SIZE, in units of the data written
    Data,       \* the data written
    MaxForfeit, \* bound: inodes misused or not written at a time
    Torn        \* the power may fail while a sector is being programmed

ASSUME VfsAssumption ==
    /\ {"macro.txt", "wifi_audit.log"} \subseteq Names
    /\ MaxFiles \in Nat /\ MaxFiles >= 2
    /\ MaxOpen \in Nat \ {0}
    /\ SectorSize \in Nat \ {0}
    /\ MaxForfeit \in Nat
    /\ Torn \in BOOLEAN
    /\ Data # {} /\ 255 \notin Data

VARIABLES
    sb,       \* s_superblock
    fds,      \* s_open_files
    ready,    \* s_vfs_ready
    disk,     \* sector 0: a superblock image or Erased
    sectors,  \* the data sectors
    todo,     \* the flash commands of the call in progress, or none
    written,  \* history: what callers wrote to each file
    synced,   \* history: the superblock when the latest call returned
    forfeit   \* history: the inodes misused or not written
vars == <<sb, fds, ready, disk, sectors, todo, written, synced, forfeit>>

Inodes == 0 .. (MaxFiles - 1)
Fds == 0 .. (MaxOpen - 1)
Sectors == 1 .. (MaxFiles + 2)
FF == 255  \* an erased unit
Cells == Data \cup {FF}
Blank == [k \in 1 .. SectorSize |-> FF]
Modes == {"read", "append", "replace"}

Inode == [name : Names \cup {"?"}, sector : Sectors \cup {0}, size : 0 .. SectorSize,
          used : BOOLEAN]
FreeInode == [name |-> "?", sector |-> 0, size |-> 0, used |-> FALSE]
Garbage == [name |-> "?", sector |-> 0, size |-> 0, used |-> TRUE]  \* bytes 0xFF

(* magic and intact: the stored magic and crc32 are right.                 *)
Superblock == [magic : BOOLEAN, count : 0 .. MaxFiles, inodes : [Inodes -> Inode],
               intact : BOOLEAN]
Erased == [magic |-> FALSE, count |-> 0, inodes |-> [i \in Inodes |-> Garbage],
           intact |-> FALSE]
ClosedFd == [open |-> FALSE, inode |-> 0, cursor |-> 0, writes |-> FALSE]
-----------------------------------------------------------------------------
(* vfs_block_erase and vfs_block_write as entries of todo.                 *)
Erase(s) == [op |-> "erase", sector |-> s]
Program(s, image) == [op |-> "program", sector |-> s, image |-> image]

BadSync(block) ==  \* stores the file_count of before the call
    <<Erase(0), Program(0, [block EXCEPT !.count = sb.count])>>

(* vfs_sync_superblock.                                                    *)
Sync(block) == <<Erase(0), Program(0, block)>>

Overlay(cells, from, s) ==  \* s copied over cells from position from + 1 on
    [k \in 1 .. SectorSize |->
        IF k \in (from + 1) .. (from + Len(s)) THEN s[k - from] ELSE cells[k]]

(* create_default_files.                                                   *)
DefaultMacro == <<CHOOSE d \in Data : TRUE>>

DefaultSb ==
    [magic |-> TRUE, count |-> 2, intact |-> TRUE,
     inodes |-> [i \in Inodes |->
        CASE i = 0 -> [name |-> "macro.txt", sector |-> 1,
                       size |-> Len(DefaultMacro), used |-> TRUE]
          [] i = 1 -> [name |-> "wifi_audit.log", sector |-> 2, size |-> 0, used |-> TRUE]
          [] OTHER -> FreeInode]]

Format == <<Erase(1), Program(1, Overlay(Blank, 0, DefaultMacro)), Erase(2)>>
            \o Sync(DefaultSb)

Used(block) == {i \in Inodes : block.inodes[i].used}
Find(n) == {i \in Used(sb) : sb.inodes[i].name = n}

(* What is read from file i of superblock block.                           *)
Contents(block, i) ==
    [k \in 1 .. block.inodes[i].size |->
        IF block.inodes[i].sector \in Sectors
        THEN sectors[block.inodes[i].sector][k] ELSE FF]
-----------------------------------------------------------------------------
(* A device that has never been used: erased flash, power on.              *)
Init ==
    /\ sb = DefaultSb /\ synced = DefaultSb
    /\ fds = [f \in Fds |-> ClosedFd]
    /\ ready = FALSE
    /\ disk = Erased
    /\ sectors = [s \in Sectors |-> Blank]
    /\ todo = <<>>
    /\ written = [n \in Names |-> <<>>]
    /\ forfeit = {}

(* vfs_init: only the magic is looked at.                                  *)
Mounted(block) ==
    /\ sb' = block
    /\ todo' = <<>>
    /\ written' = [n \in Names |->
          IF \E i \in Used(block) : block.inodes[i].name = n
          THEN Contents(block, CHOOSE i \in Used(block) : block.inodes[i].name = n)
          ELSE <<>>]

Formatted ==
    /\ sb' = DefaultSb
    /\ todo' = Format
    /\ written' = [n \in Names |-> IF n = "macro.txt" THEN DefaultMacro ELSE <<>>]

Mount ==
    /\ ~ready
    /\ IF disk.magic THEN Mounted(disk) ELSE Formatted
    /\ fds' = [f \in Fds |-> ClosedFd]
    /\ ready' = TRUE
    /\ forfeit' = {}
    /\ synced' = IF todo' = <<>> THEN sb' ELSE synced
    /\ UNCHANGED <<disk, sectors>>

(* The next flash command of the call in progress.                         *)
Execute ==
    /\ ready /\ todo # <<>>
    /\ LET c == Head(todo) IN
         IF c.sector = 0
         THEN /\ disk' = IF c.op = "erase" THEN Erased ELSE c.image
              /\ UNCHANGED sectors
         ELSE /\ sectors' = [sectors EXCEPT ![c.sector] =
                               IF c.op = "erase" THEN Blank ELSE c.image]
              /\ UNCHANGED disk
    /\ todo' = Tail(todo)
    /\ synced' = IF todo' = <<>> THEN sb ELSE synced
    /\ UNCHANGED <<sb, fds, ready, written, forfeit>>

(* The power fails, possibly when the first k inodes or units of a sector  *)
(* have been programmed.                                                   *)
PowerFails ==
    /\ ready
    /\ ready' = FALSE
    /\ fds' = [f \in Fds |-> ClosedFd]
    /\ \/ UNCHANGED <<disk, sectors>>
       \/ /\ Torn /\ todo # <<>> /\ Head(todo).op = "program"
          /\ LET c == Head(todo) IN
               IF c.sector = 0
               THEN /\ \E k \in Inodes :
                         disk' = [c.image EXCEPT
                           !.intact = FALSE,
                           !.inodes = [i \in Inodes |-> IF i < k THEN @[i] ELSE Garbage]]
                    /\ UNCHANGED sectors
               ELSE /\ \E k \in 0 .. SectorSize :
                         sectors' = [sectors EXCEPT ![c.sector] =
                                       [j \in 1 .. SectorSize |->
                                          IF j <= k THEN c.image[j] ELSE FF]]
                    /\ UNCHANGED disk
    /\ todo' = <<>>
    /\ UNCHANGED <<sb, written, synced, forfeit>>
-----------------------------------------------------------------------------
Idle == ready /\ todo = <<>>

FreeFds == {f \in Fds : ~fds[f].open}

OpenOn(i) == {f \in Fds : fds[f].open /\ fds[f].inode = i}

(* The inodes forfeit once file i is open in mode m: it starts afresh when *)
(* it is truncated and nobody else has it open.                            *)
Orderly(i, m) ==
    \/ m = "read"
    \/ m = "append" /\ \A f \in OpenOn(i) : ~fds[f].writes
    \/ m = "replace" /\ OpenOn(i) = {}

ForfeitBy(i, m) ==
    IF FreeFds = {} THEN forfeit
    ELSE IF ~Orderly(i, m) THEN forfeit \cup {i}
    ELSE IF m = "replace" THEN forfeit \ {i} ELSE forfeit

BadSectorOf(i) == 3  \* whatever the inode

SectorOf(i) == 3 + i  \* start_sector of a created file

(* The second half of vfs_open: a descriptor for file i of block, and the  *)
(* truncation.  Without a free descriptor the call fails with BUSY.        *)
TakeFd(block, i, m) ==
    IF FreeFds = {}
    THEN sb' = block /\ fds' = fds
    ELSE LET shown == IF m = "replace" THEN [block EXCEPT !.inodes[i].size = 0] ELSE block
         IN  /\ sb' = shown
             /\ fds' = [fds EXCEPT ![Min(FreeFds)] =
                   [open |-> TRUE, inode |-> i, writes |-> m # "read",
                    cursor |-> IF m = "append" THEN shown.inodes[i].size ELSE 0]]

(* The flash commands of the truncation.                                   *)
BadTruncation(block, i, m) ==  \* the size is not synced
    IF m = "replace" /\ FreeFds # {} THEN <<Erase(block.inodes[i].sector)>> ELSE <<>>

Truncation(block, i, m) ==
    IF m = "replace" /\ FreeFds # {}
    THEN <<Erase(block.inodes[i].sector)>> \o Sync([block EXCEPT !.inodes[i].size = 0])
    ELSE <<>>

(* vfs_open of a file that exists.                                         *)
Open(n, m) ==
    /\ Idle
    /\ \E i \in Find(n) :
          /\ i = Min(Find(n))
          /\ forfeit' = ForfeitBy(i, m)
          /\ TakeFd(sb, i, m)
          /\ todo' = Truncation(sb, i, m)
          /\ written' = IF i \in forfeit' \/ (m = "replace" /\ FreeFds # {})
                        THEN [written EXCEPT ![n] = <<>>] ELSE written
    /\ synced' = IF todo' = <<>> THEN sb' ELSE synced
    /\ UNCHANGED <<ready, disk, sectors>>

BadSlot(i) == i \in Inodes  \* whoever uses it

Slot(i) == ~sb.inodes[i].used

(* vfs_open of a file that does not: it is created in the first free       *)
(* inode, also when no descriptor is free.                                 *)
Create(n, m) ==
    /\ Idle /\ Find(n) = {} /\ m # "read"
    /\ \E i \in Inodes :
          /\ Slot(i) /\ \A j \in 0 .. (i - 1) : ~Slot(j)
          /\ LET block == [sb EXCEPT
                     !.count = @ + 1,
                     !.inodes[i] = [name |-> n, sector |-> SectorOf(i), size |-> 0,
                                    used |-> TRUE]]
             IN  /\ TakeFd(block, i, m)
                 /\ todo' = <<Erase(SectorOf(i))>> \o Sync(block) \o Truncation(block, i, m)
          /\ forfeit' = forfeit \ {i}
    /\ written' = [written EXCEPT ![n] = <<>>]
    /\ UNCHANGED <<ready, disk, sectors, synced>>

(* vfs_write: the sector is read, erased and programmed again up to the    *)
(* end of the data written; only a file that has grown is synced.          *)
BadRewritten(cells, from, s) ==  \* without reading the sector first
    Overlay(Blank, from, s)

Rewritten(cells, from, s) ==
    [k \in 1 .. SectorSize |->
        IF k <= from + Len(s) THEN Overlay(cells, from, s)[k] ELSE FF]

Room(f, s) == fds[f].cursor + Len(s) <= SectorSize

(* History: s has been written through a descriptor for inode i.           *)
Noted(i, s, lost) ==
    [written EXCEPT ![sb.inodes[i].name] = IF i \in lost THEN <<>> ELSE @ \o s]

Write(f, s) ==
    LET i == fds[f].inode
        start == sb.inodes[i].sector
        end == fds[f].cursor + Len(s)
        grows == end > sb.inodes[i].size
    IN  /\ Idle
        /\ fds[f].open /\ fds[f].writes
        /\ Room(f, s)
        /\ fds' = [fds EXCEPT ![f].cursor = end]
        /\ sb' = IF grows THEN [sb EXCEPT !.inodes[i].size = end] ELSE sb
        /\ todo' = <<Erase(start),
                     Program(start, Rewritten(sectors[start], fds[f].cursor, s))>>
                   \o IF grows THEN Sync(sb') ELSE <<>>
        /\ written' = Noted(i, s, forfeit)
        /\ UNCHANGED <<ready, disk, sectors, synced, forfeit>>

(* vfs_write when programming the data fails after k units: the sector has *)
(* been erased by then, the descriptor and the directory stay as they were.*)
WriteFails(f, s, k) ==
    LET i == fds[f].inode
        start == sb.inodes[i].sector
        torn == [j \in 1 .. SectorSize |->
                    IF j <= k THEN Rewritten(sectors[start], fds[f].cursor, s)[j] ELSE FF]
    IN  /\ Idle
        /\ fds[f].open /\ fds[f].writes
        /\ Room(f, s)
        /\ todo' = <<Erase(start), Program(start, torn)>>
        /\ forfeit' = forfeit \cup {i}
        /\ written' = Noted(i, s, forfeit')
        /\ UNCHANGED <<sb, fds, ready, disk, sectors, synced>>

(* vfs_read of up to k units; at the end of the file, and beyond, nothing. *)
Read(f, k) ==
    LET size == sb.inodes[fds[f].inode].size
    IN  /\ Idle
        /\ fds[f].open
        /\ fds[f].cursor < size
        /\ fds' = [fds EXCEPT ![f].cursor = Min({@ + k, size})]
        /\ UNCHANGED <<sb, ready, disk, sectors, todo, written, synced, forfeit>>

(* vfs_close.  Nothing reads the other fields of a closed descriptor.      *)
Close(f) ==
    /\ Idle
    /\ fds[f].open
    /\ fds' = [fds EXCEPT ![f] = ClosedFd]
    /\ UNCHANGED <<sb, ready, disk, sectors, todo, written, synced, forfeit>>

(* vfs_delete.  Nothing reads the other fields of an inode not in use.     *)
Delete(n) ==
    /\ Idle
    /\ \E i \in Find(n) :
          /\ i = Min(Find(n))
          /\ OpenOn(i) = {}
          /\ sb' = [sb EXCEPT !.inodes[i] = FreeInode, !.count = @ - 1]
          /\ todo' = <<Erase(sb.inodes[i].sector)>> \o Sync(sb')
    /\ written' = [written EXCEPT ![n] = <<>>]
    /\ UNCHANGED <<fds, ready, disk, sectors, synced, forfeit>>

Calls ==
    \/ \E n \in Names, m \in Modes : Open(n, m) \/ Create(n, m)
    \/ \E f \in Fds : Close(f) \/ Read(f, 1) \/ \E d \in Data :
          Write(f, <<d>>) \/ \E k \in {0, SectorSize} : WriteFails(f, <<d>>, k)
    \/ \E n \in Names : Delete(n)

Next ==
    \/ Mount
    \/ Execute
    \/ PowerFails
    \/ Calls /\ Cardinality(forfeit') <= MaxForfeit

Spec == Init /\ [][Next]_vars
-----------------------------------------------------------------------------
VfsTypeOK ==
    /\ sb \in Superblock /\ synced \in Superblock
    /\ fds \in [Fds -> [open : BOOLEAN, inode : Inodes, cursor : 0 .. SectorSize,
                        writes : BOOLEAN]]
    /\ ready \in BOOLEAN
    /\ disk \in Superblock
    /\ sectors \in [Sectors -> [1 .. SectorSize -> Cells]]
    /\ DOMAIN written = Names
    /\ forfeit \subseteq Inodes

(* The directory stays consistent through creations, deletions, power      *)
(* failures and reformatting: file_count is right, no two files share a    *)
(* name or a sector, and none uses the sector of the superblock.           *)
DirectorySound ==
    ready =>
        /\ sb.count = Cardinality(Used(sb))
        /\ \A i \in Used(sb) : sb.inodes[i].sector \in Sectors
        /\ \A i, j \in Used(sb) : i # j =>
              /\ sb.inodes[i].name # sb.inodes[j].name
              /\ sb.inodes[i].sector # sb.inodes[j].sector

(* When a call returns, the flash holds the directory that is in RAM.      *)
Synced == Idle => disk = sb

(* Between power failures every file reads back as what was written to it, *)
(* whatever happens to other files, misuse and failed writes included, and *)
(* to the inodes and sectors it used to share with deleted ones.           *)
ContentsKept ==
    Idle => \A i \in Used(sb) \ forfeit : Contents(sb, i) = written[sb.inodes[i].name]

(* A power failure costs at most the data of one file, the one the call it *)
(* interrupted was about, as long as the superblock survives: vfs_write    *)
(* erases no other sector than that of its file before it programs it.     *)
LossConfined ==
    [][~ready /\ ready' /\ disk.magic =>
         Cardinality({n \in Names : written'[n] # written[n]}
                       \ {sb.inodes[i].name : i \in forfeit}) <= 1]_vars

(* After a power failure the directory is the one before the call that was *)
(* interrupted, the one after it, or that of a fresh file system: no other *)
(* mixture is ever mounted, as long as sectors are programmed whole.       *)
MountRestores ==
    [][~ready /\ ready' => sb' \in {synced, sb, DefaultSb}]_vars

(* "If Sector 0 has corrupted magic or a failed CRC32, the VFS             *)
(* automatically reformats the partition" (docs/VFS.md:51): a superblock   *)
(* whose checksum fails is never in use.                                   *)
MountedIntact == ready => sb.intact
=============================================================================
