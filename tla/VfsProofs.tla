------------------------------ MODULE VfsProofs ------------------------------
(***************************************************************************)
(* The file system for every number of files, descriptors and units per    *)
(* sector, every set of names and of data, any sequence of calls, failed   *)
(* writes and power failures between two flash commands (Torn = FALSE: a   *)
(* sector programmed in part can make every property here fail, which the  *)
(* run vfs_torn shows of the superblock).                                  *)
(***************************************************************************)
EXTENDS Vfs, FiniteSetTheorems, WellFoundedInduction, SequenceTheorems, TLAPS

Image == [1 .. SectorSize -> Cells]
Block == [magic : BOOLEAN, count : Nat, inodes : [Inodes -> Inode], intact : BOOLEAN]

(* Superblock B with inode i replaced and the count of files set.          *)
Edit(B, i, inode, c) ==
    [magic |-> B.magic, count |-> c, inodes |-> [B.inodes EXCEPT ![i] = inode],
     intact |-> B.intact]

LEMMA Sizes ==
    /\ MaxFiles \in Nat /\ MaxFiles >= 2 /\ MaxOpen \in Nat /\ MaxOpen > 0
    /\ SectorSize \in Nat /\ SectorSize > 0
    /\ 0 \in Inodes /\ 1 \in Inodes /\ Inodes \subseteq Nat /\ Fds \subseteq Nat
    /\ 0 \notin Sectors /\ 1 \in Sectors /\ 2 \in Sectors
    /\ 0 \in 0 .. SectorSize
  BY VfsAssumption DEF Inodes, Fds, Sectors

LEMMA MinIn == ASSUME NEW S, S \subseteq Nat, S # {} PROVE Min(S) \in S
<1>1. PICK x \in S : \A y \in S : ~(<<y, x>> \in OpToRel(<, Nat))
  BY WFMin, NatLessThanWellFounded
<1>2. \A y \in S : x =< y
  <2> SUFFICES ASSUME NEW y \in S PROVE x =< y
    OBVIOUS
  <2>1. ~(y < x)
    BY <1>1 DEF OpToRel
  <2> QED
    BY <2>1
<1> QED
  BY <1>2 DEF Min

LEMMA EditsOf ==
    ASSUME NEW c, NEW d, NEW B \in [magic : BOOLEAN, count : {c}, inodes : {d},
                                    intact : BOOLEAN], NEW i, NEW e
    PROVE  /\ [B EXCEPT !.inodes = e]
                = [magic |-> B.magic, count |-> c, inodes |-> e, intact |-> B.intact]
           /\ [B EXCEPT !.count = e]
                = [magic |-> B.magic, count |-> e, inodes |-> d, intact |-> B.intact]
           /\ B.inodes = d /\ B.count = c
  OBVIOUS

LEMMA Edits ==
    ASSUME NEW B \in Block, NEW i \in Inodes, NEW z
    PROVE  /\ [B EXCEPT !.inodes[i].size = z]
                = Edit(B, i, [B.inodes[i] EXCEPT !.size = z], B.count)
           /\ [B EXCEPT !.count = @ + 1, !.inodes[i] = z] = Edit(B, i, z, B.count + 1)
           /\ [B EXCEPT !.inodes[i] = z, !.count = @ - 1] = Edit(B, i, z, B.count - 1)
<1> DEFINE Boxed(c, d) == [magic : BOOLEAN, count : {c}, inodes : {d}, intact : BOOLEAN]
<1>1. [B EXCEPT !.inodes[i].size = z] = Edit(B, i, [B.inodes[i] EXCEPT !.size = z], B.count)
  BY DEF Block, Edit
<1>2. B \in Boxed(B.count, B.inodes)
  BY DEF Block
<1>3. [B EXCEPT !.count = @ + 1, !.inodes[i] = z] = Edit(B, i, z, B.count + 1)
  <2> DEFINE X == [B EXCEPT !.count = @ + 1]
             e == [B.inodes EXCEPT ![i] = z]
  <2>1. X = [magic |-> B.magic, count |-> B.count + 1, inodes |-> B.inodes, intact |-> B.intact]
    BY <1>2, EditsOf
  <2>2. X \in Boxed(B.count + 1, B.inodes) /\ X.magic = B.magic /\ X.intact = B.intact
    <3> HIDE DEF X
    <3> QED
      BY <2>1, <1>2
  <2>3. [X EXCEPT !.inodes[i] = z] = [B EXCEPT !.count = @ + 1, !.inodes[i] = z]
    OBVIOUS
  <2> HIDE DEF X
  <2>4. X.inodes = B.inodes
    BY <2>2
  <2>5. [X EXCEPT !.inodes = e]
          = [magic |-> X.magic, count |-> B.count + 1, inodes |-> e, intact |-> X.intact]
    <3> HIDE DEF e
    <3> QED
      BY <2>2, EditsOf
  <2> QED
    BY <2>2, <2>3, <2>4, <2>5 DEF Edit
<1>4. [B EXCEPT !.inodes[i] = z, !.count = @ - 1] = Edit(B, i, z, B.count - 1)
  <2> DEFINE e == [B.inodes EXCEPT ![i] = z]
             X == [B EXCEPT !.inodes = e]
  <2>1. X = [magic |-> B.magic, count |-> B.count, inodes |-> e, intact |-> B.intact]
    <3> HIDE DEF e
    <3> QED
      BY <1>2, EditsOf
  <2>2. X \in Boxed(B.count, e) /\ X.magic = B.magic /\ X.intact = B.intact
    <3> HIDE DEF X, e
    <3> QED
      BY <2>1, <1>2
  <2>3. [X EXCEPT !.count = @ - 1] = [B EXCEPT !.inodes[i] = z, !.count = @ - 1]
    OBVIOUS
  <2> HIDE DEF X, e
  <2>4. X.count = B.count
    BY <2>2
  <2>5. [X EXCEPT !.count = B.count - 1]
          = [magic |-> X.magic, count |-> B.count - 1, inodes |-> e, intact |-> X.intact]
    BY <2>2, EditsOf
  <2> QED
    BY <2>2, <2>3, <2>4, <2>5 DEF Edit, e
<1> QED
  BY <1>1, <1>3, <1>4

(* The sectors the code gives to inode i: the one of a created file and,   *)
(* for the two default files, the one create_default_files uses.           *)
Own(i) == {3 + i} \cup {s \in {i + 1} : i < 2}

(* A directory vfs_init may mount and vfs_sync_superblock may store.       *)
Sound(B) ==
    /\ B \in Block /\ B.magic = TRUE
    /\ B.count = Cardinality(Used(B))
    /\ \A i \in Used(B) : B.inodes[i].name \in Names /\ B.inodes[i].sector \in Own(i)
    /\ \A i, j \in Used(B) : i # j => B.inodes[i].name # B.inodes[j].name

LEMMA Owners ==
    ASSUME NEW i \in Inodes
    PROVE  /\ Own(i) \subseteq Sectors /\ 0 \notin Own(i)
           /\ \A j \in Inodes \ {i} : Own(i) \cap Own(j) = {}
  BY VfsAssumption DEF Own, Inodes, Sectors

LEMMA UsedFinite ==
    ASSUME NEW B
    PROVE  Used(B) \subseteq Inodes /\ IsFiniteSet(Used(B)) /\ Cardinality(Used(B)) \in Nat
<1>1. IsFiniteSet(Inodes)
  BY Sizes, FS_Interval DEF Inodes
<1> QED
  BY <1>1, FS_Subset, FS_CardinalityType DEF Used

(* One inode changes as a creation, a deletion or a change of size does.   *)
Fits(B, i, inode, c) ==
    /\ inode.used = TRUE =>
          /\ inode.name \in Names /\ inode.sector \in Own(i)
          /\ \A j \in Used(B) \ {i} : B.inodes[j].name # inode.name
    /\ \/ i \in Used(B) /\ inode.used = TRUE /\ c = B.count
       \/ i \notin Used(B) /\ inode.used = TRUE /\ c = B.count + 1
       \/ i \in Used(B) /\ inode.used = FALSE /\ c = B.count - 1

Edited(E, B, i, inode) ==
    /\ Sound(E) /\ E.inodes[i] = inode
    /\ \A j \in Inodes \ {i} : E.inodes[j] = B.inodes[j]
    /\ inode.used = TRUE => Used(E) = Used(B) \cup {i}
    /\ inode.used = FALSE => Used(E) = Used(B) \ {i}

LEMMA EditSound ==
    ASSUME NEW B, Sound(B), NEW i \in Inodes, NEW inode \in Inode, NEW c,
           Fits(B, i, inode, c)
    PROVE  Edited(Edit(B, i, inode, c), B, i, inode)
<1>0. /\ inode.used = TRUE =>
            /\ inode.name \in Names /\ inode.sector \in Own(i)
            /\ \A j \in Used(B) \ {i} : B.inodes[j].name # inode.name
      /\ \/ i \in Used(B) /\ inode.used = TRUE /\ c = B.count
         \/ i \notin Used(B) /\ inode.used = TRUE /\ c = B.count + 1
         \/ i \in Used(B) /\ inode.used = FALSE /\ c = B.count - 1
  BY DEF Fits
<1> DEFINE E == Edit(B, i, inode, c)
<1>1. B \in Block /\ B.inodes \in [Inodes -> Inode] /\ B.count = Cardinality(Used(B))
  BY DEF Sound, Block
<1>2. /\ E.inodes = [B.inodes EXCEPT ![i] = inode] /\ E.count = c
      /\ E.magic = B.magic /\ E.intact = B.intact
      /\ E = [magic |-> E.magic, count |-> E.count, inodes |-> E.inodes, intact |-> E.intact]
  BY DEF Edit
<1> HIDE DEF E
<1>3. /\ E.inodes \in [Inodes -> Inode] /\ E.inodes[i] = inode
      /\ \A j \in Inodes \ {i} : E.inodes[j] = B.inodes[j]
  BY <1>1, <1>2
<1>4. Used(E) = IF inode.used THEN Used(B) \cup {i} ELSE Used(B) \ {i}
  BY <1>3 DEF Used
<1>5. c \in Nat /\ c = Cardinality(Used(E))
  <2>1. IsFiniteSet(Used(B)) /\ Cardinality(Used(B)) \in Nat
    BY UsedFinite
  <2>2. CASE i \in Used(B) /\ inode.used = TRUE /\ c = B.count
    <3>1. Used(E) = Used(B)
      BY <1>4, <2>2
    <3> QED
      BY <3>1, <1>1, <2>1, <2>2
  <2>3. CASE i \notin Used(B) /\ inode.used = TRUE /\ c = B.count + 1
    <3>1. Cardinality(Used(B) \cup {i}) = Cardinality(Used(B)) + 1
      BY <2>1, <2>3, FS_AddElement
    <3>2. Used(E) = Used(B) \cup {i}
      BY <1>4, <2>3
    <3> QED
      BY <3>1, <3>2, <1>1, <2>1, <2>3
  <2>4. CASE i \in Used(B) /\ inode.used = FALSE /\ c = B.count - 1
    <3>1. Cardinality(Used(B) \ {i}) = Cardinality(Used(B)) - 1
      BY <2>1, <2>4, FS_RemoveElement
    <3>2. Used(E) = Used(B) \ {i}
      BY <1>4, <2>4
    <3>3. Cardinality(Used(E)) \in Nat
      BY UsedFinite
    <3> QED
      BY <3>1, <3>2, <3>3, <1>1, <2>1, <2>4
  <2> QED
    BY <1>0, <2>2, <2>3, <2>4
<1>6. E \in Block /\ E.magic = TRUE
  <2>1. E.magic = TRUE /\ E.intact \in BOOLEAN
    BY <1>1, <1>2 DEF Sound, Block
  <2> QED
    BY <1>2, <1>3, <1>5, <2>1 DEF Block
<1>7. \A j \in Used(E) : E.inodes[j].name \in Names /\ E.inodes[j].sector \in Own(j)
  BY <1>0, <1>3, <1>4, UsedFinite DEF Sound
<1>8. \A j, k \in Used(E) : j # k => E.inodes[j].name # E.inodes[k].name
  BY <1>0, <1>3, <1>4, UsedFinite DEF Sound
<1>9. Sound(E)
  BY <1>2, <1>5, <1>6, <1>7, <1>8 DEF Sound
<1> QED
  BY <1>3, <1>4, <1>9 DEF E, Edited

LEMMA InodeIs ==
    ASSUME NEW n \in Names, NEW s \in Sectors \cup {0}, NEW z \in 0 .. SectorSize
    PROVE  [name |-> n, sector |-> s, size |-> z, used |-> TRUE] \in Inode
<1> DEFINE I == [name |-> n, sector |-> s, size |-> z, used |-> TRUE]
<1>1. I.name = n /\ I.sector = s /\ I.size = z /\ I.used = TRUE
      /\ I = [name |-> I.name, sector |-> I.sector, size |-> I.size, used |-> I.used]
  OBVIOUS
<1>2. n \in Names \cup {"?"}
  OBVIOUS
<1> HIDE DEF I
<1>3. I.used \in BOOLEAN
  BY <1>1
<1>4. I \in Inode
  BY <1>1, <1>2, <1>3, Zenon DEF Inode
<1> QED
  BY <1>4 DEF I

LEMMA DefaultSound ==
    /\ Sound(DefaultSb) /\ Used(DefaultSb) = {0, 1}
    /\ DefaultSb.inodes[0] = [name |-> "macro.txt", sector |-> 1, size |-> 1, used |-> TRUE]
    /\ DefaultSb.inodes[1] = [name |-> "wifi_audit.log", sector |-> 2, size |-> 0, used |-> TRUE]
    /\ DefaultMacro = <<DefaultMacro[1]>> /\ DefaultMacro[1] \in Data
<1>1. (CHOOSE d \in Data : TRUE) \in Data
  BY VfsAssumption
<1>2. DefaultMacro = <<DefaultMacro[1]>> /\ DefaultMacro[1] \in Data /\ Len(DefaultMacro) = 1
  BY <1>1 DEF DefaultMacro
<1>3. /\ DefaultSb.inodes[0] = [name |-> "macro.txt", sector |-> 1, size |-> 1, used |-> TRUE]
      /\ DefaultSb.inodes[1] = [name |-> "wifi_audit.log", sector |-> 2, size |-> 0, used |-> TRUE]
      /\ \A i \in Inodes \ {0, 1} : DefaultSb.inodes[i] = FreeInode
      /\ DefaultSb.magic = TRUE /\ DefaultSb.count = 2 /\ DefaultSb.intact = TRUE
  BY <1>2, Sizes DEF DefaultSb
<1>4. Used(DefaultSb) = {0, 1}
  <2>1. \A i \in Inodes \ {0, 1} : ~DefaultSb.inodes[i].used
    BY <1>3 DEF FreeInode
  <2>2. DefaultSb.inodes[0].used /\ DefaultSb.inodes[1].used
    BY <1>3
  <2> QED
    BY <2>1, <2>2, Sizes DEF Used
<1>5. Cardinality({0, 1}) = 2
  <2>1. IsFiniteSet({0}) /\ Cardinality({0}) = 1 /\ {0, 1} = {0} \cup {1}
    BY FS_Singleton
  <2> QED
    BY <2>1, FS_AddElement
<1>6. {"macro.txt", "wifi_audit.log"} \subseteq Names /\ {0, 1, 2} \subseteq Sectors \cup {0}
      /\ {0, 1} \subseteq 0 .. SectorSize /\ FreeInode \in Inode
  BY VfsAssumption DEF Sectors, FreeInode, Inode
<1>7. DefaultSb \in Block
  <2>1. \A i \in Inodes : DefaultSb.inodes[i] \in Inode
    <3>1. DefaultSb.inodes[0] \in Inode
      BY <1>3, <1>6, InodeIs
    <3>2. DefaultSb.inodes[1] \in Inode
      BY <1>3, <1>6, InodeIs
    <3> QED
      BY <1>3, <1>6, <3>1, <3>2
  <2>2. DefaultSb.inodes = [i \in Inodes |-> DefaultSb.inodes[i]]
    BY DEF DefaultSb
  <2>3. DefaultSb = [magic |-> DefaultSb.magic, count |-> DefaultSb.count,
                     inodes |-> DefaultSb.inodes, intact |-> DefaultSb.intact]
    BY DEF DefaultSb
  <2>4. DefaultSb.inodes \in [Inodes -> Inode]
    BY <2>1, <2>2
  <2>5. DefaultSb.magic \in BOOLEAN /\ DefaultSb.intact \in BOOLEAN /\ DefaultSb.count \in Nat
    <3>1. 2 \in Nat
      OBVIOUS
    <3> QED
      BY <1>3, <3>1, Zenon
  <2> QED
    BY <2>3, <2>4, <2>5, Zenon DEF Block
<1>8. 1 \in Own(0) /\ 2 \in Own(1)
  BY DEF Own
<1>9. "macro.txt" # "wifi_audit.log"
  OBVIOUS
<1> QED
  BY <1>2, <1>3, <1>4, <1>5, <1>6, <1>7, <1>8, <1>9 DEF Sound

-----------------------------------------------------------------------------
Cmd == [op : {"erase"}, sector : Sectors \cup {0}]
         \cup [op : {"program"}, sector : Sectors, image : Image]
         \cup [op : {"program"}, sector : {0}, image : Block]
Fd == [open : BOOLEAN, inode : Inodes, cursor : 0 .. SectorSize, writes : BOOLEAN]

FlashTypeOK ==
    /\ Sound(sb) /\ Sound(synced)
    /\ fds \in [Fds -> Fd]
    /\ ready \in BOOLEAN
    /\ sectors \in [Sectors -> Image]
    /\ todo \in Seq(Cmd)
    /\ written \in [Names -> Seq(Cells)]
    /\ forfeit \subseteq Inodes

(* What is in sector 0, and what the call in progress will leave there:    *)
(* the directory in RAM, as the last thing it does.                        *)
QueueOK ==
    /\ disk \in {Erased, synced, sb}
    /\ ~ready => todo = <<>>
    /\ \A k \in 1 .. Len(todo) : todo[k].sector = 0 => todo[k] \in {Erase(0), Program(0, sb)}
    /\ ready /\ todo # <<>> =>
         \/ todo[Len(todo)] = Program(0, sb)
         \/ disk = sb /\ \A k \in 1 .. Len(todo) : todo[k].sector # 0
    /\ Idle => disk = sb /\ synced = sb

(* A descriptor that writes to a file that is not forfeit is the only one  *)
(* and stands at its end: its next write appends.                          *)
FdsOK ==
    /\ ~ready => \A f \in Fds : ~fds[f].open
    /\ \A f \in Fds : fds[f].open => fds[f].inode \in Used(sb)
    /\ \A f \in Fds : fds[f].open /\ fds[f].writes /\ fds[f].inode \notin forfeit =>
          /\ fds[f].cursor = sb.inodes[fds[f].inode].size
          /\ \A g \in OpenOn(fds[f].inode) : fds[g].writes => g = f

(* v is what sector s will hold when the call in progress is done.         *)
Result(c) == IF c.op = "erase" THEN Blank ELSE c.image
Settled(s, v) ==
    \/ \E k \in 1 .. Len(todo) :
          /\ todo[k].sector = s /\ v = Result(todo[k])
          /\ \A j \in 1 .. Len(todo) : j > k => todo[j].sector # s
    \/ (\A k \in 1 .. Len(todo) : todo[k].sector # s) /\ v = sectors[s]

Kept(i) == \A v \in Image : Settled(sb.inodes[i].sector, v) =>
              [k \in 1 .. sb.inodes[i].size |-> v[k]] = written[sb.inodes[i].name]

FilesOK == ready =>
    /\ \A i \in Used(sb) \ forfeit : Kept(i)
    /\ \A n \in Names : Find(n) = {} => written[n] = <<>>

(* The call in progress, or the one a power failure has interrupted, is    *)
(* about one inode and one name, or it is the formatting of the flash,     *)
(* which stores a superblock as the last thing it does.                    *)
Confined(i0, n0) ==
    /\ \A i \in Inodes \ {i0} : sb.inodes[i] = synced.inodes[i]
    /\ i0 \in Used(sb) => sb.inodes[i0].name = n0
    /\ i0 \in Used(synced) => synced.inodes[i0].name = n0
    /\ \A k \in 1 .. Len(todo) : todo[k].sector \in Own(i0) \cup {0}
    /\ \A i \in Used(sb) \ (forfeit \cup {i0}) : Contents(sb, i) = written[sb.inodes[i].name]
    /\ \A n \in Names \ {n0} : Find(n) = {} => written[n] = <<>>

Blanked ==
    /\ disk = Erased
    /\ \A k \in 1 .. Len(todo) : k < Len(todo) /\ todo[k].sector = 0 => todo[k].op = "erase"

LossOK == ~Idle => Blanked \/ \E i0 \in Inodes, n0 \in Names : Confined(i0, n0)

VfsInv == FlashTypeOK /\ QueueOK /\ FdsOK /\ FilesOK /\ LossOK
-----------------------------------------------------------------------------
LEMMA NoUnits == \A v : [k \in 1 .. 0 |-> v[k]] = <<>>
<1> TAKE v
<1>1. [k \in 1 .. 0 |-> v[k]] \in [1 .. 0 -> {}]
  OBVIOUS
<1>2. [k \in 1 .. 0 |-> v[k]] \in Seq({})
  BY <1>1, SeqDef
<1>3. Len([k \in 1 .. 0 |-> v[k]]) = 0
  BY <1>1, LenProperties
<1> QED
  BY <1>2, <1>3, EmptySeq

LEMMA Units ==
    ASSUME NEW v \in Image, NEW z \in 0 .. SectorSize
    PROVE  /\ [k \in 1 .. z |-> v[k]] \in Seq(Cells)
           /\ Len([k \in 1 .. z |-> v[k]]) = z
<1> DEFINE w == [k \in 1 .. z |-> v[k]]
<1>1. z \in Nat /\ w \in [1 .. z -> Cells]
  BY Sizes DEF Image
<1> HIDE DEF w
<1>2. w \in Seq(Cells) /\ Len(w) = z
  BY <1>1, SeqDef, LenProperties
<1> QED
  BY <1>2 DEF w

LEMMA BlankImage == Blank \in Image /\ FF \in Cells
  BY DEF Blank, Image, Cells, FF

LEMMA OverlayImage ==
    ASSUME NEW v \in Image, NEW z \in Nat, NEW d \in Data
    PROVE  /\ Overlay(v, z, <<d>>) \in Image
           /\ \A k \in 1 .. SectorSize : k # z + 1 => Overlay(v, z, <<d>>)[k] = v[k]
           /\ z + 1 \in 1 .. SectorSize => Overlay(v, z, <<d>>)[z + 1] = d
<1>1. Len(<<d>>) = 1 /\ <<d>>[1] = d /\ d \in Cells
  BY DEF Cells
<1>2. \A k \in 1 .. SectorSize : k \in (z + 1) .. (z + 1) <=> k = z + 1
  OBVIOUS
<1>3. z + 1 - z = 1
  OBVIOUS
<1>4. Overlay(v, z, <<d>>) = [k \in 1 .. SectorSize |-> IF k = z + 1 THEN d ELSE v[k]]
  BY <1>1, <1>2, <1>3 DEF Overlay
<1> QED
  BY <1>1, <1>4 DEF Image

LEMMA RewrittenImage ==
    ASSUME NEW v \in Image, NEW z \in Nat, NEW d \in Data
    PROVE  /\ Rewritten(v, z, <<d>>) \in Image
           /\ z + 1 \in 1 .. SectorSize =>
                [k \in 1 .. (z + 1) |-> Rewritten(v, z, <<d>>)[k]]
                  = [k \in 1 .. z |-> v[k]] \o <<d>>
<1> DEFINE o == Overlay(v, z, <<d>>)
           r == Rewritten(v, z, <<d>>)
           w == [k \in 1 .. z |-> v[k]]
<1>1. r = [k \in 1 .. SectorSize |-> IF k <= z + 1 THEN o[k] ELSE FF]
  <2>1. Len(<<d>>) = 1
    OBVIOUS
  <2> QED
    BY <2>1 DEF Rewritten
<1>2. /\ o \in Image /\ \A k \in 1 .. SectorSize : k # z + 1 => o[k] = v[k]
      /\ z + 1 \in 1 .. SectorSize => o[z + 1] = d
  BY OverlayImage
<1> HIDE DEF r, o
<1>3. r \in Image
  BY <1>1, <1>2, BlankImage DEF Image
<1>4. ASSUME z + 1 \in 1 .. SectorSize
      PROVE  [k \in 1 .. (z + 1) |-> r[k]] = w \o <<d>>
  <2>1. z \in 0 .. SectorSize /\ SectorSize \in Nat
    BY <1>4, Sizes
  <2>2. w \in Seq(Cells) /\ Len(w) = z /\ \A k \in 1 .. z : w[k] = v[k]
    BY <2>1, Units
  <2> HIDE DEF w
  <2>3. w \o <<d>> = [k \in 1 .. (z + 1) |-> IF k <= z THEN w[k] ELSE d]
    <3>1. Len(<<d>>) = 1 /\ <<d>> \in Seq({d}) /\ <<d>>[1] = d
      OBVIOUS
    <3>2. w \o <<d>> = [k \in 1 .. (z + 1) |-> IF k <= z THEN w[k] ELSE <<d>>[k - z]]
      BY <2>2, <3>1
    <3>3. \A k \in 1 .. (z + 1) : ~(k <= z) => k - z = 1
      OBVIOUS
    <3> QED
      BY <3>1, <3>2, <3>3
  <2>4. \A k \in 1 .. (z + 1) : r[k] = IF k <= z THEN w[k] ELSE d
    <3> SUFFICES ASSUME NEW k \in 1 .. (z + 1) PROVE r[k] = IF k <= z THEN w[k] ELSE d
      OBVIOUS
    <3>1. k \in 1 .. SectorSize /\ k <= z + 1
      BY <1>4, <2>1
    <3>2. r[k] = o[k]
      BY <3>1, <1>1
    <3>3. CASE k <= z
      BY <3>1, <3>2, <3>3, <1>2, <2>2
    <3>4. CASE ~(k <= z)
      <4>1. k = z + 1
        BY <3>4
      <4> QED
        BY <4>1, <3>2, <3>4, <1>2, <1>4
    <3> QED
      BY <3>3, <3>4
  <2> QED
    BY <2>3, <2>4
<1> QED
  BY <1>3, <1>4 DEF r, w

-----------------------------------------------------------------------------
(* The flash commands of a call on sector s that stores superblock B, or   *)
(* none.                                                                   *)
Plan(t, s, B) ==
    /\ t \in Seq(Cmd) /\ Len(t) \in Nat /\ Len(t) > 0
    /\ \A k \in 1 .. Len(t) : t[k].sector \in {s, 0}
    /\ \A k \in 1 .. Len(t) : t[k].sector = 0 => t[k] \in {Erase(0), Program(0, B)}

Stores(t, B) == t[Len(t)] = Program(0, B)
DataOnly(t) == \A k \in 1 .. Len(t) : t[k].sector # 0

LEMMA Commands ==
    /\ \A s \in Sectors \cup {0} : Erase(s) \in Cmd /\ Erase(s).sector = s /\ Erase(s).op = "erase"
    /\ \A s \in Sectors, v \in Image :
          Program(s, v) \in Cmd /\ Program(s, v).sector = s /\ Result(Program(s, v)) = v
    /\ \A B \in Block : Program(0, B) \in Cmd /\ Program(0, B).sector = 0
  BY DEF Erase, Program, Cmd, Result

LEMMA HeadTail ==
    ASSUME NEW S, NEW t \in Seq(S), t # <<>>
    PROVE  /\ Len(t) \in Nat /\ Len(t) > 0
           /\ Head(t) = t[1] /\ Head(t) \in S
           /\ Tail(t) \in Seq(S) /\ Len(Tail(t)) = Len(t) - 1
           /\ \A k \in 1 .. Len(Tail(t)) : k + 1 \in 1 .. Len(t) /\ Tail(t)[k] = t[k + 1]
           /\ (Tail(t) = <<>> <=> Len(t) = 1)
<1>1. /\ Len(t) \in Nat /\ Len(t) > 0
      /\ Head(t) = t[1] /\ Head(t) \in S
      /\ Tail(t) \in Seq(S) /\ Len(Tail(t)) = Len(t) - 1
      /\ \A k \in 1 .. Len(Tail(t)) : k + 1 \in 1 .. Len(t) /\ Tail(t)[k] = t[k + 1]
  BY HeadTailProperties, EmptySeq, LenProperties
<1>2. Tail(t) = <<>> <=> Len(Tail(t)) = 0
  BY <1>1, EmptySeq
<1> QED
  BY <1>1, <1>2

Joined(r, x, y) ==
    /\ Len(r) = Len(x) + Len(y)
    /\ \A i \in 1 .. Len(x) : r[i] = x[i]
    /\ \A i \in 1 .. Len(y) : r[Len(x) + i] = y[i]

LEMMA Join ==
    ASSUME NEW S, NEW x \in Seq(S), NEW y \in Seq(S)
    PROVE  x \o y \in Seq(S) /\ Joined(x \o y, x, y)
<1>1. Len(x) \in Nat /\ Len(y) \in Nat
  BY LenProperties
<1>2. \A i \in 1 .. Len(y) : /\ Len(x) + i \in 1 .. Len(x) + Len(y)
                             /\ ~(Len(x) + i <= Len(x)) /\ Len(x) + i - Len(x) = i
  BY <1>1
<1>3. \A i \in 1 .. Len(x) : i \in 1 .. Len(x) + Len(y) /\ i <= Len(x)
  BY <1>1
<1> QED
  BY <1>2, <1>3, ConcatProperties DEF Joined

LEMMA DirectoryPlans ==
    ASSUME NEW s \in Sectors, NEW B \in Block, NEW t,
           t = <<Erase(s)>> \o Sync(B) \/ t = <<Erase(s)>> \o Sync(B) \o (<<Erase(s)>> \o Sync(B))
    PROVE  Plan(t, s, B) /\ Stores(t, B)
<1> DEFINE a == Erase(s)
           b == Erase(0)
           c == Program(0, B)
<1>1. /\ a \in Cmd /\ b \in Cmd /\ c \in Cmd
      /\ a.sector = s /\ b.sector = 0 /\ c.sector = 0 /\ s # 0
  BY Commands, Sizes
<1>2. Sync(B) = <<b, c>>
  BY DEF Sync
<1>3. b = Erase(0) /\ c = Program(0, B)
  OBVIOUS
<1>4. t = <<a>> \o <<b, c>> \/ t = (<<a>> \o <<b, c>>) \o (<<a>> \o <<b, c>>)
  BY <1>2
<1> HIDE DEF a, b, c
<1> DEFINE u == <<a>> \o <<b, c>>
<1>5. u \in Seq(Cmd) /\ Len(u) = 3 /\ u[1] = a /\ u[2] = b /\ u[3] = c
  <2>1. <<a>> \in Seq(Cmd) /\ <<b, c>> \in Seq(Cmd) /\ Len(<<a>>) = 1 /\ Len(<<b, c>>) = 2
    BY <1>1
  <2> QED
    BY <2>1, ConcatProperties
<1> HIDE DEF u
<1>6. CASE t = u
  <2>1. \A k \in 1 .. 3 : t[k] \in {a, b, c}
    BY <1>5, <1>6
  <2>2. t \in Seq(Cmd) /\ Len(t) = 3 /\ t[3] = c
    BY <1>5, <1>6
  <2> QED
    BY <1>1, <1>3, <2>1, <2>2 DEF Plan, Stores
<1>7. CASE t = u \o u
  <2>1. t \in Seq(Cmd) /\ Len(t) = 6 /\ t[1] = a /\ t[2] = b /\ t[3] = c
        /\ t[4] = a /\ t[5] = b /\ t[6] = c
    <3>1. t \in Seq(Cmd) /\ Joined(t, u, u)
      BY <1>5, <1>7, Join
    <3>2. t[3 + 1] = a /\ t[3 + 2] = b /\ t[3 + 3] = c /\ t[1] = a /\ t[2] = b /\ t[3] = c
      BY <1>5, <3>1 DEF Joined
    <3> QED
      BY <1>5, <3>1, <3>2 DEF Joined
  <2>2. \A k \in 1 .. 6 : t[k] \in {a, b, c}
    BY <2>1
  <2> QED
    BY <1>1, <1>3, <2>1, <2>2 DEF Plan, Stores
<1> QED
  BY <1>4, <1>6, <1>7 DEF u

(* Sector s is programmed with v, and the superblock stored if that is what *)
(* t is to do.                                                             *)
Rewrites(t, s, v, B) ==
    /\ Plan(t, s, B)
    /\ t = <<Erase(s), Program(s, v)>> \o Sync(B) => Stores(t, B)
    /\ t = <<Erase(s), Program(s, v)>> \o <<>> => DataOnly(t)
    /\ t = <<Erase(s), Program(s, v)>> => DataOnly(t)
    /\ 2 \in 1 .. Len(t) /\ t[2].sector = s /\ Result(t[2]) = v
    /\ \A k \in 1 .. Len(t) : t[k].sector = s => k <= 2

LEMMA DataPlans ==
    ASSUME NEW s \in Sectors, NEW v \in Image, NEW B \in Block, NEW t,
           \/ t = <<Erase(s), Program(s, v)>>
           \/ t = <<Erase(s), Program(s, v)>> \o <<>>
           \/ t = <<Erase(s), Program(s, v)>> \o Sync(B)
    PROVE  Rewrites(t, s, v, B)
<1> DEFINE a == Erase(s)
           b == Erase(0)
           c == Program(0, B)
           p == Program(s, v)
<1>1. /\ a \in Cmd /\ b \in Cmd /\ c \in Cmd /\ p \in Cmd /\ Result(p) = v
      /\ a.sector = s /\ b.sector = 0 /\ c.sector = 0 /\ p.sector = s /\ s # 0
  BY Commands, Sizes
<1>2. Sync(B) = <<b, c>>
  BY DEF Sync
<1>3. b = Erase(0) /\ c = Program(0, B) /\ a = Erase(s) /\ p = Program(s, v)
  OBVIOUS
<1> HIDE DEF a, b, c, p
<1> DEFINE x == <<a, p>>
           y == <<b, c>>
<1>4. /\ x \in Seq(Cmd) /\ Len(x) = 2 /\ x[1] = a /\ x[2] = p
      /\ y \in Seq(Cmd) /\ Len(y) = 2 /\ y[1] = b /\ y[2] = c
  BY <1>1
<1>5. Sync(B) = y
  BY <1>2
<1> HIDE DEF x, y
<1> DEFINE r == x \o y
<1>6. r \in Seq(Cmd) /\ Len(r) = 4 /\ r[1] = a /\ r[2] = p /\ r[3] = b /\ r[4] = c
  <2>1. r \in Seq(Cmd) /\ Joined(r, x, y)
    BY <1>4, Join
  <2> HIDE DEF r
  <2>2. r[1] = a /\ r[2] = p /\ r[2 + 1] = b /\ r[2 + 2] = c
    BY <1>4, <2>1 DEF Joined
  <2> QED
    BY <1>4, <2>1, <2>2 DEF Joined
<1>7. x \o <<>> = x /\ x # x \o y
  BY <1>4, <1>6, ConcatEmptySeq
<1>8. CASE t = x
  <2>1. \A k \in 1 .. 2 : t[k] \in {a, p}
    BY <1>4, <1>8
  <2>2. t \in Seq(Cmd) /\ Len(t) = 2 /\ t[2] = p
    BY <1>4, <1>8
  <2>3. Plan(t, s, B) /\ DataOnly(t)
    BY <1>1, <1>3, <2>1, <2>2 DEF Plan, DataOnly
  <2>4. t # <<Erase(s), Program(s, v)>> \o Sync(B)
    BY <1>3, <1>5, <1>7, <1>8 DEF x
  <2>5. \A k \in 1 .. Len(t) : t[k].sector = s => k <= 2
    BY <2>2
  <2> QED
    BY <1>1, <2>2, <2>3, <2>4, <2>5 DEF Rewrites
<1>9. CASE t = x \o y
  <2>1. \A k \in 1 .. 4 : t[k] \in {a, p, b, c}
    BY <1>6, <1>9
  <2>2. \A k \in 1 .. 4 : k > 2 => t[k] \in {b, c}
    BY <1>6, <1>9
  <2>3. t \in Seq(Cmd) /\ Len(t) = 4 /\ t[1] = a /\ t[2] = p /\ t[4] = c
    BY <1>6, <1>9
  <2>4. Plan(t, s, B) /\ Stores(t, B)
    BY <1>1, <1>3, <2>1, <2>3 DEF Plan, Stores
  <2>5. t # <<Erase(s), Program(s, v)>> \o <<>> /\ t # <<Erase(s), Program(s, v)>>
    BY <1>3, <1>7, <1>9 DEF x
  <2>6. \A k \in 1 .. Len(t) : t[k].sector = s => k <= 2
    <3> SUFFICES ASSUME NEW k \in 1 .. 4, ~(k <= 2) PROVE t[k].sector # s
      BY <2>3
    <3>1. k > 2
      OBVIOUS
    <3> QED
      BY <1>1, <2>2, <3>1
  <2> QED
    <3>1. 2 \in 1 .. Len(t) /\ t[2].sector = s /\ Result(t[2]) = v
      BY <1>1, <2>3
    <3> QED
      BY <2>4, <2>5, <2>6, <3>1, Zenon DEF Rewrites
<1> QED
  BY <1>3, <1>5, <1>7, <1>8, <1>9 DEF x

-----------------------------------------------------------------------------
LEMMA SettledIdle == todo = <<>> => \A s, v : Settled(s, v) <=> v = sectors[s]
<1> SUFFICES ASSUME todo = <<>>, NEW s, NEW v PROVE Settled(s, v) <=> v = sectors[s]
  OBVIOUS
<1>1. \A k : k \notin 1 .. Len(todo)
  BY EmptySeq
<1> QED
  BY <1>1 DEF Settled

LEMMA ReadBack ==
    ASSUME FlashTypeOK, NEW i \in Used(sb)
    PROVE  /\ sb.inodes[i].name \in Names /\ sb.inodes[i].sector \in Sectors
           /\ sb.inodes[i].sector \in Own(i) /\ i \in Inodes /\ sb.inodes[i] \in Inode
           /\ sectors[sb.inodes[i].sector] \in Image
           /\ Contents(sb, i) = [k \in 1 .. sb.inodes[i].size |-> sectors[sb.inodes[i].sector][k]]
<1>1. sb.inodes[i].name \in Names /\ sb.inodes[i].sector \in Own(i) /\ i \in Inodes
      /\ sb.inodes[i] \in Inode
  BY DEF FlashTypeOK, Sound, Used, Block
<1>2. sb.inodes[i].sector \in Sectors
  BY <1>1, Owners
<1> QED
  BY <1>1, <1>2 DEF FlashTypeOK, Contents

LEMMA IdleKept ==
    ASSUME VfsInv, Idle, NEW i \in Used(sb) \ forfeit
    PROVE  [k \in 1 .. sb.inodes[i].size |-> sectors[sb.inodes[i].sector][k]]
              = written[sb.inodes[i].name]
<1>1. FlashTypeOK /\ FilesOK /\ todo = <<>> /\ ready
  BY DEF VfsInv, Idle
<1>2. Settled(sb.inodes[i].sector, sectors[sb.inodes[i].sector])
  BY <1>1, SettledIdle
<1>3. sectors[sb.inodes[i].sector] \in Image
  BY <1>1, ReadBack
<1> QED
  BY <1>1, <1>2, <1>3 DEF FilesOK, Kept

(* A call that gives the flash nothing to do.                              *)
LEMMA QuietKeeps ==
    ASSUME VfsInv, Idle, sb' = sb, todo' = <<>>, synced' = sb,
           UNCHANGED <<ready, disk, sectors>>,
           fds' \in [Fds -> Fd], FdsOK', written' \in [Names -> Seq(Cells)],
           forfeit' \subseteq Inodes,
           \A i \in Used(sb) \ forfeit' :
              i \notin forfeit /\ written'[sb.inodes[i].name] = written[sb.inodes[i].name],
           \A n \in Names : Find(n) = {} => written'[n] = <<>>
    PROVE  VfsInv'
<1>1. todo = <<>> /\ ready
  BY DEF Idle
<1>2. \A k : k \notin 1 .. Len(todo')
  BY EmptySeq
<1>3. <<>> \in Seq(Cmd)
  OBVIOUS
<1>4. FlashTypeOK'
  BY <1>3 DEF VfsInv, FlashTypeOK
<1>5. disk = sb /\ synced = sb
  BY DEF VfsInv, QueueOK
<1>6. QueueOK' /\ LossOK'
  BY <1>1, <1>2, <1>5 DEF QueueOK, LossOK, Idle
<1>7. \A s, v : Settled(s, v)' <=> v = sectors[s]
  <2>1. (todo = <<>> => \A s, v : Settled(s, v) <=> v = sectors[s])'
    BY SettledIdle, PTL
  <2> QED
    BY <2>1
<1>8. \A s, v : Settled(s, v) <=> v = sectors[s]
  BY <1>1, SettledIdle
<1>9. \A i \in Used(sb) \ forfeit' : Kept(i)'
  BY <1>1, <1>7, <1>8 DEF VfsInv, FilesOK, Kept, Used
<1>10. FilesOK'
  BY <1>9 DEF FilesOK, Used, Find
<1> QED
  BY <1>4, <1>6, <1>10 DEF VfsInv

(* A call about inode i0, named n0, that keeps the flash busy: whatever    *)
(* it does, the files of the other inodes do not notice.                   *)
LEMMA BusyKeeps ==
    ASSUME VfsInv, Idle, NEW i0 \in Inodes, NEW n0 \in Names, NEW s \in Own(i0),
           Sound(sb'), \A i \in Inodes \ {i0} : sb'.inodes[i] = sb.inodes[i],
           i0 \in Used(sb) \/ i0 \in Used(sb'),
           i0 \in Used(sb) => sb.inodes[i0].name = n0,
           i0 \in Used(sb') => sb'.inodes[i0].name = n0,
           Plan(todo', s, sb'),
           Stores(todo', sb') \/ (sb' = sb /\ DataOnly(todo')),
           UNCHANGED <<ready, disk, sectors, synced>>,
           fds' \in [Fds -> Fd], FdsOK', written' \in [Names -> Seq(Cells)],
           \A n \in Names \ {n0} : written'[n] = written[n],
           forfeit' \subseteq Inodes,
           \A i \in Inodes \ {i0} : i \in forfeit' <=> i \in forfeit,
           i0 \in Used(sb') \ forfeit' => Kept(i0)',
           i0 \notin Used(sb') => written'[n0] = <<>>
    PROVE  VfsInv'
<1>1. todo = <<>> /\ ready /\ disk = sb /\ synced = sb
  BY DEF Idle, VfsInv, QueueOK
<1>2. FlashTypeOK /\ FilesOK
  BY DEF VfsInv
<1>3. /\ todo' \in Seq(Cmd) /\ Len(todo') \in Nat /\ Len(todo') > 0
      /\ \A k \in 1 .. Len(todo') : todo'[k].sector \in {s, 0}
  BY DEF Plan
<1>4. todo' # <<>>
  BY <1>3, EmptySeq
<1>5. FlashTypeOK'
  BY <1>2, <1>3 DEF FlashTypeOK
<1>6. QueueOK'
  <2>1. \A k \in 1 .. Len(todo') : todo'[k].sector = 0 => todo'[k] \in {Erase(0), Program(0, sb')}
    BY DEF Plan
  <2>2. todo'[Len(todo')] = Program(0, sb')
        \/ (disk' = sb' /\ \A k \in 1 .. Len(todo') : todo'[k].sector # 0)
    BY <1>1 DEF Stores, DataOnly
  <2> QED
    BY <1>1, <1>4, <2>1, <2>2 DEF QueueOK, Idle
<1>7. \A i \in Inodes \ {i0} : i \in Used(sb') <=> i \in Used(sb)
  BY DEF Used
<1>8. \A i \in Used(sb') \ {i0} :
         /\ i \in Used(sb) /\ sb'.inodes[i] = sb.inodes[i] /\ i \in Inodes
         /\ sb.inodes[i].name # n0
  <2> SUFFICES ASSUME NEW i \in Used(sb') \ {i0}
               PROVE  /\ i \in Used(sb) /\ sb'.inodes[i] = sb.inodes[i] /\ i \in Inodes
                      /\ sb.inodes[i].name # n0
    OBVIOUS
  <2>1. i \in Inodes
    BY DEF Used
  <2>2. i \in Used(sb) /\ sb'.inodes[i] = sb.inodes[i]
    BY <1>7, <2>1
  <2>3. CASE i0 \in Used(sb)
    <3>1. \A j, k \in Used(sb) : j # k => sb.inodes[j].name # sb.inodes[k].name
      BY <1>2 DEF FlashTypeOK, Sound
    <3> QED
      BY <2>1, <2>2, <2>3, <3>1
  <2>4. CASE i0 \in Used(sb')
    <3>1. \A j, k \in Used(sb') : j # k => sb'.inodes[j].name # sb'.inodes[k].name
      BY DEF Sound
    <3> QED
      BY <2>1, <2>2, <2>4, <3>1
  <2> QED
    BY <2>1, <2>2, <2>3, <2>4
<1>9. \A i \in Used(sb') \ {i0} :
         /\ sb.inodes[i].name \in Names /\ sb.inodes[i].sector \in Sectors
         /\ sb.inodes[i].sector \notin {s, 0}
         /\ sectors[sb.inodes[i].sector] \in Image
         /\ Contents(sb, i) = [k \in 1 .. sb.inodes[i].size |-> sectors[sb.inodes[i].sector][k]]
  <2> SUFFICES ASSUME NEW i \in Used(sb') \ {i0}
               PROVE  /\ sb.inodes[i].name \in Names /\ sb.inodes[i].sector \in Sectors
                      /\ sb.inodes[i].sector \notin {s, 0}
                      /\ sectors[sb.inodes[i].sector] \in Image
                      /\ Contents(sb, i)
                           = [k \in 1 .. sb.inodes[i].size |-> sectors[sb.inodes[i].sector][k]]
    OBVIOUS
  <2>1. i \in Used(sb) /\ i \in Inodes
    BY <1>8
  <2>2. sb.inodes[i].sector \in Own(i)
    BY <1>2, <2>1, ReadBack
  <2>3. s \notin Own(i) /\ 0 \notin Own(i)
    BY <2>1, Owners
  <2> QED
    BY <1>2, <2>1, <2>2, <2>3, ReadBack
<1>10. \A i \in Used(sb) \ forfeit :
          [k \in 1 .. sb.inodes[i].size |-> sectors[sb.inodes[i].sector][k]]
             = written[sb.inodes[i].name]
  BY IdleKept
<1>11. \A n \in Names \ {n0} : Find(n)' = {} => written'[n] = <<>>
  <2> SUFFICES ASSUME NEW n \in Names \ {n0}, Find(n)' = {} PROVE written'[n] = <<>>
    OBVIOUS
  <2>1. Find(n) = {}
    <3> SUFFICES ASSUME NEW i \in Used(sb), sb.inodes[i].name = n PROVE FALSE
      BY DEF Find
    <3>1. i # i0 /\ i \in Inodes
      BY DEF Used
    <3>2. i \in Used(sb') /\ sb'.inodes[i].name = n
      BY <1>7, <3>1
    <3> QED
      BY <3>2 DEF Find, Used
  <2> QED
    BY <1>1, <1>2, <2>1 DEF FilesOK
<1>12. FilesOK'
  <2>1. ASSUME NEW i \in Used(sb') \ forfeit', i # i0 PROVE Kept(i)'
    <3>1. /\ i \in Used(sb) /\ sb'.inodes[i] = sb.inodes[i] /\ i \notin forfeit
          /\ written'[sb.inodes[i].name] = written[sb.inodes[i].name]
      BY <1>8, <1>9, <2>1
    <3>2. ASSUME NEW v, Settled(sb.inodes[i].sector, v)' PROVE v = sectors[sb.inodes[i].sector]
      <4>1. sb.inodes[i].sector \notin {s, 0}
        BY <1>9, <2>1
      <4>2. \A k \in 1 .. Len(todo') : todo'[k].sector # sb.inodes[i].sector
        BY <1>3, <4>1
      <4> QED
        BY <3>1, <3>2, <4>2 DEF Settled
    <3> QED
      BY <1>10, <3>1, <3>2 DEF Kept
  <2>2. Find(n0)' = {} => written'[n0] = <<>>
    BY DEF Find, Used
  <2> QED
    BY <1>11, <2>1, <2>2 DEF FilesOK, Used
<1>13. Confined(i0, n0)'
  <2>1. \A k \in 1 .. Len(todo') : todo'[k].sector \in Own(i0) \cup {0}
    BY <1>3
  <2>2. ASSUME NEW i \in Used(sb') \ (forfeit' \cup {i0})
        PROVE  Contents(sb, i)' = written'[sb'.inodes[i].name]
    <3>1. /\ i \in Used(sb) /\ sb'.inodes[i] = sb.inodes[i] /\ i \notin forfeit
          /\ written'[sb.inodes[i].name] = written[sb.inodes[i].name]
      BY <1>8, <1>9, <2>2
    <3>2. Contents(sb, i)' = Contents(sb, i)
      BY <3>1 DEF Contents
    <3> QED
      BY <1>9, <1>10, <2>2, <3>1, <3>2
  <2> QED
    BY <1>1, <1>11, <2>1, <2>2 DEF Confined, Used
<1> QED
  BY <1>5, <1>6, <1>12, <1>13 DEF VfsInv, LossOK

-----------------------------------------------------------------------------
LEMMA ExecuteKeeps == ASSUME VfsInv, Execute PROVE VfsInv'
<1> DEFINE h == todo[1]
<1>1. /\ Len(todo) \in Nat /\ Len(todo) > 0 /\ h = Head(todo) /\ h \in Cmd
      /\ todo' = Tail(todo) /\ todo' \in Seq(Cmd) /\ Len(todo') = Len(todo) - 1
      /\ \A k \in 1 .. Len(todo') : k + 1 \in 1 .. Len(todo) /\ todo'[k] = todo[k + 1]
      /\ (todo' = <<>> <=> Len(todo) = 1)
  BY HeadTail DEF Execute, VfsInv, FlashTypeOK
<1>2. /\ ready /\ todo # <<>> /\ ~Idle
      /\ UNCHANGED <<sb, fds, ready, written, forfeit>>
      /\ synced' = IF todo' = <<>> THEN sb ELSE synced
      /\ Len(todo') \in Nat /\ 1 \in 1 .. Len(todo)
  BY <1>1 DEF Execute, Idle
<1>3. /\ FlashTypeOK /\ QueueOK /\ FdsOK /\ FilesOK /\ LossOK
  BY DEF VfsInv
<1>4. h.sector = 0 => /\ disk' = (IF h.op = "erase" THEN Erased ELSE sb) /\ sectors' = sectors
                      /\ h.op # "erase" => h = Program(0, sb)
  <2>1. h.sector = 0 => h \in {Erase(0), Program(0, sb)}
    BY <1>2, <1>3 DEF QueueOK
  <2>2. Erase(0).op = "erase" /\ Program(0, sb).op # "erase" /\ Program(0, sb).image = sb
    BY DEF Erase, Program
  <2> QED
    BY <1>1, <2>1, <2>2 DEF Execute
<1>5. h.sector # 0 => /\ h.sector \in Sectors /\ Result(h) \in Image /\ disk' = disk
                      /\ sectors' = [sectors EXCEPT ![h.sector] = Result(h)]
  <2>1. h.sector # 0 => h.sector \in Sectors /\ Result(h) \in Image
    BY <1>1, BlankImage DEF Cmd, Result
  <2> QED
    BY <1>1, <2>1 DEF Execute, Result
<1> HIDE DEF h
<1>6. FlashTypeOK'
  <2>1. sectors' \in [Sectors -> Image]
    BY <1>3, <1>4, <1>5 DEF FlashTypeOK
  <2>2. Sound(synced)'
    BY <1>2, <1>3 DEF FlashTypeOK
  <2> QED
    BY <1>1, <1>2, <1>3, <2>1, <2>2 DEF FlashTypeOK
<1>7. todo' = <<>> => disk' = sb
  <2> SUFFICES ASSUME todo' = <<>> PROVE disk' = sb
    OBVIOUS
  <2>1. Len(todo) = 1
    BY <1>1
  <2>2. CASE todo[Len(todo)] = Program(0, sb)
    <3>1. Program(0, sb).op # "erase" /\ Program(0, sb).sector = 0
      BY DEF Program
    <3> QED
      BY <1>4, <2>1, <2>2, <3>1 DEF h
  <2>3. CASE disk = sb /\ \A k \in 1 .. Len(todo) : todo[k].sector # 0
    BY <1>2, <1>5, <2>3 DEF h
  <2> QED
    BY <1>2, <1>3, <2>2, <2>3 DEF QueueOK
<1>8. QueueOK'
  <2>1. disk' \in {Erased, synced', sb'}
    BY <1>2, <1>3, <1>4, <1>5, <1>7 DEF QueueOK
  <2>2. \A k \in 1 .. Len(todo') : todo'[k].sector = 0 => todo'[k] \in {Erase(0), Program(0, sb)}
    BY <1>1, <1>3 DEF QueueOK
  <2>3. ASSUME todo' # <<>>
        PROVE  \/ todo'[Len(todo')] = Program(0, sb)
               \/ disk' = sb /\ \A k \in 1 .. Len(todo') : todo'[k].sector # 0
    <3>1. Len(todo') \in 1 .. Len(todo') /\ Len(todo') + 1 = Len(todo)
      BY <1>1, <1>2, <2>3
    <3>2. todo'[Len(todo')] = todo[Len(todo)]
      BY <1>1, <3>1
    <3>3. CASE todo[Len(todo)] = Program(0, sb)
      BY <3>2, <3>3
    <3>4. CASE disk = sb /\ \A k \in 1 .. Len(todo) : todo[k].sector # 0
      BY <1>1, <1>2, <1>5, <3>4 DEF h
    <3> QED
      BY <1>2, <1>3, <3>3, <3>4 DEF QueueOK
  <2> QED
    BY <1>2, <1>7, <2>1, <2>2, <2>3 DEF QueueOK, Idle
<1>9. FdsOK'
  BY <1>2, <1>3 DEF FdsOK, Used, OpenOn
<1>10. ASSUME NEW s \in Sectors, NEW v, Settled(s, v)' PROVE Settled(s, v)
  <2>1. CASE \E k \in 1 .. Len(todo') :
                /\ todo'[k].sector = s /\ v = Result(todo'[k])
                /\ \A j \in 1 .. Len(todo') : j > k => todo'[j].sector # s
    <3>1. PICK k \in 1 .. Len(todo') :
                /\ todo'[k].sector = s /\ v = Result(todo'[k])
                /\ \A j \in 1 .. Len(todo') : j > k => todo'[j].sector # s
      BY <2>1
    <3>2. k + 1 \in 1 .. Len(todo) /\ todo[k + 1].sector = s /\ v = Result(todo[k + 1])
      BY <1>1, <3>1
    <3>3. ASSUME NEW j \in 1 .. Len(todo), j > k + 1 PROVE todo[j].sector # s
      <4>1. j - 1 \in 1 .. Len(todo') /\ j - 1 > k /\ (j - 1) + 1 = j
        BY <1>1, <1>2, <3>3
      <4>2. todo'[j - 1] = todo[j]
        BY <1>1, <4>1
      <4> QED
        BY <3>1, <4>1, <4>2
    <3> QED
      BY <3>2, <3>3 DEF Settled
  <2>2. CASE (\A k \in 1 .. Len(todo') : todo'[k].sector # s) /\ v = sectors'[s]
    <3>1. ASSUME NEW j \in 1 .. Len(todo), j > 1 PROVE todo[j].sector # s
      <4>1. j - 1 \in 1 .. Len(todo') /\ (j - 1) + 1 = j
        BY <1>1, <1>2, <3>1
      <4> QED
        BY <1>1, <2>2, <4>1
    <3>2. CASE h.sector = s
      <4>1. v = Result(h)
        BY <1>3, <1>5, <2>2, <3>2, Sizes DEF FlashTypeOK
      <4> QED
        BY <1>2, <3>1, <3>2, <4>1 DEF Settled, h
    <3>3. CASE h.sector # s
      <4>1. v = sectors[s]
        BY <1>3, <1>4, <1>5, <2>2, <3>3 DEF FlashTypeOK
      <4>2. \A k \in 1 .. Len(todo) : todo[k].sector # s
        <5>1. \A k \in 1 .. Len(todo) : k = 1 \/ k > 1
          BY <1>1
        <5> QED
          BY <3>1, <3>3, <5>1 DEF h
      <4> QED
        BY <4>1, <4>2 DEF Settled
    <3> QED
      BY <3>2, <3>3
  <2> QED
    BY <1>10, <2>1, <2>2 DEF Settled
<1>11. FilesOK'
  <2>1. ASSUME NEW i \in Used(sb) \ forfeit PROVE Kept(i)'
    <3>1. Kept(i) /\ sb.inodes[i].sector \in Sectors
      BY <1>2, <1>3, ReadBack DEF FilesOK
    <3> QED
      BY <1>2, <1>10, <3>1 DEF Kept
  <2> QED
    BY <1>2, <1>3, <2>1 DEF FilesOK, Used, Find
<1>12. LossOK'
  <2> SUFFICES ASSUME todo' # <<>>
               PROVE  Blanked' \/ \E i0 \in Inodes, n0 \in Names : Confined(i0, n0)'
    BY <1>2 DEF LossOK, Idle
  <2>1. synced' = synced
    BY <1>2
  <2>2. CASE Blanked
    <3>1. \A k \in 1 .. Len(todo') : k < Len(todo') /\ todo'[k].sector = 0 => todo'[k].op = "erase"
      <4> SUFFICES ASSUME NEW k \in 1 .. Len(todo'), k < Len(todo'), todo'[k].sector = 0
                   PROVE  todo'[k].op = "erase"
        OBVIOUS
      <4>1. k + 1 \in 1 .. Len(todo) /\ k + 1 < Len(todo) /\ todo'[k] = todo[k + 1]
        BY <1>1, <1>2
      <4> QED
        BY <2>2, <4>1 DEF Blanked
    <3>2. 1 < Len(todo)
      BY <1>1
    <3>3. h.sector = 0 => h.op = "erase"
      BY <1>2, <2>2, <3>2 DEF Blanked, h
    <3>4. disk' = Erased
      BY <1>4, <1>5, <2>2, <3>3 DEF Blanked
    <3> QED
      BY <3>1, <3>4 DEF Blanked
  <2>3. ASSUME NEW i0 \in Inodes, NEW n0 \in Names, Confined(i0, n0) PROVE Confined(i0, n0)'
    <3>1. \A k \in 1 .. Len(todo') : todo'[k].sector \in Own(i0) \cup {0}
      BY <1>1, <2>3 DEF Confined
    <3>2. h.sector \in Own(i0) \cup {0}
      BY <1>2, <2>3 DEF Confined, h
    <3>3. ASSUME NEW i \in Used(sb) \ (forfeit \cup {i0})
          PROVE  Contents(sb, i)' = written[sb.inodes[i].name]
      <4>1. sb.inodes[i].sector \in Own(i) /\ sb.inodes[i].sector \in Sectors /\ i \in Inodes
        BY <1>3, <3>3, ReadBack
      <4>2. sb.inodes[i].sector # h.sector
        BY <3>2, <3>3, <4>1, Owners
      <4>3. sectors'[sb.inodes[i].sector] = sectors[sb.inodes[i].sector]
        BY <1>3, <1>4, <1>5, <4>1, <4>2 DEF FlashTypeOK
      <4>4. Contents(sb, i) = written[sb.inodes[i].name]
        BY <2>3, <3>3 DEF Confined
      <4> QED
        BY <1>2, <4>3, <4>4 DEF Contents
    <3> QED
      BY <1>2, <2>1, <2>3, <3>1, <3>3 DEF Confined, Used, Find
  <2> QED
    BY <1>2, <1>3, <2>2, <2>3 DEF LossOK
<1> QED
  BY <1>6, <1>8, <1>9, <1>11, <1>12 DEF VfsInv

(* Between two calls nothing is at stake.                                  *)
LEMMA IdleConfined ==
    ASSUME VfsInv, Idle PROVE \E i0 \in Inodes, n0 \in Names : Confined(i0, n0)
<1>1. todo = <<>> /\ ready /\ synced = sb /\ FlashTypeOK /\ FilesOK
  BY DEF Idle, VfsInv, QueueOK
<1>2. 0 \in Inodes /\ "macro.txt" \in Names
  BY Sizes, VfsAssumption
<1>3. PICK n0 \in Names : 0 \in Used(sb) => sb.inodes[0].name = n0
  BY <1>1, <1>2, ReadBack
<1>4. \A k : k \notin 1 .. Len(todo)
  BY <1>1, EmptySeq
<1>5. ASSUME NEW i \in Used(sb) \ forfeit PROVE Contents(sb, i) = written[sb.inodes[i].name]
  BY <1>1, IdleKept, ReadBack
<1>6. Confined(0, n0)
  BY <1>1, <1>3, <1>4, <1>5 DEF Confined, FilesOK
<1> QED
  BY <1>2, <1>6

LEMMA PowerFailsKeeps == ASSUME Torn = FALSE, VfsInv, PowerFails PROVE VfsInv'
<1>1. /\ ready' = FALSE /\ todo' = <<>> /\ fds' = [f \in Fds |-> ClosedFd]
      /\ UNCHANGED <<disk, sectors, sb, written, synced, forfeit>>
  BY DEF PowerFails
<1>2. FlashTypeOK /\ QueueOK /\ LossOK
  BY DEF VfsInv
<1>3. \A k : k \notin 1 .. Len(todo')
  BY <1>1, EmptySeq
<1>4. ClosedFd \in Fd /\ ~ClosedFd.open
  BY Sizes DEF ClosedFd, Fd
<1>5. FlashTypeOK'
  <2>1. <<>> \in Seq(Cmd) /\ FALSE \in BOOLEAN
    OBVIOUS
  <2>2. fds' \in [Fds -> Fd]
    BY <1>1, <1>4
  <2> QED
    BY <1>1, <1>2, <2>1, <2>2 DEF FlashTypeOK
<1>6. QueueOK' /\ FdsOK' /\ FilesOK'
  <2>1. \A f \in Fds : ~fds'[f].open
    BY <1>1, <1>4
  <2>2. FdsOK'
    BY <2>1 DEF FdsOK
  <2>3. QueueOK' /\ FilesOK'
    BY <1>1, <1>2, <1>3 DEF QueueOK, FilesOK, Idle
  <2> QED
    BY <2>2, <2>3
<1>7. LossOK'
  <2>1. ASSUME NEW i0 \in Inodes, NEW n0 \in Names, Confined(i0, n0) PROVE Confined(i0, n0)'
    <3>1. \A i : Contents(sb, i)' = Contents(sb, i)
      BY <1>1 DEF Contents
    <3> QED
      BY <1>1, <1>3, <2>1, <3>1 DEF Confined, Used, Find
  <2>2. Blanked => Blanked'
    BY <1>1, <1>3 DEF Blanked
  <2>3. Blanked \/ \E i0 \in Inodes, n0 \in Names : Confined(i0, n0)
    BY <1>2, IdleConfined DEF LossOK
  <2> QED
    BY <2>1, <2>2, <2>3 DEF LossOK
<1> QED
  BY <1>5, <1>6, <1>7 DEF VfsInv

(* The flash commands of a format.                                         *)
LEMMA FormatPlan ==
    /\ Format \in Seq(Cmd) /\ Len(Format) = 5
    /\ Format[1].sector = 1 /\ Format[2].sector = 1 /\ Format[3].sector = 2
    /\ Format[4] = Erase(0) /\ Format[5] = Program(0, DefaultSb)
    /\ Result(Format[2]) = Overlay(Blank, 0, DefaultMacro)
<1> DEFINE v == Overlay(Blank, 0, DefaultMacro)
           a == Erase(1)
           p == Program(1, v)
           e == Erase(2)
           b == Erase(0)
           c == Program(0, DefaultSb)
<1>1. v \in Image
  BY DefaultSound, BlankImage, OverlayImage
<1>2. /\ a \in Cmd /\ p \in Cmd /\ e \in Cmd /\ b \in Cmd /\ c \in Cmd
      /\ a.sector = 1 /\ p.sector = 1 /\ e.sector = 2 /\ Result(p) = v
  <2>1. DefaultSb \in Block
    BY DefaultSound DEF Sound
  <2> HIDE DEF v
  <2> QED
    BY <1>1, <2>1, Commands, Sizes
<1> DEFINE x == <<a, p, e>>
           y == <<b, c>>
<1>3. Format = x \o y
  BY DEF Format, Sync
<1>4. b = Erase(0) /\ c = Program(0, DefaultSb)
  OBVIOUS
<1> HIDE DEF a, p, e, b, c
<1>5. /\ x \in Seq(Cmd) /\ Len(x) = 3 /\ x[1] = a /\ x[2] = p /\ x[3] = e
      /\ y \in Seq(Cmd) /\ Len(y) = 2 /\ y[1] = b /\ y[2] = c
  BY <1>2
<1> HIDE DEF x, y
<1>6. Format \in Seq(Cmd) /\ Joined(Format, x, y)
  BY <1>3, <1>5, Join
<1>7. /\ Len(Format) = 5 /\ Format[1] = a /\ Format[2] = p /\ Format[3] = e
      /\ Format[3 + 1] = b /\ Format[3 + 2] = c
  BY <1>5, <1>6 DEF Joined
<1> HIDE DEF v
<1> QED
  BY <1>2, <1>4, <1>6, <1>7 DEF v

LEMMA MountedFile ==
    ASSUME NEW B, Sound(B), sectors \in [Sectors -> Image], NEW i \in Used(B)
    PROVE  /\ B.inodes[i].name \in Names /\ B.inodes[i].sector \in Sectors
           /\ Contents(B, i) = [k \in 1 .. B.inodes[i].size |-> sectors[B.inodes[i].sector][k]]
           /\ Contents(B, i) \in Seq(Cells)
           /\ (CHOOSE j \in Used(B) : B.inodes[j].name = B.inodes[i].name) = i
<1>1. /\ i \in Inodes /\ B.inodes[i].name \in Names /\ B.inodes[i].sector \in Own(i)
      /\ \A j, k \in Used(B) : j # k => B.inodes[j].name # B.inodes[k].name
      /\ B.inodes \in [Inodes -> Inode]
  BY DEF Sound, Used, Block
<1>2. B.inodes[i].sector \in Sectors /\ B.inodes[i].size \in 0 .. SectorSize
  <2>1. B.inodes[i] \in Inode
    BY <1>1
  <2>2. B.inodes[i].size \in 0 .. SectorSize
    BY <2>1 DEF Inode
  <2> QED
    BY <1>1, <2>2, Owners
<1>3. Contents(B, i) = [k \in 1 .. B.inodes[i].size |-> sectors[B.inodes[i].sector][k]]
  BY <1>2 DEF Contents
<1>4. Contents(B, i) \in Seq(Cells)
  BY <1>2, <1>3, Units
<1> QED
  BY <1>1, <1>2, <1>3, <1>4

LEMMA MountedKeeps == ASSUME VfsInv, Mount, disk.magic PROVE VfsInv'
<1>1. /\ ~ready /\ ready' = TRUE /\ sb' = disk /\ todo' = <<>> /\ synced' = disk
      /\ fds' = [f \in Fds |-> ClosedFd] /\ forfeit' = {} /\ UNCHANGED <<disk, sectors>>
      /\ written' = [n \in Names |->
             IF \E i \in Used(disk) : disk.inodes[i].name = n
             THEN Contents(disk, CHOOSE i \in Used(disk) : disk.inodes[i].name = n)
             ELSE <<>>]
  BY DEF Mount, Mounted
<1>2. FlashTypeOK /\ QueueOK
  BY DEF VfsInv
<1>3. Sound(disk) /\ sectors \in [Sectors -> Image]
  <2>1. ~Erased.magic
    BY DEF Erased
  <2> QED
    BY <1>2, <2>1 DEF FlashTypeOK, QueueOK
<1>4. ClosedFd \in Fd /\ ~ClosedFd.open
  BY Sizes DEF ClosedFd, Fd
<1>5. ASSUME NEW i \in Used(disk)
      PROVE  /\ disk.inodes[i].name \in Names
             /\ Contents(disk, i) \in Seq(Cells)
             /\ written'[disk.inodes[i].name] = Contents(disk, i)
  BY <1>1, <1>3, MountedFile
<1>6. FlashTypeOK'
  <2>1. written' \in [Names -> Seq(Cells)]
    <3>1. ASSUME NEW n \in Names PROVE written'[n] \in Seq(Cells)
      <4>1. CASE \E i \in Used(disk) : disk.inodes[i].name = n
        BY <1>5, <4>1
      <4>2. CASE ~\E i \in Used(disk) : disk.inodes[i].name = n
        <5>1. written'[n] = <<>>
          BY <1>1, <4>2
        <5> QED
          BY <5>1
      <4> QED
        BY <4>1, <4>2
    <3>2. written' = [n \in Names |-> written'[n]]
      BY <1>1
    <3> QED
      BY <3>1, <3>2
  <2>2. fds' \in [Fds -> Fd]
    BY <1>1, <1>4
  <2>3. <<>> \in Seq(Cmd) /\ TRUE \in BOOLEAN
    OBVIOUS
  <2> QED
    BY <1>1, <1>3, <2>1, <2>2, <2>3 DEF FlashTypeOK
<1>7. QueueOK' /\ FdsOK' /\ LossOK'
  <2>1. \A k : k \notin 1 .. Len(todo')
    BY <1>1, EmptySeq
  <2>2. Idle'
    BY <1>1 DEF Idle
  <2>3. \A f \in Fds : ~fds'[f].open
    BY <1>1, <1>4
  <2>4. FdsOK'
    BY <2>3 DEF FdsOK
  <2> QED
    BY <1>1, <2>1, <2>2, <2>4 DEF QueueOK, LossOK
<1>8. FilesOK'
  <2>1. \A s, v : Settled(s, v)' <=> v = sectors'[s]
    <3>1. (todo = <<>> => \A s, v : Settled(s, v) <=> v = sectors[s])'
      BY SettledIdle, PTL
    <3> QED
      BY <1>1, <3>1
  <2>2. ASSUME NEW i \in Used(disk) PROVE Kept(i)'
    <3>1. Contents(disk, i) = [k \in 1 .. disk.inodes[i].size |-> sectors[disk.inodes[i].sector][k]]
      BY <1>3, MountedFile
    <3>2. written'[disk.inodes[i].name] = Contents(disk, i)
      BY <1>5
    <3> QED
      BY <1>1, <2>1, <3>1, <3>2 DEF Kept
  <2>3. ASSUME NEW n \in Names, Find(n)' = {} PROVE written'[n] = <<>>
    <3>1. ~\E i \in Used(disk) : disk.inodes[i].name = n
      BY <1>1, <2>3 DEF Find
    <3> QED
      BY <1>1, <3>1
  <2> QED
    BY <1>1, <2>2, <2>3 DEF FilesOK
<1> QED
  BY <1>6, <1>7, <1>8 DEF VfsInv

LEMMA FormattedKeeps == ASSUME VfsInv, Mount, ~disk.magic PROVE VfsInv'
<1>1. /\ ~ready /\ ready' = TRUE /\ sb' = DefaultSb /\ todo' = Format
      /\ fds' = [f \in Fds |-> ClosedFd] /\ forfeit' = {} /\ UNCHANGED <<disk, sectors>>
      /\ written' = [n \in Names |-> IF n = "macro.txt" THEN DefaultMacro ELSE <<>>]
      /\ synced' = IF todo' = <<>> THEN sb' ELSE synced
  BY DEF Mount, Formatted
<1>2. FlashTypeOK /\ QueueOK
  BY DEF VfsInv
<1>3. disk = Erased
  BY <1>2 DEF FlashTypeOK, QueueOK, Sound
<1>4. todo' \in Seq(Cmd) /\ Len(todo') = 5 /\ todo' # <<>> /\ synced' = synced
  <2>1. Format # <<>>
    <3>1. Len(<<>>) = 0 /\ Len(Format) = 5
      BY FormatPlan
    <3> QED
      BY <3>1
  <2> QED
    BY <1>1, <2>1, FormatPlan
<1>5. /\ todo'[1].sector = 1 /\ todo'[2].sector = 1 /\ todo'[3].sector = 2
      /\ todo'[4] = Erase(0) /\ todo'[5] = Program(0, DefaultSb)
      /\ todo'[4].sector = 0 /\ todo'[5].sector = 0 /\ todo'[4].op = "erase"
      /\ Result(todo'[2]) = Overlay(Blank, 0, DefaultMacro)
  BY <1>1, FormatPlan DEF Erase, Program
<1>6. ClosedFd \in Fd /\ ~ClosedFd.open
  BY Sizes DEF ClosedFd, Fd
<1>7. \A k \in 1 .. 5 : k \in {1, 2, 3, 4, 5}
  OBVIOUS
<1>8. FlashTypeOK'
  <2>1. DefaultMacro \in Seq(Cells)
    <3>1. DefaultMacro[1] \in Cells
      BY DefaultSound DEF Cells
    <3>2. <<DefaultMacro[1]>> \in Seq(Cells)
      BY <3>1
    <3> QED
      BY <3>2, DefaultSound
  <2>2. <<>> \in Seq(Cells)
    OBVIOUS
  <2>3. written' \in [Names -> Seq(Cells)]
    BY <1>1, <2>1, <2>2
  <2>4. fds' \in [Fds -> Fd] /\ TRUE \in BOOLEAN
    BY <1>1, <1>6
  <2> QED
    BY <1>1, <1>2, <1>4, <2>3, <2>4, DefaultSound DEF FlashTypeOK
<1>9. QueueOK'
  <2>1. \A k \in 1 .. Len(todo') : todo'[k].sector = 0 => todo'[k] \in {Erase(0), Program(0, sb')}
    BY <1>1, <1>4, <1>5, <1>7
  <2> QED
    BY <1>1, <1>3, <1>4, <1>5, <2>1 DEF QueueOK, Idle
<1>10. FdsOK'
  <2>1. \A f \in Fds : ~fds'[f].open
    BY <1>1, <1>6
  <2> QED
    BY <2>1 DEF FdsOK
<1>11. FilesOK'
  <2>1. Kept(0)'
    <3>1. sb'.inodes[0].sector = 1 /\ sb'.inodes[0].size = 1 /\ sb'.inodes[0].name = "macro.txt"
      BY <1>1, DefaultSound
    <3>2. written'["macro.txt"] = DefaultMacro
      BY <1>1, VfsAssumption
    <3>3. ASSUME NEW v, Settled(1, v)' PROVE v = Overlay(Blank, 0, DefaultMacro)
      <4>1. ASSUME NEW k \in 1 .. 5, todo'[k].sector = 1,
                   \A j \in 1 .. 5 : j > k => todo'[j].sector # 1
            PROVE  k = 2
        <5>1. ~(2 > k)
          BY <1>5, <4>1
        <5> QED
          BY <1>5, <1>7, <4>1, <5>1
      <4>2. 1 \in 1 .. 5
        OBVIOUS
      <4> QED
        BY <1>4, <1>5, <3>3, <4>1, <4>2 DEF Settled
    <3>4. [k \in 1 .. 1 |-> Overlay(Blank, 0, DefaultMacro)[k]] = DefaultMacro
      <4>1. Overlay(Blank, 0, DefaultMacro)[0 + 1] = DefaultMacro[1]
        BY DefaultSound, BlankImage, OverlayImage, Sizes
      <4>2. [k \in 1 .. 1 |-> Overlay(Blank, 0, DefaultMacro)[k]] = <<DefaultMacro[1]>>
        BY <4>1
      <4> QED
        BY <4>2, DefaultSound
    <3> QED
      BY <3>1, <3>2, <3>3, <3>4 DEF Kept
  <2>2. Kept(1)'
    <3>1. sb'.inodes[1].size = 0 /\ sb'.inodes[1].name = "wifi_audit.log"
      BY <1>1, DefaultSound
    <3>2. written'["wifi_audit.log"] = <<>>
      BY <1>1, VfsAssumption
    <3> QED
      BY <3>1, <3>2, NoUnits DEF Kept
  <2>3. ASSUME NEW n \in Names, Find(n)' = {} PROVE written'[n] = <<>>
    <3>1. 0 \in Used(sb') /\ sb'.inodes[0].name = "macro.txt"
      BY <1>1, DefaultSound
    <3>2. n # "macro.txt"
      BY <2>3, <3>1 DEF Find, Used
    <3> QED
      BY <1>1, <3>2
  <2>4. Used(sb') = {0, 1}
    BY <1>1, DefaultSound
  <2> QED
    BY <2>1, <2>2, <2>3, <2>4 DEF FilesOK, Used
<1>12. LossOK'
  <2>1. Blanked'
    BY <1>1, <1>3, <1>4, <1>5, <1>7 DEF Blanked
  <2> QED
    BY <2>1 DEF LossOK
<1> QED
  BY <1>8, <1>9, <1>10, <1>11, <1>12 DEF VfsInv

LEMMA InitKeeps == ASSUME Init PROVE VfsInv
<1>1. /\ sb = DefaultSb /\ synced = DefaultSb /\ fds = [f \in Fds |-> ClosedFd]
      /\ ready = FALSE /\ disk = Erased /\ sectors = [s \in Sectors |-> Blank]
      /\ todo = <<>> /\ written = [n \in Names |-> <<>>] /\ forfeit = {}
  BY DEF Init
<1>2. \A k : k \notin 1 .. Len(todo)
  BY <1>1, EmptySeq
<1>3. ClosedFd \in Fd /\ ~ClosedFd.open
  BY Sizes DEF ClosedFd, Fd
<1>4. FlashTypeOK
  <2>1. <<>> \in Seq(Cmd) /\ <<>> \in Seq(Cells) /\ FALSE \in BOOLEAN
    OBVIOUS
  <2>2. fds \in [Fds -> Fd] /\ sectors \in [Sectors -> Image] /\ written \in [Names -> Seq(Cells)]
    BY <1>1, <1>3, <2>1, BlankImage
  <2> QED
    BY <1>1, <2>1, <2>2, DefaultSound DEF FlashTypeOK
<1>5. FdsOK
  <2>1. \A f \in Fds : ~fds[f].open
    BY <1>1, <1>3
  <2> QED
    BY <2>1 DEF FdsOK
<1>6. QueueOK /\ FilesOK /\ LossOK
  BY <1>1, <1>2 DEF QueueOK, FilesOK, LossOK, Blanked, Idle
<1> QED
  BY <1>4, <1>5, <1>6 DEF VfsInv

-----------------------------------------------------------------------------
(* The descriptors after a call that opens none.                           *)
LEMMA FdsStay ==
    ASSUME VfsInv, Idle, ready' = ready, fds' = fds,
           \A i \in Used(sb) : OpenOn(i) # {} =>
              /\ i \in Used(sb')
              /\ i \notin forfeit' => /\ i \notin forfeit
                                      /\ sb'.inodes[i].size = sb.inodes[i].size
    PROVE  fds' \in [Fds -> Fd] /\ FdsOK'
<1>1. fds \in [Fds -> Fd] /\ FdsOK /\ ready
  BY DEF VfsInv, FlashTypeOK, Idle
<1>2. \A f \in Fds : fds[f].open => /\ fds[f].inode \in Used(sb)
                                    /\ f \in OpenOn(fds[f].inode)
  BY <1>1 DEF FdsOK, OpenOn
<1>3. \A f \in Fds : fds[f].open => fds[f].inode \in Used(sb')
  BY <1>2
<1>4. ASSUME NEW f \in Fds, fds[f].open, fds[f].writes, fds[f].inode \notin forfeit'
      PROVE  /\ fds[f].cursor = sb'.inodes[fds[f].inode].size
             /\ \A g \in OpenOn(fds[f].inode) : fds[g].writes => g = f
  <2>1. fds[f].inode \notin forfeit
        /\ sb'.inodes[fds[f].inode].size = sb.inodes[fds[f].inode].size
    BY <1>2, <1>4
  <2> QED
    BY <1>1, <1>4, <2>1 DEF FdsOK
<1> QED
  BY <1>1, <1>3, <1>4 DEF FdsOK, OpenOn, Used

(* The descriptors after a call that opens file i as descriptor g.         *)
LEMMA FdsTaken ==
    ASSUME VfsInv, Idle, ready' = ready, NEW i \in Inodes, NEW g \in FreeFds,
           NEW c \in 0 .. SectorSize, NEW w \in BOOLEAN,
           fds' = [fds EXCEPT ![g] = [open |-> TRUE, inode |-> i, writes |-> w, cursor |-> c]],
           i \in Used(sb'),
           \A j \in Used(sb) \ {i} : /\ j \in Used(sb')
                                     /\ sb'.inodes[j].size = sb.inodes[j].size
                                     /\ j \notin forfeit' => j \notin forfeit,
           i \notin forfeit' =>
              /\ w => c = sb'.inodes[i].size
              /\ \A f \in OpenOn(i) : fds[f].writes =>
                    /\ ~w /\ i \notin forfeit
                    /\ sb'.inodes[i].size = sb.inodes[i].size
    PROVE  fds' \in [Fds -> Fd] /\ FdsOK'
<1> DEFINE new == [open |-> TRUE, inode |-> i, writes |-> w, cursor |-> c]
<1>1. fds \in [Fds -> Fd] /\ FdsOK /\ ready /\ g \in Fds /\ ~fds[g].open
  BY DEF VfsInv, FlashTypeOK, Idle, FreeFds
<1>2. new.open = TRUE /\ new.inode = i /\ new.writes = w /\ new.cursor = c /\ new \in Fd
  <2>1. TRUE \in BOOLEAN
    OBVIOUS
  <2> QED
    BY <2>1, Zenon DEF Fd
<1> HIDE DEF new
<1>3. fds' = [fds EXCEPT ![g] = new]
  BY DEF new
<1>4. fds' \in [Fds -> Fd]
  BY <1>1, <1>2, <1>3
<1>5. fds'[g] = new /\ \A f \in Fds \ {g} : fds'[f] = fds[f]
  BY <1>1, <1>3
<1>6. \A f \in Fds : fds'[f].open => fds'[f].inode \in Used(sb')
  BY <1>1, <1>2, <1>5 DEF FdsOK
<1>7. ASSUME NEW f \in Fds, fds'[f].open, fds'[f].writes, fds'[f].inode \notin forfeit'
      PROVE  fds'[f].cursor = sb'.inodes[fds'[f].inode].size
  <2>1. CASE f = g
    BY <1>2, <1>5, <1>7, <2>1
  <2>2. CASE f # g
    <3>1. fds'[f] = fds[f] /\ f \in OpenOn(fds[f].inode) /\ fds[f].inode \in Used(sb)
      BY <1>1, <1>5, <1>7, <2>2 DEF FdsOK, OpenOn
    <3>2. fds[f].inode \notin forfeit
          /\ sb'.inodes[fds[f].inode].size = sb.inodes[fds[f].inode].size
      <4>1. CASE fds[f].inode = i
        BY <1>7, <3>1, <4>1
      <4>2. CASE fds[f].inode # i
        BY <1>7, <3>1, <4>2
      <4> QED
        BY <4>1, <4>2
    <3> QED
      BY <1>1, <1>7, <3>1, <3>2 DEF FdsOK
  <2> QED
    BY <2>1, <2>2
<1>8. ASSUME NEW f \in Fds, fds'[f].open, fds'[f].writes, fds'[f].inode \notin forfeit',
             NEW h \in Fds, fds'[h].open, fds'[h].inode = fds'[f].inode, fds'[h].writes
      PROVE  h = f
  <2>1. CASE f # g /\ h # g
    <3>1. fds'[f] = fds[f] /\ fds'[h] = fds[h]
      BY <1>5, <2>1
    <3>2. f \in OpenOn(fds[f].inode) /\ h \in OpenOn(fds[f].inode) /\ fds[f].inode \in Used(sb)
      BY <1>1, <1>8, <3>1 DEF FdsOK, OpenOn
    <3>3. fds[f].inode \notin forfeit
      <4>1. CASE fds[f].inode = i
        BY <1>8, <3>1, <3>2, <4>1
      <4>2. CASE fds[f].inode # i
        BY <1>8, <3>1, <3>2, <4>2
      <4> QED
        BY <4>1, <4>2
    <3> QED
      BY <1>1, <1>8, <3>1, <3>2, <3>3 DEF FdsOK
  <2>2. ASSUME NEW x \in Fds, x # g, fds'[x].open, fds'[x].inode = i, fds'[x].writes,
               w, i \notin forfeit'
        PROVE  FALSE
    <3>1. fds'[x] = fds[x]
      BY <1>5, <2>2
    <3>2. x \in OpenOn(i) /\ fds[x].writes
      BY <2>2, <3>1 DEF OpenOn
    <3> QED
      BY <2>2, <3>2
  <2>3. CASE f = g /\ h # g
    BY <1>2, <1>5, <1>8, <2>2, <2>3
  <2>4. CASE f # g /\ h = g
    BY <1>2, <1>5, <1>8, <2>2, <2>4
  <2> QED
    BY <2>1, <2>3, <2>4
<1> QED
  BY <1>1, <1>4, <1>6, <1>7, <1>8 DEF FdsOK, OpenOn

-----------------------------------------------------------------------------
LEMMA FdType ==
    ASSUME FlashTypeOK, NEW f \in Fds
    PROVE  /\ fds[f].inode \in Inodes /\ fds[f].cursor \in 0 .. SectorSize
           /\ fds[f].cursor \in Nat /\ fds[f].writes \in BOOLEAN
  BY Sizes DEF FlashTypeOK, Fd

LEMMA FoundIs ==
    ASSUME FlashTypeOK, NEW n \in Names, NEW i \in Find(n)
    PROVE  /\ i \in Used(sb) /\ i \in Inodes /\ sb.inodes[i].name = n
           /\ \A j \in Used(sb) \ {i} : sb.inodes[j].name # n
           /\ \A m \in Names \ {n} : i \notin Find(m)
  BY DEF FlashTypeOK, Sound, Find, Used

LEMMA MinFree == FreeFds # {} => Min(FreeFds) \in FreeFds
  BY MinIn, Sizes DEF FreeFds

LEMMA CloseKeeps == ASSUME VfsInv, NEW f \in Fds, Close(f) PROVE VfsInv'
<1>1. /\ Idle /\ fds[f].open /\ fds' = [fds EXCEPT ![f] = ClosedFd]
      /\ UNCHANGED <<sb, ready, disk, sectors, todo, written, synced, forfeit>>
  BY DEF Close
<1>2. /\ todo = <<>> /\ synced = sb /\ fds \in [Fds -> Fd] /\ FdsOK /\ FilesOK /\ ready
      /\ written \in [Names -> Seq(Cells)] /\ forfeit \subseteq Inodes
  BY <1>1 DEF VfsInv, FlashTypeOK, QueueOK, Idle
<1>3. ClosedFd \in Fd /\ ~ClosedFd.open
  BY Sizes DEF ClosedFd, Fd
<1>4. fds' \in [Fds -> Fd] /\ ~fds'[f].open /\ \A g \in Fds \ {f} : fds'[g] = fds[g]
  BY <1>1, <1>2, <1>3
<1>5. FdsOK'
  BY <1>1, <1>2, <1>4 DEF FdsOK, OpenOn, Used
<1>6. \A n \in Names : Find(n) = {} => written[n] = <<>>
  BY <1>2 DEF FilesOK
<1> QED
  BY <1>1, <1>2, <1>4, <1>5, <1>6, QuietKeeps

LEMMA ReadKeeps == ASSUME VfsInv, NEW f \in Fds, Read(f, 1) PROVE VfsInv'
<1> DEFINE size == sb.inodes[fds[f].inode].size
<1>1. /\ Idle /\ fds[f].open /\ fds[f].cursor < size
      /\ fds' = [fds EXCEPT ![f].cursor = Min({fds[f].cursor + 1, size})]
      /\ UNCHANGED <<sb, ready, disk, sectors, todo, written, synced, forfeit>>
  BY DEF Read
<1>2. /\ todo = <<>> /\ synced = sb /\ fds \in [Fds -> Fd] /\ FdsOK /\ FilesOK /\ ready
      /\ written \in [Names -> Seq(Cells)] /\ forfeit \subseteq Inodes /\ FlashTypeOK
  BY <1>1 DEF VfsInv, FlashTypeOK, QueueOK, Idle
<1>3. fds[f] \in Fd /\ fds[f].inode \in Inodes /\ fds[f].cursor \in Nat
  BY <1>2, FdType
<1>4. size \in 0 .. SectorSize /\ size \in Nat
  <2>1. sb.inodes[fds[f].inode] \in Inode
    BY <1>2, <1>3 DEF FlashTypeOK, Sound, Block
  <2> QED
    BY <2>1, Sizes DEF Inode
<1> DEFINE c == Min({fds[f].cursor + 1, size})
<1>5. c \in {fds[f].cursor + 1, size}
  <2>1. {fds[f].cursor + 1, size} \subseteq Nat
    BY <1>3, <1>4
  <2> QED
    BY <2>1, MinIn
<1>6. c \in 0 .. SectorSize
  BY <1>1, <1>3, <1>4, <1>5, Sizes
<1> HIDE DEF c, size
<1>7. fds' = [fds EXCEPT ![f] = [fds[f] EXCEPT !.cursor = c]]
  BY <1>1 DEF c, size
<1>8. [fds[f] EXCEPT !.cursor = c] \in Fd
  BY <1>3, <1>6 DEF Fd
<1>9. /\ fds' \in [Fds -> Fd] /\ \A g \in Fds \ {f} : fds'[g] = fds[g]
      /\ fds'[f].open = fds[f].open /\ fds'[f].inode = fds[f].inode
      /\ fds'[f].writes = fds[f].writes
  BY <1>2, <1>3, <1>7, <1>8 DEF Fd
<1>10. fds[f].writes /\ fds[f].inode \notin forfeit => FALSE
  BY <1>1, <1>2, <1>3, <1>4 DEF FdsOK, size
<1>11. FdsOK'
  <2>1. \A g \in Fds : /\ fds'[g].open = fds[g].open /\ fds'[g].inode = fds[g].inode
                       /\ fds'[g].writes = fds[g].writes
    BY <1>9
  <2>2. \A g \in Fds : fds[g].open /\ fds[g].writes /\ fds[g].inode \notin forfeit =>
                          fds'[g].cursor = fds[g].cursor
    BY <1>9, <1>10
  <2>4. \A g \in Fds : fds[g].open => fds[g].inode \in Used(sb)
    BY <1>2 DEF FdsOK
  <2>6. ASSUME NEW g \in Fds, fds[g].open, fds[g].writes, fds[g].inode \notin forfeit
        PROVE  /\ fds'[g].cursor = sb.inodes[fds[g].inode].size
               /\ \A h \in OpenOn(fds[g].inode) : fds'[h].writes => h = g
    <3>1. /\ fds[g].cursor = sb.inodes[fds[g].inode].size
          /\ \A h \in OpenOn(fds[g].inode) : fds[h].writes => h = g
      BY <1>2, <2>6 DEF FdsOK
    <3> QED
      BY <2>1, <2>2, <2>6, <3>1 DEF OpenOn
  <2> QED
    <3>1. Used(sb') = Used(sb) /\ ready' /\ forfeit' = forfeit /\ sb' = sb
      BY <1>1, <1>2
    <3>2. \A g \in Fds : fds'[g].open => fds'[g].inode \in Used(sb')
      BY <2>1, <2>4, <3>1
    <3>3. \A g \in Fds : fds'[g].open /\ fds'[g].writes /\ fds'[g].inode \notin forfeit' =>
             /\ fds'[g].cursor = sb'.inodes[fds'[g].inode].size
             /\ \A h \in Fds : fds'[h].open /\ fds'[h].inode = fds'[g].inode /\ fds'[h].writes
                                  => h = g
      BY <2>1, <2>6, <3>1 DEF OpenOn
    <3> QED
      BY <3>1, <3>2, <3>3 DEF FdsOK, OpenOn
<1>12. \A n \in Names : Find(n) = {} => written[n] = <<>>
  BY <1>2 DEF FilesOK
<1> QED
  BY <1>1, <1>2, <1>9, <1>11, <1>12, QuietKeeps

(* vfs_open of a file that exists, without truncation.                     *)
LEMMA OpenQuietKeeps ==
    ASSUME VfsInv, NEW n \in Names, NEW m \in Modes, Open(n, m), m # "replace" \/ FreeFds = {}
    PROVE  VfsInv'
<1>1. PICK i \in Find(n) :
          /\ forfeit' = ForfeitBy(i, m)
          /\ TakeFd(sb, i, m)
          /\ todo' = Truncation(sb, i, m)
          /\ written' = IF i \in forfeit' THEN [written EXCEPT ![n] = <<>>] ELSE written
  BY DEF Open
<1>2. /\ Idle /\ ready /\ todo = <<>> /\ synced = sb /\ FlashTypeOK /\ FdsOK /\ FilesOK
      /\ UNCHANGED <<ready, disk, sectors>> /\ (synced' = IF todo' = <<>> THEN sb' ELSE synced)
  BY DEF Open, VfsInv, QueueOK, Idle
<1>3. /\ i \in Used(sb) /\ i \in Inodes /\ sb.inodes[i].name = n
      /\ \A j \in Used(sb) \ {i} : sb.inodes[j].name # n
  BY <1>2, FoundIs
<1>4. todo' = <<>>
  BY <1>1 DEF Truncation
<1>5. /\ forfeit' = forfeit \/ (forfeit' = forfeit \cup {i})
      /\ forfeit' # forfeit \cup {i} /\ FreeFds # {} => Orderly(i, m)
      /\ FreeFds = {} => forfeit' = forfeit
  BY <1>1 DEF ForfeitBy
<1>6. sb' = sb /\ fds' \in [Fds -> Fd] /\ FdsOK'
  <2>1. CASE FreeFds = {}
    <3>1. sb' = sb /\ fds' = fds
      BY <1>1, <2>1 DEF TakeFd
    <3> QED
      BY <1>2, <1>5, <2>1, <3>1, FdsStay
  <2>2. CASE FreeFds # {}
    <3> DEFINE g == Min(FreeFds)
               c == IF m = "append" THEN sb.inodes[i].size ELSE 0
               w == m # "read"
    <3>1. g \in FreeFds
      BY <2>2, MinFree
    <3>2. /\ sb' = sb
          /\ fds' = [fds EXCEPT ![g] = [open |-> TRUE, inode |-> i, writes |-> w, cursor |-> c]]
      BY <1>1, <2>2 DEF TakeFd
    <3>3. m \in {"read", "append"}
      BY <2>2 DEF Modes
    <3>4. sb.inodes[i] \in Inode
      BY <1>2, <1>3, ReadBack
    <3>5. c \in 0 .. SectorSize
      BY <3>4, Sizes DEF Inode
    <3>6. ASSUME i \notin forfeit'
          PROVE  /\ w => c = sb.inodes[i].size
                 /\ \A f \in OpenOn(i) : fds[f].writes => ~w /\ i \notin forfeit
      <4>1. Orderly(i, m) /\ i \notin forfeit
        BY <1>5, <2>2, <3>6
      <4> QED
        BY <3>3, <4>1 DEF Orderly
    <3>7. w \in BOOLEAN
      OBVIOUS
    <3> HIDE DEF g, c, w
    <3> QED
      BY <1>2, <1>3, <1>5, <3>1, <3>2, <3>5, <3>6, <3>7, FdsTaken
  <2> QED
    BY <2>1, <2>2
<1>7. written' \in [Names -> Seq(Cells)]
  <2>1. <<>> \in Seq(Cells)
    OBVIOUS
  <2> QED
    BY <1>1, <1>2, <2>1 DEF FlashTypeOK
<1>8. ASSUME NEW j \in Used(sb) \ forfeit'
      PROVE  j \notin forfeit /\ written'[sb.inodes[j].name] = written[sb.inodes[j].name]
  <2>1. j \notin forfeit /\ sb.inodes[j].name \in Names
    BY <1>2, <1>5, ReadBack
  <2>2. CASE i \in forfeit'
    <3>1. sb.inodes[j].name # n
      BY <1>3, <1>8, <2>2
    <3> QED
      BY <1>1, <1>2, <2>1, <2>2, <3>1 DEF FlashTypeOK
  <2> QED
    BY <1>1, <2>1, <2>2
<1>9. ASSUME NEW x \in Names, Find(x) = {} PROVE written'[x] = <<>>
  BY <1>1, <1>2, <1>9 DEF FilesOK, FlashTypeOK
<1>10. forfeit' \subseteq Inodes /\ synced' = sb
  BY <1>2, <1>3, <1>4, <1>5, <1>6 DEF FlashTypeOK
<1> QED
  BY <1>2, <1>4, <1>6, <1>7, <1>8, <1>9, <1>10, QuietKeeps

(* A file of no units is kept whatever the flash holds.                    *)
LEMMA EmptyKept ==
    \A i : sb.inodes[i].size = 0 /\ written[sb.inodes[i].name] = <<>> => Kept(i)
  BY NoUnits DEF Kept

LEMMA EmptyKeptNext ==
    \A i : sb'.inodes[i].size = 0 /\ written'[sb'.inodes[i].name] = <<>> => Kept(i)'
<1>1. (\A i : sb.inodes[i].size = 0 /\ written[sb.inodes[i].name] = <<>> => Kept(i))'
  BY EmptyKept, PTL
<1> QED
  BY <1>1

(* vfs_open of a file that exists, with truncation.                        *)
LEMMA OpenTruncatingKeeps ==
    ASSUME VfsInv, NEW n \in Names, Open(n, "replace"), FreeFds # {} PROVE VfsInv'
<1>1. PICK i \in Find(n) :
          /\ forfeit' = ForfeitBy(i, "replace")
          /\ TakeFd(sb, i, "replace")
          /\ todo' = <<Erase(sb.inodes[i].sector)>> \o Sync([sb EXCEPT !.inodes[i].size = 0])
          /\ written' = [written EXCEPT ![n] = <<>>]
  BY DEF Open, Truncation
<1>2. /\ Idle /\ ready /\ synced = sb /\ FlashTypeOK /\ Sound(sb) /\ sb \in Block
      /\ UNCHANGED <<ready, disk, sectors>> /\ (synced' = IF todo' = <<>> THEN sb' ELSE synced)
  BY DEF Open, VfsInv, QueueOK, Idle, FlashTypeOK, Sound
<1>3. /\ i \in Used(sb) /\ i \in Inodes /\ sb.inodes[i].name = n
      /\ \A j \in Used(sb) \ {i} : sb.inodes[j].name # n
  BY <1>2, FoundIs
<1>4. /\ sb.inodes[i].sector \in Own(i) /\ sb.inodes[i].sector \in Sectors
      /\ sb.inodes[i] \in Inode /\ sb.inodes[i].used = TRUE
  <2>1. sb.inodes[i] \in Inode /\ sb.inodes[i].sector \in Own(i) /\ sb.inodes[i].sector \in Sectors
    BY <1>2, <1>3, ReadBack
  <2>2. sb.inodes[i].used
    BY <1>3 DEF Used
  <2>3. sb.inodes[i].used \in BOOLEAN
    BY <2>1 DEF Inode
  <2> QED
    BY <2>1, <2>2, <2>3
<1> DEFINE cut == [sb.inodes[i] EXCEPT !.size = 0]
           E == Edit(sb, i, cut, sb.count)
           g == Min(FreeFds)
<1>5. [sb EXCEPT !.inodes[i].size = 0] = E
  BY <1>2, <1>3, Edits
<1>6. /\ cut.name = n /\ cut.sector = sb.inodes[i].sector /\ cut.size = 0 /\ cut.used = TRUE
      /\ cut \in Inode
  BY <1>3, <1>4, Sizes DEF Inode
<1> HIDE DEF cut
<1>7. /\ Sound(E) /\ E.inodes[i] = cut /\ Used(E) = Used(sb)
      /\ \A j \in Inodes \ {i} : E.inodes[j] = sb.inodes[j]
  <2>1. /\ Sound(E) /\ E.inodes[i] = cut
        /\ \A j \in Inodes \ {i} : E.inodes[j] = sb.inodes[j]
        /\ Used(E) = Used(sb) \cup {i}
    <3>1. /\ cut.name \in Names /\ cut.sector \in Own(i)
          /\ \A j \in Used(sb) \ {i} : sb.inodes[j].name # cut.name
      BY <1>3, <1>4, <1>6
    <3>2. Fits(sb, i, cut, sb.count)
      BY <1>3, <1>6, <3>1 DEF Fits
    <3>3. Sound(sb) /\ i \in Inodes /\ cut \in Inode /\ cut.used = TRUE
      BY <1>2, <1>3, <1>6
    <3>4. Edited(E, sb, i, cut)
      BY <3>2, <3>3, EditSound
    <3> HIDE DEF E
    <3> QED
      BY <3>3, <3>4 DEF Edited
  <2> QED
    BY <1>3, <1>6, <2>1
<1>8. /\ sb' = E
      /\ fds' = [fds EXCEPT ![g] = [open |-> TRUE, inode |-> i, writes |-> TRUE, cursor |-> 0]]
  <2> HIDE DEF E
  <2>1. "replace" # "read" /\ "replace" # "append"
    OBVIOUS
  <2> QED
    BY <1>1, <1>5, <2>1 DEF TakeFd
<1> HIDE DEF E
<1>9. Plan(todo', sb.inodes[i].sector, sb') /\ Stores(todo', sb') /\ todo' # <<>>
  <2>1. E \in Block
    BY <1>7 DEF Sound
  <2>2. Plan(todo', sb.inodes[i].sector, sb') /\ Stores(todo', sb')
    BY <1>1, <1>4, <1>5, <1>8, <2>1, DirectoryPlans
  <2>3. Len(todo') > 0
    BY <2>2 DEF Plan
  <2> QED
    BY <2>2, <2>3, EmptySeq
<1>10. /\ OpenOn(i) # {} => forfeit' = forfeit \cup {i}
       /\ OpenOn(i) = {} => forfeit' = forfeit \ {i}
  <2>1. "replace" # "read" /\ "replace" # "append"
    OBVIOUS
  <2> QED
    BY <1>1, <2>1 DEF ForfeitBy, Orderly
<1>11. fds' \in [Fds -> Fd] /\ FdsOK'
  <2>1. g \in FreeFds /\ 0 \in 0 .. SectorSize /\ TRUE \in BOOLEAN
    BY MinFree, Sizes
  <2>2. \A j \in Used(sb) \ {i} : /\ j \in Used(sb')
                                  /\ sb'.inodes[j].size = sb.inodes[j].size
                                  /\ j \notin forfeit' => j \notin forfeit
    BY <1>7, <1>8, <1>10, UsedFinite
  <2>3. i \notin forfeit' => 0 = sb'.inodes[i].size /\ OpenOn(i) = {}
    BY <1>6, <1>7, <1>8, <1>10
  <2> HIDE DEF g
  <2> QED
    BY <1>2, <1>3, <1>7, <1>8, <2>1, <2>2, <2>3, FdsTaken
<1>12. written' \in [Names -> Seq(Cells)] /\ written'[n] = <<>>
       /\ \A x \in Names \ {n} : written'[x] = written[x]
  <2>1. <<>> \in Seq(Cells)
    OBVIOUS
  <2> QED
    BY <1>1, <1>2, <2>1 DEF FlashTypeOK
<1>13. Kept(i)'
  BY <1>6, <1>7, <1>8, <1>12, EmptyKeptNext
<1>14. forfeit' \subseteq Inodes /\ \A j \in Inodes \ {i} : j \in forfeit' <=> j \in forfeit
  BY <1>2, <1>3, <1>10 DEF FlashTypeOK
<1>15. i \in Used(sb') /\ sb'.inodes[i].name = n /\ synced' = synced
       /\ \A j \in Inodes \ {i} : sb'.inodes[j] = sb.inodes[j]
  BY <1>2, <1>3, <1>6, <1>7, <1>8, <1>9
<1> QED
  BY <1>2, <1>3, <1>4, <1>7, <1>8, <1>9, <1>11, <1>12, <1>13, <1>14, <1>15, BusyKeeps

(* vfs_open of a file that does not exist.                                 *)
LEMMA CreateKeeps ==
    ASSUME VfsInv, NEW n \in Names, NEW m \in Modes, Create(n, m) PROVE VfsInv'
<1> DEFINE Made(i) == [name |-> n, sector |-> SectorOf(i), size |-> 0, used |-> TRUE]
           BlockOf(i) == [sb EXCEPT !.count = @ + 1, !.inodes[i] = Made(i)]
<1>1. /\ Idle /\ Find(n) = {} /\ m # "read"
      /\ written' = [written EXCEPT ![n] = <<>>]
      /\ UNCHANGED <<ready, disk, sectors, synced>>
  BY DEF Create
<1>2. PICK i \in Inodes :
          /\ ~sb.inodes[i].used
          /\ TakeFd(BlockOf(i), i, m)
          /\ todo' = <<Erase(SectorOf(i))>> \o Sync(BlockOf(i)) \o Truncation(BlockOf(i), i, m)
          /\ forfeit' = forfeit \ {i}
  BY DEF Create, Slot
<1>3. FlashTypeOK /\ FdsOK /\ Sound(sb) /\ sb \in Block /\ ready
  BY <1>1 DEF VfsInv, FlashTypeOK, Sound, Idle
<1>4. SectorOf(i) \in Own(i) /\ SectorOf(i) \in Sectors /\ SectorOf(i) \in Sectors \cup {0}
  <2>1. SectorOf(i) \in Own(i)
    BY DEF SectorOf, Own
  <2> QED
    BY <2>1, Owners
<1> DEFINE inode == Made(i)
           E == Edit(sb, i, inode, sb.count + 1)
<1>5. /\ inode.name = n /\ inode.sector = SectorOf(i) /\ inode.size = 0 /\ inode.used = TRUE
      /\ inode \in Inode
  <2>1. inode \in Inode
    BY <1>4, InodeIs, Sizes
  <2> QED
    BY <2>1
<1>6. BlockOf(i) = E
  <2> HIDE DEF Made
  <2> QED
    BY <1>3, Edits
<1> HIDE DEF inode, Made
<1>7. /\ Sound(E) /\ E.inodes[i] = inode /\ Used(E) = Used(sb) \cup {i}
      /\ \A j \in Inodes \ {i} : E.inodes[j] = sb.inodes[j]
  <2>1. i \notin Used(sb) /\ \A j \in Used(sb) : sb.inodes[j].name # n
    BY <1>1, <1>2 DEF Used, Find
  <2>2. Fits(sb, i, inode, sb.count + 1)
    BY <1>4, <1>5, <2>1 DEF Fits
  <2>3. Edited(E, sb, i, inode)
    BY <1>3, <1>5, <2>2, EditSound
  <2> HIDE DEF E
  <2> QED
    BY <1>5, <2>3 DEF Edited
<1> HIDE DEF BlockOf, E
<1>8. E \in Block /\ E.inodes \in [Inodes -> Inode]
  BY <1>7 DEF Sound, Block
<1>9. [E EXCEPT !.inodes[i].size = 0] = E
  <2>1. [E.inodes[i] EXCEPT !.size = 0] = E.inodes[i]
    BY <1>5, <1>7 DEF Inode
  <2>2. [E EXCEPT !.inodes[i].size = 0] = Edit(E, i, [E.inodes[i] EXCEPT !.size = 0], E.count)
    BY <1>8, Edits
  <2>3. [E.inodes EXCEPT ![i] = E.inodes[i]] = E.inodes
    BY <1>8
  <2>4. Edit(E, i, E.inodes[i], E.count) = E
    BY <1>8, <2>3 DEF Edit, Block
  <2> QED
    BY <2>1, <2>2, <2>4
<1> DEFINE g == Min(FreeFds)
<1>10. /\ sb' = E
       /\ \/ FreeFds = {} /\ fds' = fds
          \/ /\ FreeFds # {}
             /\ fds' = [fds EXCEPT ![g] =
                          [open |-> TRUE, inode |-> i, writes |-> TRUE, cursor |-> 0]]
  <2>1. TakeFd(E, i, m)
    BY <1>2, <1>6
  <2>2. CASE FreeFds = {}
    BY <2>1, <2>2 DEF TakeFd
  <2>3. CASE FreeFds # {}
    <3>1. E.inodes[i].size = 0 /\ (m # "read") = TRUE
      BY <1>1, <1>5, <1>7
    <3>2. (IF m = "replace" THEN [E EXCEPT !.inodes[i].size = 0] ELSE E) = E
      BY <1>9
    <3>3. /\ sb' = E
          /\ fds' = [fds EXCEPT ![g] =
                       [open |-> TRUE, inode |-> i, writes |-> m # "read",
                        cursor |-> IF m = "append" THEN E.inodes[i].size ELSE 0]]
      BY <2>1, <2>3, <3>2 DEF TakeFd
    <3> QED
      BY <2>3, <3>1, <3>3
  <2> QED
    BY <2>2, <2>3
<1>11. Plan(todo', SectorOf(i), sb') /\ Stores(todo', sb')
  <2>1. \/ Truncation(E, i, m) = <<>>
        \/ Truncation(E, i, m) = <<Erase(SectorOf(i))>> \o Sync(E)
    BY <1>5, <1>7, <1>9 DEF Truncation
  <2>2. <<Erase(SectorOf(i))>> \o Sync(E) \in Seq(Cmd)
    <3>1. /\ Plan(<<Erase(SectorOf(i))>> \o Sync(E), SectorOf(i), E)
      BY <1>4, <1>8, DirectoryPlans
    <3> QED
      BY <3>1 DEF Plan
  <2> DEFINE t == <<Erase(SectorOf(i))>> \o Sync(E)
  <2>3. todo' = t \o Truncation(E, i, m)
    BY <1>2, <1>6
  <2>4. todo' = t \/ todo' = t \o t
    <3> HIDE DEF t
    <3>1. Truncation(E, i, m) = <<>> \/ Truncation(E, i, m) = t
      BY <2>1 DEF t
    <3>2. t \in Seq(Cmd)
      BY <2>2 DEF t
    <3> QED
      BY <2>3, <3>1, <3>2, ConcatEmptySeq
  <2> QED
    BY <1>4, <1>8, <1>10, <2>4, DirectoryPlans
<1>12. i \notin Used(sb) /\ OpenOn(i) = {}
  BY <1>2, <1>3 DEF Used, OpenOn, FdsOK
<1>13. fds' \in [Fds -> Fd] /\ FdsOK'
  <2>1. \A j \in Used(sb) : /\ j \in Used(sb') /\ j # i
                            /\ sb'.inodes[j].size = sb.inodes[j].size
                            /\ j \notin forfeit' => j \notin forfeit
    BY <1>2, <1>7, <1>10, <1>12, UsedFinite
  <2>2. CASE fds' = fds
    BY <1>1, <2>1, <2>2, FdsStay
  <2>3. CASE FreeFds # {} /\ fds' = [fds EXCEPT ![g] =
                        [open |-> TRUE, inode |-> i, writes |-> TRUE, cursor |-> 0]]
    <3>1. g \in FreeFds /\ 0 \in 0 .. SectorSize /\ TRUE \in BOOLEAN
      BY <2>3, MinFree, Sizes
    <3>2. sb'.inodes[i].size = 0 /\ i \in Used(sb')
      BY <1>5, <1>7, <1>10
    <3> HIDE DEF g
    <3> QED
      BY <1>1, <1>12, <2>1, <2>3, <3>1, <3>2, FdsTaken
  <2> QED
    BY <1>10, <2>2, <2>3
<1>14. written' \in [Names -> Seq(Cells)] /\ written'[n] = <<>>
       /\ \A x \in Names \ {n} : written'[x] = written[x]
  <2>1. <<>> \in Seq(Cells)
    OBVIOUS
  <2> QED
    BY <1>1, <1>3, <2>1 DEF FlashTypeOK
<1>15. i \in Used(sb') /\ sb'.inodes[i].name = n /\ sb'.inodes[i].size = 0
       /\ \A j \in Inodes \ {i} : sb'.inodes[j] = sb.inodes[j]
  BY <1>5, <1>7, <1>10
<1>16. Kept(i)'
  BY <1>14, <1>15, EmptyKeptNext
<1>17. forfeit' \subseteq Inodes /\ \A j \in Inodes \ {i} : j \in forfeit' <=> j \in forfeit
  BY <1>2, <1>3 DEF FlashTypeOK
<1>18. Sound(sb')
  BY <1>7, <1>10
<1> QED
  BY <1>1, <1>4, <1>11, <1>12, <1>13, <1>14, <1>15, <1>16, <1>17, <1>18, BusyKeeps

(* vfs_delete.                                                             *)
LEMMA DeleteKeeps == ASSUME VfsInv, NEW n \in Names, Delete(n) PROVE VfsInv'
<1>1. /\ Idle /\ written' = [written EXCEPT ![n] = <<>>]
      /\ UNCHANGED <<fds, ready, disk, sectors, synced, forfeit>>
  BY DEF Delete
<1>2. PICK i \in Find(n) :
          /\ OpenOn(i) = {}
          /\ sb' = [sb EXCEPT !.inodes[i] = FreeInode, !.count = @ - 1]
          /\ todo' = <<Erase(sb.inodes[i].sector)>> \o Sync(sb')
  BY DEF Delete
<1>3. FlashTypeOK /\ Sound(sb) /\ sb \in Block /\ ready
  BY <1>1 DEF VfsInv, FlashTypeOK, Sound, Idle
<1>4. /\ i \in Used(sb) /\ i \in Inodes /\ sb.inodes[i].name = n
      /\ sb.inodes[i].sector \in Own(i) /\ sb.inodes[i].sector \in Sectors
  BY <1>3, FoundIs, ReadBack
<1> DEFINE E == Edit(sb, i, FreeInode, sb.count - 1)
<1>5. FreeInode.used = FALSE /\ FreeInode \in Inode
  <2>1. 0 \in 0 .. SectorSize /\ FALSE \in BOOLEAN
    BY Sizes
  <2> QED
    BY <2>1 DEF FreeInode, Inode
<1>6. sb' = E
  BY <1>2, <1>3, <1>4, Edits
<1>7. /\ Sound(E) /\ E.inodes[i] = FreeInode /\ Used(E) = Used(sb) \ {i}
      /\ \A j \in Inodes \ {i} : E.inodes[j] = sb.inodes[j]
  <2>1. Fits(sb, i, FreeInode, sb.count - 1)
    BY <1>4, <1>5 DEF Fits
  <2>2. Edited(E, sb, i, FreeInode)
    BY <1>3, <1>4, <1>5, <2>1, EditSound
  <2> HIDE DEF E
  <2> QED
    BY <1>5, <2>2 DEF Edited
<1> HIDE DEF E
<1>8. Plan(todo', sb.inodes[i].sector, sb') /\ Stores(todo', sb')
  <2>1. E \in Block
    BY <1>7 DEF Sound
  <2> QED
    BY <1>2, <1>4, <1>6, <2>1, DirectoryPlans
<1>9. fds' \in [Fds -> Fd] /\ FdsOK'
  <2>1. \A j \in Used(sb) : OpenOn(j) # {} =>
           /\ j \in Used(sb')
           /\ j \notin forfeit' => /\ j \notin forfeit
                                   /\ sb'.inodes[j].size = sb.inodes[j].size
    BY <1>1, <1>2, <1>6, <1>7, UsedFinite
  <2> QED
    BY <1>1, <2>1, FdsStay
<1>10. written' \in [Names -> Seq(Cells)] /\ written'[n] = <<>>
       /\ \A x \in Names \ {n} : written'[x] = written[x]
  <2>1. <<>> \in Seq(Cells)
    OBVIOUS
  <2> QED
    BY <1>1, <1>3, <2>1 DEF FlashTypeOK
<1>11. /\ i \notin Used(sb') /\ Sound(sb') /\ forfeit' = forfeit /\ forfeit' \subseteq Inodes
       /\ \A j \in Inodes \ {i} : sb'.inodes[j] = sb.inodes[j]
  BY <1>1, <1>3, <1>6, <1>7 DEF FlashTypeOK
<1> QED
  BY <1>1, <1>4, <1>8, <1>9, <1>10, <1>11, BusyKeeps

(* What a write finds, whether it succeeds or not.                         *)
LEMMA WriteFinds ==
    ASSUME VfsInv, Idle, NEW f \in Fds, fds[f].open, NEW d \in Data, Room(f, <<d>>),
           NEW i, i = fds[f].inode
    PROVE  /\ FlashTypeOK /\ FdsOK /\ ready /\ Sound(sb) /\ sb \in Block
           /\ i \in Used(sb) /\ i \in Inodes /\ sb.inodes[i] \in Inode
           /\ sb.inodes[i].name \in Names
           /\ sb.inodes[i].sector \in Own(i) /\ sb.inodes[i].sector \in Sectors
           /\ sectors[sb.inodes[i].sector] \in Image
           /\ sb.inodes[i].size \in Nat /\ fds[f].cursor \in Nat
           /\ Len(<<d>>) = 1 /\ fds[f].cursor + 1 \in 1 .. SectorSize
           /\ Rewritten(sectors[sb.inodes[i].sector], fds[f].cursor, <<d>>) \in Image
<1>1. FlashTypeOK /\ FdsOK /\ ready /\ Sound(sb) /\ sb \in Block
  BY DEF VfsInv, FlashTypeOK, Sound, Idle
<1>2. i \in Used(sb) /\ fds[f].cursor \in Nat
  BY <1>1, FdType DEF FdsOK
<1>3. /\ sb.inodes[i].name \in Names /\ sb.inodes[i].sector \in Sectors
      /\ sb.inodes[i].sector \in Own(i) /\ i \in Inodes /\ sb.inodes[i] \in Inode
      /\ sectors[sb.inodes[i].sector] \in Image
  BY <1>1, <1>2, ReadBack
<1>4. sb.inodes[i].size \in Nat
  <2>1. sb.inodes[i].size \in 0 .. SectorSize
    BY <1>3 DEF Inode
  <2> QED
    BY <2>1, Sizes
<1>5. Len(<<d>>) = 1
  OBVIOUS
<1>6. fds[f].cursor + 1 \in 1 .. SectorSize
  BY <1>2, <1>5, Sizes DEF Room
<1>7. Rewritten(sectors[sb.inodes[i].sector], fds[f].cursor, <<d>>) \in Image
  BY <1>2, <1>3, RewrittenImage
<1> QED
  BY <1>1, <1>2, <1>3, <1>4, <1>5, <1>6, <1>7

LEMMA WriteFailsKeeps ==
    ASSUME VfsInv, NEW f \in Fds, NEW d \in Data, NEW l \in {0, SectorSize},
           WriteFails(f, <<d>>, l)
    PROVE  VfsInv'
<1> DEFINE i == fds[f].inode
           start == sb.inodes[i].sector
           new == Rewritten(sectors[start], fds[f].cursor, <<d>>)
           torn == [j \in 1 .. SectorSize |-> IF j <= l THEN new[j] ELSE FF]
           n0 == sb.inodes[i].name
<1>1. /\ Idle /\ fds[f].open /\ Room(f, <<d>>)
      /\ todo' = <<Erase(start), Program(start, torn)>>
      /\ forfeit' = forfeit \cup {i}
      /\ written' = Noted(i, <<d>>, forfeit')
      /\ UNCHANGED <<sb, fds, ready, disk, sectors, synced>>
  BY DEF WriteFails
<1>2. /\ FlashTypeOK /\ FdsOK /\ ready /\ Sound(sb) /\ sb \in Block
      /\ i \in Used(sb) /\ i \in Inodes /\ n0 \in Names
      /\ start \in Own(i) /\ start \in Sectors /\ new \in Image
  BY <1>1, WriteFinds
<1>3. torn \in Image
  <2> HIDE DEF new
  <2> QED
    BY <1>2, BlankImage DEF Image
<1> HIDE DEF torn, new
<1>4. Plan(todo', start, sb') /\ DataOnly(todo')
  <2>1. Rewrites(todo', start, torn, sb)
    BY <1>1, <1>2, <1>3, DataPlans
  <2> QED
    BY <1>1, <2>1 DEF Rewrites
<1>5. written' = [written EXCEPT ![n0] = <<>>]
  BY <1>1 DEF Noted
<1> HIDE DEF i, n0, start
<1>6. written' \in [Names -> Seq(Cells)] /\ \A x \in Names \ {n0} : written'[x] = written[x]
  <2>1. <<>> \in Seq(Cells)
    OBVIOUS
  <2> QED
    BY <1>2, <1>5, <2>1 DEF FlashTypeOK
<1>7. fds' \in [Fds -> Fd] /\ FdsOK'
  <2>1. \A j \in Used(sb) : OpenOn(j) # {} =>
           /\ j \in Used(sb')
           /\ j \notin forfeit' => /\ j \notin forfeit
                                   /\ sb'.inodes[j].size = sb.inodes[j].size
    BY <1>1
  <2> QED
    BY <1>1, <2>1, FdsStay
<1>8. forfeit' \subseteq Inodes /\ \A j \in Inodes \ {i} : j \in forfeit' <=> j \in forfeit
  BY <1>1, <1>2 DEF FlashTypeOK
<1>9. i \in forfeit' /\ i \in Used(sb') /\ Sound(sb') /\ sb' = sb
  BY <1>1, <1>2
<1>10. n0 = sb.inodes[i].name
  BY DEF n0
<1> QED
  BY <1>1, <1>2, <1>4, <1>6, <1>7, <1>8, <1>9, <1>10, BusyKeeps

LEMMA WriteKeeps ==
    ASSUME VfsInv, NEW f \in Fds, NEW d \in Data, Write(f, <<d>>) PROVE VfsInv'
<1>0. PICK i, start : i = fds[f].inode /\ start = sb.inodes[i].sector
  OBVIOUS
<1> DEFINE end == fds[f].cursor + 1
           size == sb.inodes[i].size
           new == Rewritten(sectors[start], fds[f].cursor, <<d>>)
           n0 == sb.inodes[i].name
<1>1. /\ Idle /\ fds[f].open /\ fds[f].writes /\ Room(f, <<d>>)
      /\ fds' = [fds EXCEPT ![f].cursor = fds[f].cursor + Len(<<d>>)]
      /\ sb' = IF fds[f].cursor + Len(<<d>>) > size
               THEN [sb EXCEPT !.inodes[i].size = fds[f].cursor + Len(<<d>>)] ELSE sb
      /\ todo' = <<Erase(start), Program(start, new)>>
                   \o IF fds[f].cursor + Len(<<d>>) > size THEN Sync(sb') ELSE <<>>
      /\ written' = Noted(i, <<d>>, forfeit)
      /\ UNCHANGED <<ready, disk, sectors, synced, forfeit>>
  BY <1>0 DEF Write
<1>2. /\ FlashTypeOK /\ FdsOK /\ ready /\ Sound(sb) /\ sb \in Block
      /\ i \in Used(sb) /\ i \in Inodes /\ sb.inodes[i] \in Inode /\ n0 \in Names
      /\ start \in Own(i) /\ start \in Sectors /\ sectors[start] \in Image
      /\ size \in Nat /\ fds[f].cursor \in Nat
      /\ Len(<<d>>) = 1 /\ end \in 1 .. SectorSize /\ new \in Image
  BY <1>0, <1>1, WriteFinds
<1> DEFINE grown == [sb.inodes[i] EXCEPT !.size = end]
           E == Edit(sb, i, grown, sb.count)
<1>3. /\ fds' = [fds EXCEPT ![f].cursor = end]
      /\ end > size => sb' = E /\ todo' = <<Erase(start), Program(start, new)>> \o Sync(sb')
      /\ ~(end > size) => sb' = sb /\ todo' = <<Erase(start), Program(start, new)>> \o <<>>
  <2>1. [sb EXCEPT !.inodes[i].size = end] = E
    BY <1>2, Edits
  <2> QED
    BY <1>1, <1>2, <2>1
<1>4. /\ grown \in Inode /\ grown.name = n0 /\ grown.sector = start /\ grown.size = end
      /\ grown.used = sb.inodes[i].used
  <2>1. end \in 0 .. SectorSize
    BY <1>2
  <2> HIDE DEF end
  <2> QED
    BY <1>0, <1>2, <2>1 DEF Inode
<1>5. sb.inodes[i].used = TRUE
  <2>1. sb.inodes[i].used
    BY <1>2 DEF Used
  <2>2. sb.inodes[i].used \in BOOLEAN
    BY <1>2 DEF Inode
  <2> QED
    BY <2>1, <2>2
<1> HIDE DEF grown
<1>6. /\ Sound(E) /\ E.inodes[i] = grown /\ Used(E) = Used(sb)
      /\ \A j \in Inodes \ {i} : E.inodes[j] = sb.inodes[j]
  <2>1. \A j \in Used(sb) \ {i} : sb.inodes[j].name # n0
    BY <1>2 DEF Sound
  <2>2. Fits(sb, i, grown, sb.count)
    BY <1>2, <1>4, <1>5, <2>1 DEF Fits
  <2>3. Edited(E, sb, i, grown)
    BY <1>2, <1>4, <2>2, EditSound
  <2> HIDE DEF E
  <2>4. Used(E) = Used(sb) \cup {i}
    BY <1>4, <1>5, <2>3 DEF Edited
  <2> QED
    BY <1>2, <2>3, <2>4 DEF Edited
<1> HIDE DEF E
<1>7. /\ Sound(sb') /\ Used(sb') = Used(sb)
      /\ \A j \in Inodes \ {i} : sb'.inodes[j] = sb.inodes[j]
      /\ sb'.inodes[i].name = n0 /\ sb'.inodes[i].sector = start
      /\ end > size => sb'.inodes[i].size = end
  <2>1. CASE end > size
    BY <1>3, <1>4, <1>6, <2>1
  <2>2. CASE ~(end > size)
    BY <1>0, <1>2, <1>3, <2>2
  <2> QED
    BY <2>1, <2>2
<1> HIDE DEF new
<1>8. /\ Plan(todo', start, sb')
      /\ Stores(todo', sb') \/ (sb' = sb /\ DataOnly(todo'))
      /\ 2 \in 1 .. Len(todo') /\ todo'[2].sector = start /\ Result(todo'[2]) = new
      /\ \A k \in 1 .. Len(todo') : todo'[k].sector = start => k <= 2
  <2>1. sb' \in Block
    BY <1>7 DEF Sound
  <2>2. \/ todo' = <<Erase(start), Program(start, new)>> \o <<>>
        \/ todo' = <<Erase(start), Program(start, new)>> \o Sync(sb')
    BY <1>3
  <2>3. Rewrites(todo', start, new, sb')
    BY <1>2, <2>1, <2>2, DataPlans
  <2> QED
    BY <1>3, <2>3 DEF Rewrites
<1>9. ASSUME i \notin forfeit
      PROVE  /\ fds[f].cursor = size /\ end > size
             /\ \A g \in Fds : fds[g].open /\ fds[g].inode = i /\ fds[g].writes => g = f
  <2>1. fds[f].open /\ fds[f].writes /\ fds[f].inode \notin forfeit
    <3>1. fds[f].open /\ fds[f].writes
      BY <1>1, Zenon
    <3>2. fds[f].inode \notin forfeit
      BY <1>0, <1>9
    <3> QED
      BY <3>1, <3>2
  <2>2. /\ fds[f].cursor = sb.inodes[fds[f].inode].size
        /\ \A g \in OpenOn(fds[f].inode) : fds[g].writes => g = f
    <3> FdsOK
      BY <1>2
    <3> HIDE DEF OpenOn
    <3> QED
      BY <2>1 DEF FdsOK
  <2>3. fds[f].cursor = size
    BY <1>0, <2>2
  <2>4. end > size
    <3> HIDE DEF size
    <3> QED
      BY <1>2, <2>3
  <2>5. \A g \in Fds : fds[g].open /\ fds[g].inode = i /\ fds[g].writes => g = f
    <3> SUFFICES ASSUME NEW g \in Fds, fds[g].open /\ fds[g].inode = i, fds[g].writes
                 PROVE  g = f
      OBVIOUS
    <3>1. g \in OpenOn(fds[f].inode)
      BY <1>0 DEF OpenOn
    <3> QED
      BY <2>2, <3>1
  <2> QED
    BY <2>3, <2>4, <2>5
<1>10. /\ written' \in [Names -> Seq(Cells)]
       /\ \A x \in Names \ {n0} : written'[x] = written[x]
       /\ i \notin forfeit => written'[n0] = written[n0] \o <<d>>
  <2>1. written \in [Names -> Seq(Cells)]
    BY <1>2 DEF FlashTypeOK
  <2>2. <<>> \in Seq(Cells) /\ written[n0] \o <<d>> \in Seq(Cells)
    <3>1. d \in Cells
      BY DEF Cells
    <3>2. <<d>> \in Seq(Cells) /\ written[n0] \in Seq(Cells)
      BY <1>2, <2>1, <3>1
    <3> QED
      BY <3>2
  <2>3. written' = [written EXCEPT ![n0] = IF i \in forfeit THEN <<>> ELSE written[n0] \o <<d>>]
    BY <1>1 DEF Noted
  <2> HIDE DEF n0
  <2> QED
    BY <1>2, <2>1, <2>2, <2>3
<1>11. ASSUME i \notin forfeit PROVE Kept(i)'
  <2>1. [k \in 1 .. size |-> sectors[start][k]] = written[n0]
    BY <1>0, <1>1, <1>2, <1>11, IdleKept
  <2>2. [k \in 1 .. end |-> new[k]] = [k \in 1 .. size |-> sectors[start][k]] \o <<d>>
    <3>1. [k \in 1 .. (fds[f].cursor + 1) |-> Rewritten(sectors[start], fds[f].cursor, <<d>>)[k]]
             = [k \in 1 .. fds[f].cursor |-> sectors[start][k]] \o <<d>>
      BY <1>2, RewrittenImage
    <3> QED
      BY <1>9, <1>11, <3>1 DEF new
  <2>3. ASSUME NEW v, Settled(start, v)' PROVE v = new
    <3>1. ~\A k \in 1 .. Len(todo') : todo'[k].sector # start
      BY <1>8
    <3>2. PICK k \in 1 .. Len(todo') :
             /\ todo'[k].sector = start /\ v = Result(todo'[k])
             /\ \A j \in 1 .. Len(todo') : j > k => todo'[j].sector # start
      BY <2>3, <3>1 DEF Settled
    <3>3. k <= 2 /\ ~(2 > k)
      BY <1>8, <3>2
    <3>4. k = 2
      BY <3>3
    <3> QED
      BY <1>8, <3>2, <3>4
  <2>4. sb'.inodes[i].size = end /\ sb'.inodes[i].sector = start /\ sb'.inodes[i].name = n0
    BY <1>7, <1>9, <1>11
  <2> HIDE DEF n0, size, end
  <2> QED
    BY <1>10, <1>11, <2>1, <2>2, <2>3, <2>4 DEF Kept
<1>12. fds' \in [Fds -> Fd] /\ FdsOK'
  <2>1. /\ fds \in [Fds -> Fd] /\ fds[f] \in Fd /\ [fds[f] EXCEPT !.cursor = end] \in Fd
        /\ fds' = [fds EXCEPT ![f] = [fds[f] EXCEPT !.cursor = end]]
    <3>1. end \in 0 .. SectorSize
      BY <1>2
    <3>2. fds \in [Fds -> Fd] /\ fds[f] \in Fd
      BY <1>2 DEF FlashTypeOK
    <3> HIDE DEF end
    <3>3. [fds[f] EXCEPT !.cursor = end] \in Fd
      BY <3>1, <3>2 DEF Fd
    <3> QED
      BY <1>3, <3>2, <3>3
  <2> HIDE DEF end
  <2>2. /\ fds' \in [Fds -> Fd] /\ fds'[f].cursor = end
        /\ \A g \in Fds : /\ fds'[g].open = fds[g].open /\ fds'[g].inode = fds[g].inode
                          /\ fds'[g].writes = fds[g].writes
                          /\ g # f => fds'[g].cursor = fds[g].cursor
    BY <2>1 DEF Fd
  <2>3. \A g \in Fds : fds[g].open => fds[g].inode \in Used(sb)
    BY <1>2 DEF FdsOK
  <2>4. ASSUME NEW g \in Fds, fds[g].open, fds[g].writes, fds[g].inode \notin forfeit
        PROVE  /\ fds'[g].cursor = sb'.inodes[fds[g].inode].size
               /\ \A h \in Fds : fds[h].open /\ fds[h].inode = fds[g].inode /\ fds[h].writes
                                    => h = g
    <3>1. /\ fds[g].cursor = sb.inodes[fds[g].inode].size
          /\ \A h \in Fds : fds[h].open /\ fds[h].inode = fds[g].inode /\ fds[h].writes
                               => h = g
      BY <1>2, <2>4 DEF FdsOK, OpenOn
    <3>2. CASE g = f
      BY <1>0, <1>7, <1>9, <2>2, <2>4, <3>1, <3>2
    <3>3. CASE g # f
      <4>1. fds[g].inode # i
        BY <1>0, <1>1, <3>1, <3>3
      <4>2. fds[g].inode \in Inodes
        BY <2>3, <2>4, UsedFinite
      <4> QED
        BY <1>7, <2>2, <3>1, <3>3, <4>1, <4>2
    <3> QED
      BY <3>2, <3>3
  <2>5. ready' /\ forfeit' = forfeit /\ Used(sb') = Used(sb)
    BY <1>1, <1>2, <1>7
  <2>6. \A g \in Fds : fds'[g].open => fds'[g].inode \in Used(sb')
    BY <2>2, <2>3, <2>5
  <2>7. \A g \in Fds : fds'[g].open /\ fds'[g].writes /\ fds'[g].inode \notin forfeit' =>
           /\ fds'[g].cursor = sb'.inodes[fds'[g].inode].size
           /\ \A h \in Fds : fds'[h].open /\ fds'[h].inode = fds'[g].inode /\ fds'[h].writes
                                => h = g
    BY <2>2, <2>4, <2>5
  <2> QED
    BY <2>2, <2>5, <2>6, <2>7 DEF FdsOK, OpenOn
<1>13. forfeit' \subseteq Inodes /\ forfeit' = forfeit /\ i \in Used(sb') /\ n0 = sb.inodes[i].name
  BY <1>1, <1>2, <1>7 DEF FlashTypeOK
<1>14. Idle /\ UNCHANGED <<ready, disk, sectors, synced>>
  BY <1>1, Zenon
<1> HIDE DEF n0, size, end
<1>15. start \in Own(i) /\ i \in Inodes /\ n0 \in Names /\ Sound(sb')
  BY <1>2, <1>7
<1>16. \A j \in Inodes \ {i} : sb'.inodes[j] = sb.inodes[j]
  BY <1>7
<1>17. sb'.inodes[i].name = n0
  BY <1>7
<1> QED
  BY <1>8, <1>10, <1>11, <1>12, <1>13, <1>14, <1>15, <1>16, <1>17, BusyKeeps

-----------------------------------------------------------------------------
LEMMA CallsKeep == ASSUME VfsInv, Calls PROVE VfsInv'
<1>1. ASSUME NEW n \in Names, NEW m \in Modes, Open(n, m) PROVE VfsInv'
  <2>1. CASE m # "replace" \/ FreeFds = {}
    BY <1>1, <2>1, OpenQuietKeeps
  <2>2. CASE m = "replace" /\ FreeFds # {}
    BY <1>1, <2>2, OpenTruncatingKeeps
  <2> QED
    BY <2>1, <2>2
<1> QED
  BY <1>1, CreateKeeps, CloseKeeps, ReadKeeps, WriteKeeps, WriteFailsKeeps, DeleteKeeps DEF Calls

LEMMA StutterKeeps == ASSUME VfsInv, UNCHANGED vars PROVE VfsInv'
<1>1. UNCHANGED <<sb, fds, ready, disk, sectors, todo, written, synced, forfeit>>
  BY DEF vars
<1>2. FlashTypeOK' /\ QueueOK' /\ FdsOK'
  BY <1>1 DEF VfsInv, FlashTypeOK, QueueOK, FdsOK, Used, OpenOn, Idle
<1>3. \A i : Kept(i)' <=> Kept(i)
  BY <1>1 DEF Kept, Settled
<1>4. \A i0, n0 : Confined(i0, n0)' <=> Confined(i0, n0)
  BY <1>1 DEF Confined, Used, Contents, Find
<1>5. FilesOK' /\ LossOK'
  BY <1>1, <1>3, <1>4 DEF VfsInv, FilesOK, LossOK, Blanked, Idle, Used, Find
<1> QED
  BY <1>2, <1>5 DEF VfsInv

LEMMA NextKeeps == ASSUME Torn = FALSE, VfsInv, [Next]_vars PROVE VfsInv'
<1>1. CASE Mount
  BY <1>1, MountedKeeps, FormattedKeeps
<1>2. CASE Calls
  BY <1>2, CallsKeep
<1> QED
  BY <1>1, <1>2, ExecuteKeeps, PowerFailsKeeps, StutterKeeps DEF Next

LEMMA Invariance == ASSUME Torn = FALSE PROVE Spec => []VfsInv
<1>1. Init => VfsInv
  BY InitKeeps
<1>2. VfsInv /\ [Next]_vars => VfsInv'
  BY NextKeeps
<1> QED
  BY <1>1, <1>2, PTL DEF Spec

(* Through creations, deletions, power failures and reformatting,          *)
(* file_count is right, no two files share a name or a sector and none     *)
(* uses the sector of the superblock (vfs_open, vfs_delete).               *)
THEOREM DirectorySoundHolds == ASSUME Torn = FALSE PROVE Spec => []DirectorySound
<1>1. VfsInv => DirectorySound
  <2> SUFFICES ASSUME VfsInv PROVE DirectorySound
    OBVIOUS
  <2>1. /\ sb.count = Cardinality(Used(sb))
        /\ \A i, j \in Used(sb) : i # j => sb.inodes[i].name # sb.inodes[j].name
    BY DEF VfsInv, FlashTypeOK, Sound
  <2>2. \A i \in Used(sb) : /\ sb.inodes[i].sector \in Sectors
                            /\ sb.inodes[i].sector \in Own(i) /\ i \in Inodes
    BY ReadBack DEF VfsInv
  <2>3. \A i, j \in Used(sb) : i # j => sb.inodes[i].sector # sb.inodes[j].sector
    <3> SUFFICES ASSUME NEW i \in Used(sb), NEW j \in Used(sb), i # j
                 PROVE  sb.inodes[i].sector # sb.inodes[j].sector
      OBVIOUS
    <3>1. Own(i) \cap Own(j) = {}
      BY <2>2, Owners
    <3> QED
      BY <2>2, <3>1
  <2> QED
    BY <2>1, <2>2, <2>3 DEF DirectorySound
<1> QED
  BY <1>1, Invariance, PTL

(* When a call returns, the flash holds the directory that is in RAM       *)
(* (vfs_sync_superblock).                                                  *)
THEOREM SyncedHolds == ASSUME Torn = FALSE PROVE Spec => []Synced
<1>1. VfsInv => Synced
  BY DEF VfsInv, QueueOK, Synced
<1> QED
  BY <1>1, Invariance, PTL

(* Between power failures a file reads back as what was written to it,     *)
(* whatever happens to the others (vfs_write, vfs_open, vfs_delete).       *)
THEOREM ContentsKeptHolds == ASSUME Torn = FALSE PROVE Spec => []ContentsKept
<1>1. VfsInv => ContentsKept
  <2> SUFFICES ASSUME VfsInv, Idle, NEW i \in Used(sb) \ forfeit
               PROVE  Contents(sb, i) = written[sb.inodes[i].name]
    BY DEF ContentsKept
  <2>1. FlashTypeOK
    BY DEF VfsInv
  <2> QED
    BY <2>1, IdleKept, ReadBack
<1> QED
  BY <1>1, Invariance, PTL

(* The system starts in vfs_init and nowhere else.                         *)
LEMMA OnlyMount == ASSUME [Next]_vars, ~ready, ready' PROVE Mount
<1>1. ~(UNCHANGED vars)
  BY DEF vars
<1>2. ~Calls
  BY DEF Calls, Open, Create, Close, Read, Write, WriteFails, Delete, Idle
<1>3. ~Execute /\ ~PowerFails
  BY DEF Execute, PowerFails
<1> QED
  BY <1>1, <1>2, <1>3 DEF Next

(* What vfs_init mounts after a power failure is the directory of before   *)
(* the interrupted call, that of after it, or a fresh one.                 *)
THEOREM MountRestoresHolds == ASSUME Torn = FALSE PROVE Spec => MountRestores
<1>1. VfsInv /\ [Next]_vars => [~ready /\ ready' => sb' \in {synced, sb, DefaultSb}]_vars
  <2> SUFFICES ASSUME VfsInv, [Next]_vars, ~ready, ready'
               PROVE  sb' \in {synced, sb, DefaultSb}
    OBVIOUS
  <2>1. Mount
    BY OnlyMount
  <2>2. CASE disk.magic
    <3>1. sb' = disk /\ disk # Erased
      BY <2>1, <2>2 DEF Mount, Mounted, Erased
    <3> QED
      BY <3>1 DEF VfsInv, QueueOK
  <2>3. CASE ~disk.magic
    BY <2>1, <2>3 DEF Mount, Formatted
  <2> QED
    BY <2>2, <2>3
<1> QED
  BY <1>1, Invariance, PTL DEF Spec, MountRestores

(* A power failure costs at most the data of the file the interrupted call *)
(* was about, as long as the superblock survives (vfs_write, vfs_open,     *)
(* vfs_delete, vfs_init).                                                  *)
THEOREM LossConfinedHolds == ASSUME Torn = FALSE PROVE Spec => LossConfined
<1> DEFINE Lost == {n \in Names : written'[n] # written[n]}
           Excused == {sb.inodes[i].name : i \in forfeit}
<1>1. VfsInv /\ [Next]_vars =>
         [~ready /\ ready' /\ disk.magic => Cardinality(Lost \ Excused) <= 1]_vars
  <2> SUFFICES ASSUME VfsInv, [Next]_vars, ~ready, ready', disk.magic
               PROVE  Cardinality(Lost \ Excused) <= 1
    OBVIOUS
  <2>1. Mount
    BY OnlyMount
  <2>2. /\ disk \in {synced, sb} /\ Sound(disk) /\ FlashTypeOK /\ ~Blanked
        /\ written' = [n \in Names |->
              IF \E i \in Used(disk) : disk.inodes[i].name = n
              THEN Contents(disk, CHOOSE i \in Used(disk) : disk.inodes[i].name = n)
              ELSE <<>>]
    <3>1. disk # Erased
      BY DEF Erased
    <3> QED
      BY <2>1, <3>1 DEF VfsInv, QueueOK, FlashTypeOK, Mount, Mounted, Blanked
  <2>3. PICK i0 \in Inodes, n0 \in Names : Confined(i0, n0)
    BY <2>2 DEF VfsInv, LossOK, Idle
  <2>4. Lost \ Excused \subseteq {n0}
    <3> SUFFICES ASSUME NEW n \in Names \ {n0}, n \notin Excused PROVE written'[n] = written[n]
      OBVIOUS
    <3>1. CASE \E i \in Used(disk) : disk.inodes[i].name = n
      <4>1. PICK i \in Used(disk) : disk.inodes[i].name = n
        BY <3>1
      <4>2. i \in Inodes /\ i # i0 /\ disk.inodes[i] = sb.inodes[i]
        BY <2>2, <2>3, <4>1, UsedFinite DEF Confined
      <4>3. i \in Used(sb) /\ i \notin forfeit
        BY <4>1, <4>2 DEF Used
      <4>4. written'[n] = Contents(disk, i)
        <5>1. (CHOOSE j \in Used(disk) : disk.inodes[j].name = n) = i
          BY <2>2, <4>1, MountedFile DEF FlashTypeOK
        <5> QED
          BY <2>2, <3>1, <5>1
      <4>5. Contents(disk, i) = Contents(sb, i)
        BY <4>2 DEF Contents
      <4>6. Contents(sb, i) = written[n]
        BY <2>3, <4>1, <4>2, <4>3 DEF Confined
      <4> QED
        BY <4>4, <4>5, <4>6
    <3>2. CASE ~\E i \in Used(disk) : disk.inodes[i].name = n
      <4>1. ASSUME NEW i \in Used(sb), sb.inodes[i].name = n PROVE FALSE
        <5>1. i # i0 /\ i \in Inodes
          BY <2>3, <4>1, UsedFinite DEF Confined
        <5>2. disk.inodes[i] = sb.inodes[i]
          BY <2>2, <2>3, <5>1 DEF Confined
        <5> QED
          BY <3>2, <4>1, <5>1, <5>2 DEF Used
      <4>2. Find(n) = {}
        BY <4>1 DEF Find
      <4> QED
        BY <2>2, <2>3, <3>2, <4>2 DEF Confined
    <3> QED
      BY <3>1, <3>2
  <2>5. IsFiniteSet({n0}) /\ Cardinality({n0}) = 1
    BY FS_Singleton
  <2> QED
    BY <2>4, <2>5, FS_Subset
<1> QED
  BY <1>1, Invariance, PTL DEF Spec, LossConfined

=============================================================================
