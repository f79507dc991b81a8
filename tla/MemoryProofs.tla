---------------------------- MODULE MemoryProofs ----------------------------
(***************************************************************************)
(* The memory services for every size of the arena, of its headers, of the *)
(* pools and of the fault log.                                             *)
(***************************************************************************)
EXTENDS Memory, SequenceTheorems, FiniteSetTheorems, TLAPS

(* The fault log.  The slot written k faults before the one in slot w.     *)
Back(w, k) == IF k <= w THEN w - k ELSE w + RingSize - k

ReadableOK ==
    /\ RingSize \in Nat \ {0}
    /\ writeIndex \in RingSlots /\ LastIndex \in RingSlots
    /\ total \in Nat /\ total <= RingSize
    /\ Readable \in Seq(FaultCodes \cup {NoFault})
    /\ Len(Readable) = total
    /\ \A i \in 1 .. total : Readable[i] = ring[Back(LastIndex, total - i)]

LEMMA ReadableIs == FaultTypeOK => ReadableOK
<1> SUFFICES ASSUME FaultTypeOK PROVE ReadableOK
  OBVIOUS
<1>1. /\ RingSize \in Nat \ {0}
      /\ writeIndex \in RingSlots /\ LastIndex \in RingSlots
      /\ total \in Nat /\ total <= RingSize
  BY FaultLogAssumption DEF FaultTypeOK, RingSlots, LastIndex
<1>2. ASSUME NEW i \in 1 .. total
      PROVE  /\ Readable[i] = ring[Back(LastIndex, total - i)]
             /\ Readable[i] \in FaultCodes \cup {NoFault}
  <2>1. Back(LastIndex, total - i) \in RingSlots
    BY <1>1 DEF Back, RingSlots
  <2>2. Readable[i] = ring[Back(LastIndex, total - i)]
    BY DEF Readable, GetAt, Back
  <2> QED
    BY <2>1, <2>2 DEF FaultTypeOK
<1>3. Readable \in [1 .. total -> FaultCodes \cup {NoFault}]
  BY <1>2 DEF Readable
<1>4. Readable \in Seq(FaultCodes \cup {NoFault})
  BY <1>1, <1>3, SeqDef
<1>5. Len(Readable) = total
  BY <1>1, <1>3, <1>4, LenProperties
<1> QED
  BY <1>1, <1>2, <1>4, <1>5 DEF ReadableOK

LEMMA FaultTypeStep ==
    ASSUME FaultTypeOK, NEW code \in FaultCodes, Record(code)
    PROVE  FaultTypeOK' /\ LastIndex' = writeIndex
  BY FaultLogAssumption DEF FaultTypeOK, Record, Step, RingSlots, LastIndex

(* A fault recorded is appended to what readers see, of which a full ring  *)
(* loses the oldest.                                                       *)
LEMMA RecordAppends ==
    ASSUME FaultTypeOK, NEW code \in FaultCodes, Record(code)
    PROVE  Readable' = Recent!Newest(Append(Readable, code))
<1>1. FaultTypeOK' /\ LastIndex' = writeIndex
  BY FaultTypeStep
<1>2. /\ RingSize \in Nat \ {0}
      /\ writeIndex \in 0 .. (RingSize - 1)
      /\ total \in Nat /\ total <= RingSize
      /\ Readable \in Seq(FaultCodes \cup {NoFault})
      /\ Len(Readable) = total
      /\ \A i \in 1 .. total : Readable[i] = ring[Back(LastIndex, total - i)]
  BY ReadableIs DEF ReadableOK, RingSlots
<1>3. /\ Readable' \in Seq(FaultCodes \cup {NoFault})
      /\ Len(Readable') = total'
      /\ \A i \in 1 .. total' : Readable'[i] = ring'[Back(writeIndex, total' - i)]
  <2>1. ReadableOK'
    BY <1>1, ReadableIs, PTL
  <2> QED
    BY <1>1, <2>1 DEF ReadableOK, Back
<1>4. /\ ring' = [ring EXCEPT ![writeIndex] = code]
      /\ total' = IF total = RingSize THEN total ELSE total + 1
  BY DEF Record
<1>5. Readable'[total'] = code
  BY <1>2, <1>3, <1>4 DEF Back, FaultTypeOK, RingSlots
<1>6. ASSUME NEW k \in 1 .. (RingSize - 1)
      PROVE  ring'[Back(writeIndex, k)] = ring[Back(LastIndex, k - 1)]
  <2>1. Back(writeIndex, k) = Back(LastIndex, k - 1)
    BY <1>2 DEF Back, LastIndex
  <2>2. Back(writeIndex, k) \in RingSlots /\ Back(writeIndex, k) # writeIndex
    BY <1>2 DEF Back, RingSlots
  <2> QED
    BY <1>4, <2>1, <2>2 DEF FaultTypeOK
<1> DEFINE longer == Append(Readable, code)
<1>7. /\ longer \in Seq(FaultCodes \cup {NoFault}) /\ Len(longer) = total + 1
      /\ \A i \in 1 .. total : longer[i] = Readable[i]
      /\ longer[total + 1] = code
  BY <1>2, AppendProperties
<1>8. CASE total < RingSize
  <2>1. Recent!Newest(longer) = longer /\ total' = total + 1
    BY <1>2, <1>4, <1>7, <1>8 DEF Recent!Newest
  <2>2. ASSUME NEW i \in 1 .. total PROVE Readable'[i] = longer[i]
    <3>1. total' - i \in 1 .. (RingSize - 1) /\ (total' - i) - 1 = total - i
      BY <1>2, <1>8, <2>1
    <3>2. Readable'[i] = ring'[Back(writeIndex, total' - i)]
      <4>1. i \in 1 .. total'
        BY <1>2, <2>1
      <4> QED
        BY <1>3, <4>1
    <3>3. ring'[Back(writeIndex, total' - i)] = ring[Back(LastIndex, total - i)]
      BY <1>6, <3>1
    <3> QED
      BY <1>2, <1>7, <3>2, <3>3
  <2> QED
    BY <1>2, <1>3, <1>5, <1>7, <2>1, <2>2, SeqEqual
<1>9. CASE total = RingSize
  <2>1. Recent!Newest(longer) = Tail(longer) /\ total' = total
    BY <1>2, <1>4, <1>7, <1>9 DEF Recent!Newest
  <2>2. /\ Tail(longer) \in Seq(FaultCodes \cup {NoFault})
        /\ Len(Tail(longer)) = total
        /\ \A i \in 1 .. total : Tail(longer)[i] = longer[i + 1]
    BY <1>2, <1>7, <1>9, HeadTailProperties
  <2>3. ASSUME NEW i \in 1 .. total PROVE Readable'[i] = Tail(longer)[i]
    <3>1. CASE i = total
      BY <1>5, <1>7, <2>1, <2>2, <3>1
    <3>2. CASE i # total
      <4>1. /\ total' - i \in 1 .. (RingSize - 1)
            /\ (total' - i) - 1 = total - (i + 1) /\ i + 1 \in 1 .. total
        BY <1>2, <1>9, <2>1, <3>2
      <4>2. Readable'[i] = ring'[Back(writeIndex, total' - i)]
        BY <1>2, <1>3, <2>1
      <4>3. ring'[Back(writeIndex, total' - i)] = ring[Back(LastIndex, total - (i + 1))]
        BY <1>6, <4>1
      <4> QED
        BY <1>2, <1>7, <2>2, <4>1, <4>2, <4>3
    <3> QED
      BY <3>1, <3>2
  <2> QED
    BY <1>2, <1>3, <1>7, <2>1, <2>2, <2>3, SeqEqual
<1> QED
  BY <1>2, <1>8, <1>9

(* Whatever an allocator does, the log records a fault or stays as it is.  *)
LEMMA FaultSteps ==
    MemoryNext => (\E code \in FaultCodes : Record(code)) \/ UNCHANGED faultVars
<1> SUFFICES ASSUME MemoryNext
             PROVE  (\E code \in FaultCodes : Record(code)) \/ UNCHANGED faultVars
  OBVIOUS
<1>1. /\ {"EXHAUSTED", "INVALID_PTR", "DOUBLE_FREE", "CORRUPTION"} \subseteq FaultCodes
      /\ \A magic : Refusal(magic) \subseteq FaultCodes
  BY ArenaFaultsAssumption DEF ArenaFaults, Refusal
<1>2. CASE ArenaNext
  BY <1>1, <1>2
  DEF ArenaNext, Malloc, MallocFails, Accept, Refuse, RefuseInvalid, Fill, faultVars
<1>3. CASE PoolNext
  BY <1>1, <1>3
  DEF PoolNext, PoolAlloc, PoolAllocFails, PoolFree, PoolFreeRefused
<1> QED
  BY <1>2, <1>3 DEF MemoryNext

LEMMA LogStep ==
    FaultTypeOK /\ [MemoryNext]_memoryVars =>
        FaultTypeOK' /\ [Recent!LogNext]_Readable
<1> SUFFICES ASSUME FaultTypeOK, [MemoryNext]_memoryVars
             PROVE  FaultTypeOK' /\ [Recent!LogNext]_Readable
  OBVIOUS
<1>1. ASSUME NEW code \in FaultCodes, Record(code)
      PROVE  FaultTypeOK' /\ Recent!LogNext
  BY <1>1, FaultTypeStep, RecordAppends DEF Recent!LogNext
<1>2. CASE UNCHANGED faultVars
  BY <1>2 DEF faultVars, FaultTypeOK, Readable, GetAt, LastIndex
<1> QED
  BY <1>1, <1>2, FaultSteps DEF memoryVars, faultVars

(* A reader of the log sees the latest faults in order, whoever recorded   *)
(* them and however often the ring has wrapped (mk_fault_get_at).          *)
THEOREM LogSpecHolds == MemorySpec => LogSpec
<1>1. MemoryInit => FaultTypeOK /\ Recent!LogInit
  BY FaultLogAssumption
  DEF MemoryInit, FaultInit, FaultTypeOK, RingSlots, Readable, Recent!LogInit
<1> QED
  BY <1>1, LogStep, PTL DEF MemorySpec, LogSpec, Recent!LogSpec
-----------------------------------------------------------------------------
(* The arena.  What makes a set C of addresses a list of blocks in a       *)
(* memory m: each block is linked to the one at its end and back, the      *)
(* blocks lie behind one another and cover the arena.                      *)
End(m, b) == b + HeaderSize + m[b].size

Linked(m, C, b) ==
    /\ m[b].magic # "JUNK" /\ m[b].size > 0
    /\ End(m, b) <= ArenaSize
    /\ m[b].next = NULL => End(m, b) = ArenaSize
    /\ m[b].next # NULL =>
         m[b].next = End(m, b) /\ m[b].next \in C /\ m[m[b].next].prev = b
    /\ m[b].prev # NULL => m[b].prev \in C /\ m[m[b].prev].next = b

Listed(m, C) ==
    /\ m \in [Addresses -> Header]
    /\ C \subseteq Addresses /\ 0 \in C /\ m[0].prev = NULL
    /\ \A b \in C : Linked(m, C, b)
    /\ \A b, c \in C : b < c => End(m, b) <= c
    /\ \A x \in Addresses : \E b \in C : b <= x /\ x < End(m, b)

LEMMA Sizes ==
    /\ ArenaSize \in Nat /\ HeaderSize \in Nat /\ HeaderSize > 0
    /\ Capacity = ArenaSize - HeaderSize /\ Capacity \in Nat /\ Capacity > 0
    /\ Requests \subseteq 1 .. Capacity
    /\ \A x : x \in Addresses <=> x \in Nat /\ x < ArenaSize
    /\ NULL \notin Addresses /\ NULL \in Int
  BY ArenaAssumption DEF Capacity, Addresses, NULL

(* What an absorbed neighbour changes of each header.                      *)
LEMMA AbsorbFields ==
    ASSUME NEW m \in [Addresses -> Header], NEW b \in Addresses,
           m[b].next \in Addresses, m[b].next # b,
           m[m[b].next].next # b,
           m[b].size + HeaderSize + m[m[b].next].size <= Capacity
    PROVE  LET A == Absorb(m, b)
               n == m[b].next
           IN  /\ A \in [Addresses -> Header]
               /\ \A x \in Addresses :
                    /\ A[x].magic = m[x].magic
                    /\ A[x].size = IF x = b THEN m[b].size + HeaderSize + m[n].size
                                            ELSE m[x].size
                    /\ A[x].next = IF x = b THEN m[n].next ELSE m[x].next
                    /\ A[x].prev = IF x = m[n].next THEN b ELSE m[x].prev
<1> DEFINE n == m[b].next
           s == m[n].next
           J == [m EXCEPT ![b].size = @ + HeaderSize + m[n].size, ![b].next = s]
<1>1. n \in Addresses /\ s \in Addresses \cup {NULL} /\ m[b] \in Header /\ m[n] \in Header
  BY DEF Header
<1>2. m[b].size + HeaderSize + m[n].size \in 0 .. Capacity
  BY <1>1, Sizes DEF Header
<1>3. J = [m EXCEPT ![b] = [@ EXCEPT !.size = m[b].size + HeaderSize + m[n].size, !.next = s]]
  OBVIOUS
<1>4. J[b] = [m[b] EXCEPT !.size = m[b].size + HeaderSize + m[n].size, !.next = s]
  BY <1>3
<1>5. /\ J \in [Addresses -> Header]
      /\ \A x \in Addresses : x # b => J[x] = m[x]
  <2>1. [m[b] EXCEPT !.size = m[b].size + HeaderSize + m[n].size, !.next = s] \in Header
    BY <1>1, <1>2 DEF Header
  <2> QED
    BY <1>3, <2>1
<1>6. /\ J[b].magic = m[b].magic /\ J[b].next = s /\ J[b].prev = m[b].prev
      /\ J[b].size = m[b].size + HeaderSize + m[n].size
  BY <1>1, <1>4 DEF Header
<1> HIDE DEF J
<1>7. Absorb(m, b) = IF s = NULL THEN J ELSE [J EXCEPT ![s].prev = b]
  BY DEF Absorb, SetPrev, J
<1>8. CASE s = NULL
  BY <1>1, <1>5, <1>6, <1>7, <1>8, Sizes
<1>9. CASE s \in Addresses
  <2> DEFINE A == [J EXCEPT ![s] = [J[s] EXCEPT !.prev = b]]
  <2>1. Absorb(m, b) = A
    BY <1>7, <1>9, Sizes
  <2>2. J[s] \in Header /\ s # b
    BY <1>5, <1>9
  <2>3. [J[s] EXCEPT !.prev = b] \in Header
    BY <2>2 DEF Header
  <2>4. /\ A \in [Addresses -> Header]
        /\ A[s] = [J[s] EXCEPT !.prev = b]
        /\ \A x \in Addresses : x # s => A[x] = J[x]
    BY <1>5, <1>9, <2>3
  <2>5. /\ A[s].magic = m[s].magic /\ A[s].size = m[s].size
        /\ A[s].next = m[s].next /\ A[s].prev = b
    BY <1>5, <1>9, <2>2, <2>4 DEF Header
  <2> HIDE DEF A
  <2> QED
    BY <1>5, <1>6, <1>9, <2>1, <2>2, <2>4, <2>5
<1> QED
  BY <1>1, <1>8, <1>9

(* A list stays one when nothing but the magics of its headers and what    *)
(* is between them changes.                                                *)
LEMMA ListedAlike ==
    ASSUME NEW m, NEW C, Listed(m, C),
           NEW w \in [Addresses -> Header],
           \A x \in C : /\ w[x].size = m[x].size /\ w[x].next = m[x].next
                        /\ w[x].prev = m[x].prev /\ w[x].magic # "JUNK"
    PROVE  Listed(w, C)
<1>1. \A x \in C : End(w, x) = End(m, x) /\ m[x].next \in C \cup {NULL}
                                         /\ m[x].prev \in C \cup {NULL}
  BY DEF Listed, Linked, End
<1>2. ASSUME NEW b \in C PROVE Linked(w, C, b)
  BY <1>1, <1>2 DEF Listed, Linked
<1> QED
  BY <1>1, <1>2 DEF Listed

(* What the list says of a block and its neighbours.                       *)
LEMMA ListedBlock ==
    ASSUME NEW m, NEW C, Listed(m, C), NEW b \in C
    PROVE  /\ b \in Addresses /\ m[b] \in Header
           /\ m[b].size \in 1 .. Capacity
           /\ End(m, b) \in Nat /\ b + HeaderSize < End(m, b) /\ End(m, b) <= ArenaSize
           /\ m[b].next # NULL =>
                m[b].next \in C /\ m[b].next = End(m, b) /\ b < m[b].next
           /\ m[b].prev # NULL => m[b].prev \in C /\ m[m[b].prev].next = b
<1>1. b \in Addresses /\ m[b] \in Header /\ m[b].size \in 0 .. Capacity
  BY DEF Listed, Header
<1> QED
  BY <1>1, Sizes DEF Listed, Linked, End

(* Absorbing the next block takes it off the list.                         *)
LEMMA AbsorbListed ==
    ASSUME NEW m, NEW C, Listed(m, C), NEW b \in C, m[b].next # NULL
    PROVE  LET A == Absorb(m, b)
               n == m[b].next
           IN  /\ Listed(A, C \ {n})
               /\ n \in C /\ n # b
               /\ \A x \in Addresses : A[x].magic = m[x].magic
               /\ \A x \in Addresses : x # b => A[x].size = m[x].size
               /\ \A x \in C : /\ A[x].next = IF x = b THEN m[n].next ELSE m[x].next
                               /\ x # m[n].next => A[x].prev = m[x].prev
               /\ m[n].next # b
<1> DEFINE A == Absorb(m, b)
           n == m[b].next
           s == m[n].next
           D == C \ {n}
<1>1. /\ b \in Addresses /\ m[b] \in Header /\ m[b].size \in 1 .. Capacity
      /\ n \in C /\ n = End(m, b) /\ b < n /\ b \in Nat /\ n \in Nat
  BY ListedBlock, Sizes
<1>2. /\ n \in Addresses /\ m[n] \in Header /\ m[n].size \in 1 .. Capacity
      /\ End(m, n) \in Nat /\ End(m, n) <= ArenaSize /\ n + HeaderSize < End(m, n)
      /\ s # NULL => s \in C /\ s = End(m, n) /\ n < s
  BY <1>1, ListedBlock
<1>3. s # b /\ s # n
  BY <1>1, <1>2, Sizes
<1>4. m[b].size + HeaderSize + m[n].size <= Capacity
  BY <1>1, <1>2, Sizes DEF End
<1>5. /\ A \in [Addresses -> Header]
      /\ \A x \in Addresses :
           /\ A[x].magic = m[x].magic
           /\ A[x].size = IF x = b THEN m[b].size + HeaderSize + m[n].size
                                   ELSE m[x].size
           /\ A[x].next = IF x = b THEN s ELSE m[x].next
           /\ A[x].prev = IF x = s THEN b ELSE m[x].prev
  BY <1>1, <1>2, <1>3, <1>4, AbsorbFields DEF Listed
<1> HIDE DEF A
<1>6. \A x \in D : End(A, x) = IF x = b THEN End(m, n) ELSE End(m, x)
  <2> TAKE x \in D
  <2>1. x \in Addresses
    BY DEF Listed
  <2>2. End(A, x) = x + HeaderSize + A[x].size /\ End(m, x) = x + HeaderSize + m[x].size
    BY DEF End
  <2>3. CASE x = b
    <3>1. A[b].size = m[b].size + HeaderSize + m[n].size
      BY <1>1, <1>5
    <3>2. n = b + HeaderSize + m[b].size /\ End(m, n) = n + HeaderSize + m[n].size
      BY <1>1 DEF End
    <3> QED
      BY <1>1, <1>2, <2>2, <2>3, <3>1, <3>2, Sizes
  <2>4. CASE x # b
    BY <1>5, <2>1, <2>2, <2>4
  <2> QED
    BY <2>3, <2>4
<1>7. D \subseteq Addresses /\ b \in D /\ 0 \in D /\ A[0].prev = NULL
  <2>1. n # 0
    BY <1>1
  <2>2. s # 0
    BY <1>2, Sizes
  <2>3. 0 \in Addresses /\ 0 \in C /\ m[0].prev = NULL /\ C \subseteq Addresses
    BY DEF Listed
  <2>4. A[0].prev = NULL
    BY <1>5, <2>2, <2>3
  <2>5. b # n
    BY <1>1
  <2> QED
    BY <2>1, <2>3, <2>4, <2>5
<1>8. ASSUME NEW x \in D PROVE Linked(A, D, x)
  <2>1. Linked(m, C, x) /\ x \in Addresses /\ x \in C /\ x # n
    BY DEF Listed
  <2>2. CASE x = b
    <3>1. A[x].magic # "JUNK" /\ A[x].size > 0 /\ A[x].next = s /\ A[x].prev = m[b].prev
      BY <1>1, <1>2, <1>3, <1>5, <2>1, <2>2, Sizes DEF Linked
    <3>2. End(A, x) = End(m, n)
      BY <1>6, <2>2
    <3>3. s # NULL => s \in D /\ A[s].prev = x
      BY <1>2, <1>3, <1>5, <2>2, Sizes DEF Listed
    <3>4. m[n].next = NULL => End(m, n) = ArenaSize
      BY <1>1 DEF Listed, Linked
    <3>5. m[b].prev # NULL => m[b].prev \in D /\ A[m[b].prev].next = x
      <4>1. m[b].prev # NULL => m[b].prev \in C /\ m[m[b].prev].next = b
        BY <2>1, <2>2 DEF Linked
      <4> QED
        BY <1>1, <1>3, <1>5, <2>2, <4>1 DEF Listed
    <3> QED
      BY <1>2, <3>1, <3>2, <3>3, <3>4, <3>5 DEF Linked
  <2>3. CASE x # b
    <3>1. /\ A[x].magic = m[x].magic /\ A[x].size = m[x].size /\ A[x].next = m[x].next
          /\ End(A, x) = End(m, x)
      BY <1>5, <1>6, <2>1, <2>3
    <3>2. m[x].next # n
      <4>1. m[n].prev = b
        BY <1>1 DEF Listed, Linked
      <4> QED
        BY <1>1, <2>1, <2>3, <4>1, Sizes DEF Linked
    <3>3. m[x].next # NULL => m[x].next \in D /\ A[m[x].next].prev = x
      <4>1. m[x].next # NULL => m[x].next \in C /\ m[m[x].next].prev = x
        BY <2>1 DEF Linked
      <4>2. m[x].next # NULL => m[x].next # s
        <5>1. s # NULL => m[s].prev = n
          BY <1>1 DEF Listed, Linked
        <5> QED
          BY <2>1, <4>1, <5>1
      <4> QED
        BY <1>5, <3>2, <4>1, <4>2 DEF Listed
    <3>4. A[x].prev # NULL => A[x].prev \in D /\ A[A[x].prev].next = x
      <4>1. CASE x = s
        BY <1>1, <1>5, <1>7, <2>1, <4>1
      <4>2. CASE x # s
        <5>1. A[x].prev = m[x].prev
          BY <1>5, <2>1, <4>2
        <5>2. m[x].prev # NULL =>
                m[x].prev \in C /\ m[m[x].prev].next = x /\ m[x].prev # n /\ m[x].prev # b
          BY <2>1, <4>2 DEF Linked
        <5> QED
          BY <1>5, <5>1, <5>2 DEF Listed
      <4> QED
        BY <4>1, <4>2
    <3> QED
      BY <2>1, <3>1, <3>3, <3>4 DEF Linked
  <2> QED
    BY <2>2, <2>3
<1>9. ASSUME NEW x \in D, NEW z \in D, x < z PROVE End(A, x) <= z
  <2>1. CASE x = b
    <3>1. n < z
      <4>1. End(m, b) <= z
        BY <1>1, <1>9, <2>1 DEF Listed
      <4> QED
        <5>1. z \in Nat /\ z # n
          BY Sizes DEF Listed
        <5> QED
          BY <1>1, <4>1, <5>1
    <3>2. End(m, n) <= z
      BY <1>1, <3>1 DEF Listed
    <3> QED
      BY <1>6, <2>1, <3>2
  <2>2. CASE x # b
    BY <1>6, <1>9, <2>2 DEF Listed
  <2> QED
    BY <2>1, <2>2
<1>10. ASSUME NEW x \in Addresses PROVE \E d \in D : d <= x /\ x < End(A, d)
  <2>1. PICK d \in C : d <= x /\ x < End(m, d)
    BY DEF Listed
  <2>2. CASE d \notin {b, n}
    BY <1>6, <2>1, <2>2
  <2>3. CASE d = b
    <3>1. b <= x /\ x < End(m, n)
      BY <1>1, <1>2, <2>1, <2>3, Sizes
    <3> QED
      BY <1>6, <1>7, <3>1
  <2>4. CASE d = n
    <3>1. b <= x /\ x < End(m, n)
      BY <1>1, <1>2, <2>1, <2>4, Sizes
    <3> QED
      BY <1>6, <1>7, <3>1
  <2> QED
    BY <2>2, <2>3, <2>4
<1>11. Listed(A, D)
  BY <1>5, <1>7, <1>8, <1>9, <1>10 DEF Listed
<1>12. C \subseteq Addresses
  BY DEF Listed
<1> QED
  BY <1>1, <1>3, <1>5, <1>11, <1>12 DEF A

(* Splitting block b: what each header becomes.                            *)
LEMMA SplitFields ==
    ASSUME Listed(mem, chain), NEW b \in chain, NEW n \in 1 .. Capacity, Splits(b, n)
    PROVE  LET r == Rest(b, n)
               s == mem[b].next
               A == Split(b, n)
           IN  /\ r \in Addresses /\ b < r /\ r = b + HeaderSize + n
               /\ r + HeaderSize < End(mem, b)
               /\ A \in [Addresses -> Header]
               /\ A[b].magic = "ALLOC" /\ A[b].size = n /\ A[b].next = r
               /\ A[b].prev = mem[b].prev
               /\ A[r].magic = "FREE" /\ A[r].size = mem[b].size - n - HeaderSize
               /\ A[r].next = s /\ A[r].prev = b
               /\ \A x \in Addresses \ {b, r} :
                    \/ r < x /\ x < r + HeaderSize /\ A[x] = Junk
                    \/ /\ ~(r < x /\ x < r + HeaderSize)
                       /\ A[x].magic = mem[x].magic /\ A[x].size = mem[x].size
                       /\ A[x].next = mem[x].next
                       /\ A[x].prev = IF x = s THEN r ELSE mem[x].prev
<1> DEFINE r == Rest(b, n)
           s == mem[b].next
           rest == [magic |-> "FREE", size |-> mem[b].size - n - HeaderSize,
                    prev |-> b, next |-> s]
           stored == Store(mem, r, rest)
           linked == SetPrev(stored, s, r)
           A == Split(b, n)
<1>1. /\ mem \in [Addresses -> Header] /\ b \in Addresses /\ mem[b] \in Header
      /\ mem[b].size \in 1 .. Capacity /\ b \in Nat
      /\ End(mem, b) = b + HeaderSize + mem[b].size /\ End(mem, b) <= ArenaSize
      /\ s # NULL => s \in Addresses /\ s = End(mem, b)
  BY ListedBlock, Sizes DEF Listed, End
<1>2. /\ r = b + HeaderSize + n /\ r \in Nat /\ b < r
      /\ r + HeaderSize < End(mem, b)
      /\ mem[b].size - n - HeaderSize \in 1 .. Capacity
  BY <1>1, Sizes DEF Rest, Splits
<1>3. r \in Addresses /\ r # b
  BY <1>1, <1>2, Sizes
<1>4. rest \in Header /\ Junk \in Header
  BY <1>1, <1>2, Sizes DEF Header, Junk
<1>5. /\ stored \in [Addresses -> Header]
      /\ stored[r] = rest
      /\ \A x \in Addresses \ {r} :
           stored[x] = IF r < x /\ x < r + HeaderSize THEN Junk ELSE mem[x]
  <2> HIDE DEF rest, r
  <2> QED
    BY <1>1, <1>3, <1>4 DEF Store
<1>6. rest.magic = "FREE" /\ rest.size = mem[b].size - n - HeaderSize
      /\ rest.prev = b /\ rest.next = s
  OBVIOUS
<1> HIDE DEF rest, stored
<1>7. /\ linked \in [Addresses -> Header]
      /\ linked[r] = rest /\ linked[b] = mem[b]
      /\ \A x \in Addresses \ {b, r} :
           \/ r < x /\ x < r + HeaderSize /\ linked[x] = Junk
           \/ /\ ~(r < x /\ x < r + HeaderSize)
              /\ linked[x].magic = mem[x].magic /\ linked[x].size = mem[x].size
              /\ linked[x].next = mem[x].next
              /\ linked[x].prev = IF x = s THEN r ELSE mem[x].prev
  <2>1. stored[b] = mem[b]
    BY <1>1, <1>2, <1>3, <1>5, Sizes
  <2>2. CASE s = NULL
    <3>1. linked = stored
      BY <2>2 DEF SetPrev
    <3> HIDE DEF r, linked
    <3> QED
      BY <1>1, <1>3, <1>5, <2>1, <2>2, <3>1, Sizes
  <2>3. CASE s # NULL
    <3>1. s \in Addresses /\ s # r /\ s # b /\ s >= r + HeaderSize /\ s \in Nat
      BY <1>1, <1>2, <2>3, Sizes
    <3>2. linked = [stored EXCEPT ![s] = [stored[s] EXCEPT !.prev = r]]
      BY <2>3 DEF SetPrev
    <3>3. stored[s] = mem[s] /\ mem[s] \in Header
      BY <1>1, <1>2, <1>5, <3>1, Sizes
    <3>4. [stored[s] EXCEPT !.prev = r] \in Header
      BY <1>3, <3>3 DEF Header
    <3>5. /\ linked \in [Addresses -> Header]
          /\ linked[s] = [mem[s] EXCEPT !.prev = r]
          /\ \A x \in Addresses : x # s => linked[x] = stored[x]
      <4> HIDE DEF r, linked
      <4> QED
        BY <1>5, <3>1, <3>2, <3>3, <3>4
    <3>6. linked[s].magic = mem[s].magic /\ linked[s].size = mem[s].size
          /\ linked[s].next = mem[s].next /\ linked[s].prev = r
      BY <3>3, <3>5 DEF Header
    <3> HIDE DEF r, linked
    <3>7. linked[r] = rest /\ linked[b] = mem[b]
      BY <1>1, <1>3, <1>5, <2>1, <3>1, <3>5
    <3>8. ~(r < s /\ s < r + HeaderSize)
      BY <1>2, <3>1, Sizes
    <3> QED
      BY <1>5, <3>1, <3>5, <3>6, <3>7, <3>8
  <2> QED
    BY <2>2, <2>3
<1> DEFINE top == [mem[b] EXCEPT !.magic = "ALLOC", !.size = n, !.next = r]
<1>8. A = [linked EXCEPT ![b] = [linked[b] EXCEPT !.magic = "ALLOC", !.size = n, !.next = r]]
  BY DEF Split, stored, rest
<1>9. /\ top \in Header
      /\ top.magic = "ALLOC" /\ top.size = n /\ top.next = r /\ top.prev = mem[b].prev
  <2>1. n \in 0 .. Capacity
    BY Sizes
  <2> HIDE DEF r
  <2>2. top \in Header
    BY <1>1, <1>3, <2>1 DEF Header
  <2> QED
    BY <1>1, <2>2 DEF Header
<1> HIDE DEF r, linked, top, A
<1>10. A = [linked EXCEPT ![b] = top]
  BY <1>7, <1>8 DEF top
<1>11. /\ A \in [Addresses -> Header] /\ A[b] = top
       /\ \A x \in Addresses : x # b => A[x] = linked[x]
  BY <1>1, <1>7, <1>9, <1>10
<1>12. /\ A[b].magic = "ALLOC" /\ A[b].size = n /\ A[b].next = r
       /\ A[b].prev = mem[b].prev
       /\ A[r].magic = "FREE" /\ A[r].size = mem[b].size - n - HeaderSize
       /\ A[r].next = s /\ A[r].prev = b
  BY <1>3, <1>6, <1>7, <1>9, <1>11
<1>13. \A x \in Addresses \ {b, r} :
            \/ r < x /\ x < r + HeaderSize /\ A[x] = Junk
            \/ /\ ~(r < x /\ x < r + HeaderSize)
               /\ A[x].magic = mem[x].magic /\ A[x].size = mem[x].size
               /\ A[x].next = mem[x].next
               /\ A[x].prev = IF x = s THEN r ELSE mem[x].prev
  BY <1>7, <1>11
<1> QED
  BY <1>2, <1>3, <1>11, <1>12, <1>13 DEF r, A

(* The rest of a block that is split goes on the list behind it.           *)
LEMMA SplitListed ==
    ASSUME Listed(mem, chain), NEW b \in chain, NEW n \in 1 .. Capacity, Splits(b, n)
    PROVE  LET r == Rest(b, n)
               A == Split(b, n)
           IN  /\ Listed(A, chain \cup {r})
               /\ r \in Addresses /\ r # b /\ r \notin chain
               /\ A[b].magic = "ALLOC" /\ A[b].next = r
               /\ A[r].magic = "FREE" /\ A[r].next = mem[b].next
               /\ \A x \in chain \ {b} : A[x].magic = mem[x].magic /\ A[x].next = mem[x].next
               /\ \A x \in chain \ {b} : A[x].size = mem[x].size
               /\ A[b].size = n
               /\ \A x \in Addresses \ {b, r} : A[x].magic \in {mem[x].magic, "JUNK"}
<1> DEFINE r == Rest(b, n)
           s == mem[b].next
           A == Split(b, n)
           D == chain \cup {r}
<1>1. /\ mem \in [Addresses -> Header] /\ b \in Addresses /\ b \in Nat
      /\ mem[b].size \in 1 .. Capacity
      /\ End(mem, b) = b + HeaderSize + mem[b].size /\ End(mem, b) <= ArenaSize
      /\ s # NULL => s \in chain /\ s = End(mem, b)
      /\ chain \subseteq Addresses /\ 0 \in chain
  BY ListedBlock, Sizes DEF Listed, End
<1>2. /\ r \in Addresses /\ b < r /\ r = b + HeaderSize + n
      /\ r + HeaderSize < End(mem, b)
      /\ A \in [Addresses -> Header]
      /\ A[b].magic = "ALLOC" /\ A[b].size = n /\ A[b].next = r
      /\ A[b].prev = mem[b].prev
      /\ A[r].magic = "FREE" /\ A[r].size = mem[b].size - n - HeaderSize
      /\ A[r].next = s /\ A[r].prev = b
  BY SplitFields
<1>3. \A x \in Addresses \ {b, r} :
          \/ r < x /\ x < r + HeaderSize /\ A[x] = Junk
          \/ /\ ~(r < x /\ x < r + HeaderSize)
             /\ A[x].magic = mem[x].magic /\ A[x].size = mem[x].size
             /\ A[x].next = mem[x].next
             /\ A[x].prev = IF x = s THEN r ELSE mem[x].prev
  BY SplitFields
<1> HIDE DEF r, A
<1>4. ASSUME NEW x \in chain \ {b} PROVE x < b \/ End(mem, b) <= x
  BY <1>1, Sizes DEF Listed
<1>5. r \notin chain /\ r # b
  <2>1. r \in Nat /\ r < End(mem, b)
    BY <1>1, <1>2, Sizes
  <2>2. ASSUME r \in chain PROVE FALSE
    <3>1. r \in chain \ {b} /\ b \in Nat /\ b < r
      BY <1>1, <1>2, <2>1, <2>2
    <3>2. r < b \/ End(mem, b) <= r
      BY <1>4, <3>1
    <3>3. End(mem, b) \in Nat
      BY ListedBlock
    <3> QED
      BY <2>1, <3>1, <3>2, <3>3
  <2> QED
    BY <1>1, <1>2, <2>1, <2>2
<1>6. ASSUME NEW x \in chain \ {b}
      PROVE  /\ A[x].magic = mem[x].magic /\ A[x].size = mem[x].size
             /\ A[x].next = mem[x].next
             /\ A[x].prev = IF x = s THEN r ELSE mem[x].prev
             /\ End(A, x) = End(mem, x)
  <2>1. x \in Addresses \ {b, r} /\ x \in Nat
    BY <1>1, <1>5, Sizes
  <2>2. ~(r < x /\ x < r + HeaderSize)
    BY <1>1, <1>2, <1>4, <2>1, Sizes
  <2> QED
    BY <1>3, <2>1, <2>2 DEF End
<1>7. End(A, b) = r /\ End(A, r) = End(mem, b)
  BY <1>1, <1>2, Sizes DEF End
<1>8. s # b /\ s # r
  BY <1>1, <1>2, <1>5, Sizes
<1>9. D \subseteq Addresses /\ 0 \in D /\ A[0].prev = NULL
  <2>1. mem[0].prev = NULL
    BY DEF Listed
  <2>2. s # 0
    BY <1>1, <1>2, Sizes
  <2>3. CASE b = 0
    BY <1>1, <1>2, <2>1, <2>3
  <2>4. CASE b # 0
    BY <1>1, <1>2, <1>6, <2>1, <2>2, <2>4
  <2> QED
    BY <2>3, <2>4
<1>10. ASSUME NEW x \in D PROVE Linked(A, D, x)
  <2>1. CASE x = b
    <3>1. mem[b].prev # NULL => mem[b].prev \in chain /\ mem[mem[b].prev].next = b
      BY ListedBlock
    <3>2. mem[b].prev # b
      BY <1>1, <3>1, Sizes DEF Listed, Linked
    <3>3. A[b].prev # NULL => A[b].prev \in D /\ A[A[b].prev].next = b
      BY <1>2, <1>6, <3>1, <3>2
    <3> QED
      BY <1>1, <1>2, <1>7, <2>1, <3>3, Sizes DEF Linked
  <2>2. CASE x = r
    <3>1. s = NULL => End(mem, b) = ArenaSize
      BY DEF Listed, Linked
    <3>2. s # NULL => s \in D /\ A[s].prev = r /\ s = End(mem, b)
      BY <1>1, <1>6, <1>8
    <3>3. A[r].size > 0
      BY <1>1, <1>2, Sizes
    <3>4. b \in D
      OBVIOUS
    <3> QED
      BY <1>1, <1>2, <1>7, <2>2, <3>1, <3>2, <3>3, <3>4 DEF Linked
  <2>3. CASE x \notin {b, r}
    <3>1. x \in chain \ {b} /\ Linked(mem, chain, x)
      BY <2>3 DEF Listed
    <3>2. /\ A[x].magic = mem[x].magic /\ A[x].size = mem[x].size
          /\ A[x].next = mem[x].next /\ End(A, x) = End(mem, x)
          /\ A[x].prev = IF x = s THEN r ELSE mem[x].prev
      BY <1>6, <3>1
    <3>3. mem[x].next # NULL => mem[x].next \in D /\ A[mem[x].next].prev = x
      <4>1. mem[x].next # NULL => mem[x].next \in chain /\ mem[mem[x].next].prev = x
        BY <3>1 DEF Linked
      <4>2. s # NULL => mem[s].prev = b
        BY DEF Listed, Linked
      <4>3. CASE mem[x].next = b
        BY <1>1, <1>2, <4>1, <4>3, Sizes
      <4>4. CASE mem[x].next # b
        BY <1>6, <3>1, <4>1, <4>2, <4>4
      <4> QED
        BY <4>3, <4>4
    <3>4. A[x].prev # NULL => A[x].prev \in D /\ A[A[x].prev].next = x
      <4>1. CASE x = s
        BY <1>2, <3>2, <4>1
      <4>2. CASE x # s
        <5>1. mem[x].prev # NULL =>
                mem[x].prev \in chain /\ mem[mem[x].prev].next = x /\ mem[x].prev # b
          BY <3>1, <4>2 DEF Linked
        <5> QED
          BY <1>6, <3>2, <4>2, <5>1
      <4> QED
        BY <4>1, <4>2
    <3> QED
      BY <3>1, <3>2, <3>3, <3>4 DEF Linked
  <2> QED
    BY <2>1, <2>2, <2>3
<1>11. ASSUME NEW x \in D, NEW z \in D, x < z PROVE End(A, x) <= z
  <2>1. \A u, v \in chain : u < v => End(mem, u) <= v
    BY DEF Listed
  <2>2. \A u \in chain : u \in Nat /\ End(mem, u) \in Nat
    BY <1>1, ListedBlock, Sizes
  <2>3. CASE x = b
    <3>1. CASE z = r
      BY <1>1, <1>2, <1>7, <2>3, <3>1, Sizes
    <3>2. CASE z # r
      BY <1>1, <1>2, <1>7, <1>11, <2>1, <2>2, <2>3, <3>2, Sizes
    <3> QED
      BY <3>1, <3>2
  <2>4. CASE x = r
    <3>1. z \in chain \ {b} /\ z \in Nat
      BY <1>1, <1>2, <1>11, <2>2, <2>4, Sizes
    <3>2. End(mem, b) <= z
      BY <1>1, <1>2, <1>4, <1>11, <2>4, <3>1, Sizes
    <3> QED
      BY <1>7, <2>4, <3>2
  <2>5. CASE x \notin {b, r}
    <3>1. x \in chain \ {b} /\ End(A, x) = End(mem, x)
      BY <1>6, <2>5
    <3>2. CASE z = r
      <4>1. x < b
        BY <1>1, <1>2, <1>4, <1>11, <2>2, <3>1, <3>2, Sizes
      <4>2. End(mem, x) <= b
        BY <2>1, <3>1, <4>1
      <4> QED
        BY <1>1, <1>2, <2>2, <3>1, <3>2, <4>2, Sizes
    <3>3. CASE z # r
      BY <1>11, <2>1, <3>1, <3>3
    <3> QED
      BY <3>2, <3>3
  <2> QED
    BY <2>3, <2>4, <2>5
<1>12. ASSUME NEW x \in Addresses PROVE \E d \in D : d <= x /\ x < End(A, d)
  <2>1. PICK d \in chain : d <= x /\ x < End(mem, d)
    BY DEF Listed
  <2>2. CASE d # b
    BY <1>6, <2>1, <2>2
  <2>3. CASE d = b /\ x < r
    BY <1>7, <2>1, <2>3
  <2>4. CASE d = b /\ ~(x < r)
    <3>1. r <= x /\ x < End(A, r) /\ r \in D
      BY <1>1, <1>2, <1>7, <2>1, <2>4, Sizes
    <3> QED
      BY <3>1
  <2> QED
    BY <2>2, <2>3, <2>4
<1>13. Listed(A, D)
  BY <1>2, <1>9, <1>10, <1>11, <1>12 DEF Listed
<1>14. \A x \in Addresses \ {b, r} : A[x].magic \in {mem[x].magic, "JUNK"}
  BY <1>3 DEF Junk
<1> QED
  BY <1>2, <1>5, <1>6, <1>13, <1>14 DEF r, A

(* No two free blocks are neighbours.                                      *)
Apart(m, C) ==
    \A x \in C : m[x].next # NULL => ~(m[x].magic = "FREE" /\ m[m[x].next].magic = "FREE")

(* What holds of the arena between any two calls.                          *)
ArenaInv ==
    /\ Listed(mem, chain)
    /\ Apart(mem, chain)
    /\ AcceptsOnlyHeld
    /\ \A p \in held : p \in Addresses /\ p - HeaderSize \in chain

(* Releasing a block merges it with the free neighbours it has, and leaves *)
(* every other block as it was.                                            *)
LEMMA ReleaseListed ==
    ASSUME Listed(mem, chain), Apart(mem, chain), NEW b \in chain, mem[b].magic = "ALLOC"
    PROVE  /\ Listed(Release(b), chain \ Absorbed(b))
           /\ Apart(Release(b), chain \ Absorbed(b))
           /\ \A x \in Addresses :
                Release(b)[x].magic = IF x = b THEN "FREE" ELSE mem[x].magic
           /\ \A x \in Addresses :
                mem[x].magic = "ALLOC" /\ x # b => Release(b)[x].size = mem[x].size
<1> DEFINE F0 == [mem EXCEPT ![b].magic = "FREE"]
           F1 == Forward(F0, b)
           F2 == Backward(F1, b)
           n == mem[b].next
           q == mem[b].prev
           C1 == chain \ {c \in {n} : Free(mem, c)}
           C2 == C1 \ {c \in {b} : Free(mem, q)}
<1>1. /\ mem \in [Addresses -> Header] /\ b \in Addresses /\ mem[b] \in Header
      /\ chain \subseteq Addresses
      /\ n # NULL => n \in chain /\ n # b /\ mem[n].prev = b /\ mem[n].next # b
      /\ q # NULL => q \in chain /\ q # b /\ mem[q].next = b
  <2>1. b \in Nat /\ End(mem, b) \in Nat /\ b < End(mem, b)
    BY ListedBlock, Sizes
  <2>2. n # NULL => n \in chain /\ n # b /\ mem[n].prev = b /\ mem[n].next # b
    <3>1. n # NULL => n \in chain /\ b < n /\ mem[n].prev = b /\ n \in Nat
      BY ListedBlock, Sizes DEF Listed, Linked
    <3>2. n # NULL => (mem[n].next # NULL => n < mem[n].next)
      BY <3>1, ListedBlock
    <3>3. b # NULL
      BY ListedBlock, Sizes
    <3> QED
      BY <2>1, <3>1, <3>2, <3>3, Sizes
  <2>3. q # NULL => q \in chain /\ q # b /\ mem[q].next = b
    <3>1. q # NULL => q \in chain /\ mem[q].next = b
      BY DEF Listed, Linked
    <3>2. q # NULL => q < mem[q].next /\ q \in Nat
      BY <2>1, <3>1, ListedBlock, Sizes
    <3> QED
      BY <2>1, <3>1, <3>2
  <2> QED
    BY <2>2, <2>3, ListedBlock DEF Listed
<1>2. /\ F0 \in [Addresses -> Header]
      /\ \A x \in Addresses :
           /\ F0[x].magic = IF x = b THEN "FREE" ELSE mem[x].magic
           /\ F0[x].size = mem[x].size /\ F0[x].next = mem[x].next
           /\ F0[x].prev = mem[x].prev
  <2> DEFINE top == [mem[b] EXCEPT !.magic = "FREE"]
  <2>1. top \in Header
    BY <1>1 DEF Header
  <2>2. /\ top.magic = "FREE" /\ top.size = mem[b].size
        /\ top.next = mem[b].next /\ top.prev = mem[b].prev
    BY <1>1 DEF Header
  <2>3. F0 = [mem EXCEPT ![b] = top]
    OBVIOUS
  <2> HIDE DEF top, F0
  <2> QED
    BY <1>1, <2>1, <2>2, <2>3
<1> HIDE DEF F0
<1>3. Listed(F0, chain)
  <2>1. \A x \in chain : /\ F0[x].size = mem[x].size /\ F0[x].next = mem[x].next
                         /\ F0[x].prev = mem[x].prev /\ F0[x].magic # "JUNK"
    BY <1>1, <1>2 DEF Listed, Linked
  <2> QED
    BY <1>2, <2>1, ListedAlike
<1>4. /\ Listed(F1, C1) /\ C1 \subseteq Addresses /\ b \in C1
      /\ \A x \in Addresses : F1[x].magic = F0[x].magic
      /\ \A x \in Addresses : x # b => F1[x].size = mem[x].size
      /\ F1[b].next # NULL => F1[F1[b].next].magic # "FREE" /\ F1[b].next # b
      /\ F1[b].prev = q
      /\ \A x \in C1 : x # b => F1[x].next = mem[x].next
  <2>1. CASE Free(mem, n)
    <3>1. n # NULL /\ n \in chain /\ n # b /\ Free(F0, F0[b].next) /\ F0[b].next = n
      BY <1>1, <1>2, <2>1 DEF Free
    <3>2. F1 = Absorb(F0, b) /\ C1 = chain \ {n}
      BY <2>1, <3>1 DEF Forward
    <3>3. /\ Listed(F1, C1)
          /\ \A x \in Addresses : F1[x].magic = F0[x].magic
          /\ \A x \in Addresses : x # b => F1[x].size = F0[x].size
          /\ \A x \in chain : /\ F1[x].next = IF x = b THEN F0[n].next ELSE F0[x].next
                              /\ x # F0[n].next => F1[x].prev = F0[x].prev
          /\ F0[n].next # b
      <4>1. F0[b].next # NULL
        BY <3>1
      <4> QED
        BY <1>3, <3>1, <3>2, <4>1, AbsorbListed
    <3>4. F1[b].next = mem[n].next /\ F1[b].prev = q
      BY <1>1, <1>2, <3>1, <3>3
    <3>5. mem[n].next # NULL => mem[mem[n].next].magic # "FREE" /\ mem[n].next \in chain
      BY <2>1, <3>1, ListedBlock DEF Apart, Free
    <3> QED
      BY <1>1, <1>2, <3>1, <3>2, <3>3, <3>4, <3>5
  <2>2. CASE ~Free(mem, n)
    <3>1. ~Free(F0, F0[b].next)
      BY <1>1, <1>2, <2>2 DEF Free
    <3>2. F1 = F0 /\ C1 = chain
      BY <2>2, <3>1 DEF Forward
    <3>3. F1[b].next = n /\ F1[b].prev = q
      BY <1>1, <1>2, <3>2
    <3>4. n # NULL => F1[n].magic # "FREE" /\ n # b
      BY <1>1, <1>2, <2>2, <3>2 DEF Free
    <3>5. \A x \in C1 : F1[x].next = mem[x].next
      BY <1>1, <1>2, <3>2
    <3> QED
      BY <1>1, <1>2, <1>3, <3>2, <3>3, <3>4, <3>5
  <2> QED
    BY <2>1, <2>2
<1> HIDE DEF F1
<1>5. \A x \in C1 : F1[x].next # NULL /\ F1[x].next # b /\ x # b =>
                       ~(F1[x].magic = "FREE" /\ F1[F1[x].next].magic = "FREE")
  <2> TAKE x \in C1
  <2>1. x \in chain /\ x \in Addresses
    BY <1>1
  <2>2. mem[x].next # NULL => /\ mem[x].next \in Addresses
                              /\ ~(mem[x].magic = "FREE" /\ mem[mem[x].next].magic = "FREE")
    BY <1>1, <2>1, ListedBlock DEF Apart
  <2> QED
    BY <1>2, <1>4, <2>1, <2>2
<1>6. /\ Listed(F2, C2)
      /\ \A x \in Addresses : F2[x].magic = F1[x].magic
      /\ \A x \in Addresses : mem[x].magic = "ALLOC" => F2[x].size = F1[x].size
      /\ Apart(F2, C2)
  <2>1. CASE Free(mem, q)
    <3>1. q # NULL /\ q \in chain /\ q # b /\ mem[q].magic = "FREE" /\ mem[q].next = b
      BY <1>1, <2>1 DEF Free
    <3>2. q \in C1 /\ F1[q].next = b /\ Free(F1, F1[b].prev) /\ F1[q].magic = "FREE"
      <4>1. q \in C1
        <5>1. n # NULL => q # n
          BY <1>1, <3>1
        <5> QED
          BY <3>1, <5>1
      <4> QED
        BY <1>1, <1>2, <1>4, <3>1, <4>1 DEF Free
    <3>3. F2 = Absorb(F1, q) /\ C2 = C1 \ {b}
      BY <1>4, <2>1, <3>2 DEF Backward
    <3>4. b # NULL
      BY <1>1, Sizes
    <3> HIDE DEF C1, C2, F2
    <3>5. /\ Listed(F2, C2)
          /\ \A x \in Addresses : F2[x].magic = F1[x].magic
          /\ \A x \in Addresses : x # q => F2[x].size = F1[x].size
          /\ \A x \in C1 : F2[x].next = IF x = q THEN F1[b].next ELSE F1[x].next
      <4>1. Listed(F1, C1) /\ q \in C1 /\ F1[q].next # NULL /\ F1[q].next = b
        BY <1>4, <3>2, <3>4
      <4> HIDE DEF F1, q
      <4> QED
        BY <3>3, <4>1, AbsorbListed
    <3>6. ASSUME NEW x \in C2, F2[x].next # NULL, F2[x].magic = "FREE",
                 F2[F2[x].next].magic = "FREE"
          PROVE  FALSE
      <4>1. x \in C1 /\ x # b /\ x \in Addresses /\ F2[x].next \in C2
        BY <1>4, <3>3, <3>5, <3>6, ListedBlock
      <4>2. F2[x].next \in Addresses /\ F2[x].next # b
        BY <1>4, <3>3, <4>1
      <4>3. CASE x = q
        BY <1>4, <3>5, <3>6, <4>1, <4>2, <4>3
      <4>4. CASE x # q
        BY <1>5, <3>5, <3>6, <4>1, <4>2, <4>4
      <4> QED
        BY <4>3, <4>4
    <3>7. \A x \in Addresses : mem[x].magic = "ALLOC" => x # q
      BY <3>1
    <3> QED
      BY <3>5, <3>6, <3>7 DEF Apart
  <2>2. CASE ~Free(mem, q)
    <3>1. ~Free(F1, F1[b].prev)
      BY <1>1, <1>2, <1>4, <2>2 DEF Free
    <3>2. F2 = F1 /\ C2 = C1
      BY <2>2, <3>1 DEF Backward
    <3>3. ASSUME NEW x \in C1, F1[x].next # NULL, F1[x].magic = "FREE",
                 F1[F1[x].next].magic = "FREE"
          PROVE  FALSE
      <4>1. CASE x = b
        BY <1>4, <3>3, <4>1
      <4>2. CASE x # b /\ F1[x].next = b
        <5>1. F1[b].prev = x
          BY <1>4, <3>3, <4>2 DEF Listed, Linked
        <5>2. x # NULL
          BY <1>4, Sizes
        <5> QED
          BY <1>4, <3>1, <3>3, <5>1, <5>2 DEF Free
      <4>3. CASE x # b /\ F1[x].next # b
        BY <1>5, <3>3, <4>3
      <4> QED
        BY <4>1, <4>2, <4>3
    <3> QED
      BY <1>4, <3>2, <3>3 DEF Apart
  <2> QED
    BY <2>1, <2>2
<1>7. F2 = Release(b)
  BY DEF Release, F1, F0
<1>8. C2 = chain \ Absorbed(b)
  BY DEF Absorbed
<1> HIDE DEF F2, C2
<1> QED
  BY <1>2, <1>4, <1>6, <1>7, <1>8

(* The invariant, call by call.  A held pointer is just behind the header  *)
(* of an allocated block.                                                  *)
LEMMA HeldBlock ==
    ASSUME ArenaInv, NEW p \in held
    PROVE  /\ p \in Addresses /\ p - HeaderSize \in chain
           /\ mem[p - HeaderSize].magic = "ALLOC"
           /\ End(mem, p - HeaderSize) = p + mem[p - HeaderSize].size
<1>1. p \in Addresses /\ p - HeaderSize \in chain /\ p \in Nat
  BY Sizes DEF ArenaInv
<1>2. p - HeaderSize \in Addresses /\ mem[p - HeaderSize].size \in Nat
  BY <1>1, ListedBlock, Sizes DEF ArenaInv
<1>3. (p - HeaderSize) + HeaderSize = p
  BY <1>1, Sizes
<1>4. mem[p - HeaderSize].magic = "ALLOC"
  BY <1>1, <1>2, <1>3 DEF ArenaInv, AcceptsOnlyHeld
<1> QED
  BY <1>1, <1>2, <1>3, <1>4 DEF End

LEMMA MallocKeeps ==
    ASSUME ArenaInv, NEW n \in Requests, Malloc(n)
    PROVE  ArenaInv'
<1>1. PICK b \in chain :
        /\ FirstFit(b, n)
        /\ IF Splits(b, n)
           THEN mem' = Split(b, n) /\ chain' = chain \cup {Rest(b, n)}
           ELSE mem' = [mem EXCEPT ![b].magic = "ALLOC"] /\ chain' = chain
        /\ held' = held \cup {b + HeaderSize}
  BY DEF Malloc
<1>2. /\ Listed(mem, chain) /\ chain \subseteq Addresses
      /\ b \in Addresses /\ b \in Nat /\ mem[b] \in Header /\ mem[b].magic = "FREE"
      /\ mem \in [Addresses -> Header]
      /\ n \in 1 .. Capacity
  BY <1>1, ListedBlock, Sizes DEF ArenaInv, Listed, FirstFit, Fits
<1>3. /\ b + HeaderSize \in Addresses /\ (b + HeaderSize) - HeaderSize = b
      /\ \A x \in Addresses : x + HeaderSize = b + HeaderSize => x = b
  BY <1>2, ListedBlock, Sizes
<1>4. \A p \in held' : p \in Addresses /\ p - HeaderSize \in chain'
  BY <1>1, <1>3 DEF ArenaInv
<1>5. \A x \in Addresses :
         x + HeaderSize \in held' <=> x + HeaderSize \in held \/ x = b
  BY <1>1, <1>3
<1>6. \A x \in Addresses : mem[x].magic = "ALLOC" <=> (x \in chain /\ x + HeaderSize \in held)
  BY DEF ArenaInv, AcceptsOnlyHeld
<1>7. \A x \in chain : mem[x].next # NULL =>
          mem[x].next \in chain /\ ~(mem[x].magic = "FREE" /\ mem[mem[x].next].magic = "FREE")
  BY ListedBlock DEF ArenaInv, Apart
<1>8. CASE Splits(b, n)
  <2> DEFINE r == Rest(b, n)
             A == Split(b, n)
  <2>1. /\ Listed(A, chain \cup {r})
        /\ r \in Addresses /\ r # b /\ r \notin chain
        /\ A[b].magic = "ALLOC" /\ A[b].next = r
        /\ A[r].magic = "FREE" /\ A[r].next = mem[b].next
        /\ \A x \in chain \ {b} : A[x].magic = mem[x].magic /\ A[x].next = mem[x].next
        /\ \A x \in Addresses \ {b, r} : A[x].magic \in {mem[x].magic, "JUNK"}
    BY <1>2, <1>8, SplitListed
  <2> HIDE DEF r, A
  <2>2. mem' = A /\ chain' = chain \cup {r}
    BY <1>1, <1>8 DEF r, A
  <2>3. Apart(mem', chain')
    <3> SUFFICES ASSUME NEW x \in chain \cup {r}, A[x].next # NULL,
                        A[x].magic = "FREE", A[A[x].next].magic = "FREE"
                 PROVE  FALSE
      BY <2>2 DEF Apart
    <3>1. CASE x = r
      BY <1>2, <1>7, <2>1, <3>1
    <3>2. CASE x # r
      <4>1. x \in chain \ {b}
        BY <2>1, <3>2
      <4> QED
        BY <1>7, <2>1, <4>1
    <3> QED
      BY <3>1, <3>2
  <2>4. AcceptsOnlyHeld'
    <3>1. r + HeaderSize \notin held
      <4>1. r \in Nat /\ (r + HeaderSize) - HeaderSize = r
        BY <2>1, Sizes
      <4> QED
        BY <2>1, <4>1 DEF ArenaInv
    <3> SUFFICES ASSUME NEW x \in Addresses
                 PROVE  A[x].magic = "ALLOC" <=>
                          (x \in chain \cup {r} /\ x + HeaderSize \in held')
      BY <2>2 DEF AcceptsOnlyHeld
    <3>2. CASE x = r
      BY <1>5, <2>1, <3>1, <3>2
    <3>3. CASE x = b
      BY <1>1, <2>1, <3>3
    <3>4. CASE x \in chain \ {b}
      BY <1>5, <1>6, <2>1, <3>4
    <3>5. CASE x \notin chain /\ x # r
      BY <1>2, <1>6, <2>1, <3>5
    <3> QED
      BY <3>2, <3>3, <3>4, <3>5
  <2> QED
    BY <1>4, <2>1, <2>2, <2>3, <2>4 DEF ArenaInv
<1>9. CASE ~Splits(b, n)
  <2> DEFINE top == [mem[b] EXCEPT !.magic = "ALLOC"]
  <2>1. /\ top \in Header /\ top.magic = "ALLOC" /\ top.size = mem[b].size
        /\ top.next = mem[b].next /\ top.prev = mem[b].prev
    BY <1>2 DEF Header
  <2>2. mem' = [mem EXCEPT ![b] = top] /\ chain' = chain
    BY <1>1, <1>9
  <2> HIDE DEF top
  <2>3. /\ mem' \in [Addresses -> Header]
        /\ \A x \in Addresses :
             /\ mem'[x].magic = IF x = b THEN "ALLOC" ELSE mem[x].magic
             /\ mem'[x].size = mem[x].size /\ mem'[x].next = mem[x].next
             /\ mem'[x].prev = mem[x].prev
    BY <1>2, <2>1, <2>2
  <2>4. \A x \in chain : /\ mem'[x].size = mem[x].size /\ mem'[x].next = mem[x].next
                         /\ mem'[x].prev = mem[x].prev /\ mem'[x].magic # "JUNK"
    BY <1>2, <2>3 DEF Listed, Linked
  <2>5. Listed(mem', chain')
    BY <1>2, <2>2, <2>3, <2>4, ListedAlike
  <2>6. Apart(mem', chain')
    BY <1>2, <1>7, <2>2, <2>3 DEF Apart
  <2>7. AcceptsOnlyHeld'
    BY <1>1, <1>2, <1>5, <1>6, <2>2, <2>3 DEF AcceptsOnlyHeld
  <2> QED
    BY <1>4, <2>5, <2>6, <2>7 DEF ArenaInv
<1> QED
  BY <1>8, <1>9

LEMMA AcceptKeeps ==
    ASSUME ArenaInv, NEW p \in Addresses, Accept(p)
    PROVE  ArenaInv'
<1> DEFINE b == p - HeaderSize
<1>1. /\ b \in Addresses /\ mem[b].magic = "ALLOC" /\ b + HeaderSize = p
      /\ mem' = Release(b) /\ chain' = chain \ Absorbed(b) /\ held' = held \ {p}
  BY Sizes DEF Accept
<1>2. b \in chain /\ p \in held
  BY <1>1 DEF ArenaInv, AcceptsOnlyHeld
<1> HIDE DEF b
<1>3. /\ Listed(mem', chain') /\ Apart(mem', chain')
      /\ \A x \in Addresses : mem'[x].magic = IF x = b THEN "FREE" ELSE mem[x].magic
  BY <1>1, <1>2, ReleaseListed DEF ArenaInv
<1>4. \A x \in Addresses : x + HeaderSize = p <=> x = b
  BY <1>1, Sizes
<1>5. \A x \in chain \ chain' : x = b \/ mem[x].magic = "FREE"
  BY <1>1 DEF Absorbed, Free
<1>6. chain \subseteq Addresses /\ chain' \subseteq chain
  BY <1>1 DEF ArenaInv, Listed
<1>7. AcceptsOnlyHeld'
  <2> SUFFICES ASSUME NEW x \in Addresses
               PROVE  mem'[x].magic = "ALLOC" <=> (x \in chain' /\ x + HeaderSize \in held')
    BY DEF AcceptsOnlyHeld
  <2>1. mem[x].magic = "ALLOC" <=> (x \in chain /\ x + HeaderSize \in held)
    BY DEF ArenaInv, AcceptsOnlyHeld
  <2>2. CASE x = b
    BY <1>1, <1>3, <2>2
  <2>3. CASE x # b
    <3>1. x + HeaderSize \in held' <=> x + HeaderSize \in held
      BY <1>1, <1>4, <2>3
    <3>2. mem'[x].magic = mem[x].magic
      BY <1>3, <2>3
    <3> QED
      BY <1>5, <1>6, <2>1, <2>3, <3>1, <3>2
  <2> QED
    BY <2>2, <2>3
<1>8. ASSUME NEW k \in held' PROVE k \in Addresses /\ k - HeaderSize \in chain'
  <2>1. k \in held /\ k # p
    BY <1>1
  <2>2. /\ k \in Addresses /\ k - HeaderSize \in chain
        /\ mem[k - HeaderSize].magic = "ALLOC"
    BY <2>1, HeldBlock
  <2>3. k - HeaderSize # b
    BY <1>1, <2>1, <2>2, Sizes
  <2> QED
    BY <1>5, <2>2, <2>3
<1> QED
  BY <1>3, <1>7, <1>8 DEF ArenaInv

(* A caller that fills its memory overwrites no header on the list.        *)
LEMMA PayloadApart ==
    ASSUME ArenaInv, NEW p \in held
    PROVE  /\ \A x \in chain : Payload(p) \cap (x .. (x + HeaderSize - 1)) = {}
           /\ Payload(p) \subseteq Addresses
<1> DEFINE b == p - HeaderSize
<1>1. /\ b \in chain /\ p = b + HeaderSize /\ b \in Nat
      /\ mem[b].size \in Nat /\ mem[b].size > 0
      /\ End(mem, b) = p + mem[b].size /\ End(mem, b) <= ArenaSize
  <2>1. p \in Addresses /\ b \in chain /\ End(mem, b) = p + mem[b].size
    BY HeldBlock
  <2> QED
    BY <2>1, ListedBlock, Sizes DEF ArenaInv
<1>2. Payload(p) = p .. (p + mem[b].size - 1)
  BY DEF Payload
<1> HIDE DEF b
<1>3. ASSUME NEW x \in chain PROVE Payload(p) \cap (x .. (x + HeaderSize - 1)) = {}
  <2>1. x \in Nat /\ End(mem, x) \in Nat /\ x + HeaderSize < End(mem, x)
    BY ListedBlock, Sizes DEF ArenaInv
  <2>2. x < b => End(mem, x) <= b
    BY <1>1 DEF ArenaInv, Listed
  <2>3. b < x => End(mem, b) <= x
    BY <1>1 DEF ArenaInv, Listed
  <2>4. x + HeaderSize - 1 < p \/ p + mem[b].size <= x
    BY <1>1, <2>1, <2>2, <2>3, Sizes
  <2>5. p \in Nat /\ p + mem[b].size \in Nat /\ x + HeaderSize \in Nat
    BY <1>1, <2>1, Sizes
  <2> HIDE DEF Payload
  <2>6. \A y \in Payload(p) : y \in Int /\ p <= y /\ y < p + mem[b].size
    BY <1>1, <1>2, <2>5
  <2>7. \A y \in x .. (x + HeaderSize - 1) : y \in Int /\ x <= y /\ y <= x + HeaderSize - 1
    BY <2>1, <2>5
  <2> SUFFICES ASSUME NEW y \in Payload(p), y \in x .. (x + HeaderSize - 1) PROVE FALSE
    OBVIOUS
  <2>8. y \in Int /\ p <= y /\ y < p + mem[b].size /\ x <= y /\ y <= x + HeaderSize - 1
    BY <2>6, <2>7
  <2> QED
    BY <1>1, <2>1, <2>4, <2>5, <2>8, Sizes
<1> QED
  BY <1>1, <1>2, <1>3, Sizes

LEMMA FillSpares ==
    ASSUME ArenaInv, NEW p \in held, Fill(p)
    PROVE  \A x \in chain : mem'[x] = mem[x]
<1>1. chain \subseteq Addresses
  BY DEF ArenaInv, Listed
<1>2. ASSUME NEW x \in chain PROVE x \notin Payload(p)
  <2>1. x \in x .. (x + HeaderSize - 1)
    BY <1>1, Sizes
  <2> QED
    BY <2>1, PayloadApart
<1> QED
  BY <1>1, <1>2 DEF Fill

LEMMA FillKeeps ==
    ASSUME ArenaInv, NEW p \in held, Fill(p)
    PROVE  ArenaInv'
<1>1. /\ mem' = [a \in Addresses |-> IF a \in Payload(p) THEN Junk ELSE mem[a]]
      /\ chain' = chain /\ held' = held
  BY DEF Fill
<1>2. /\ mem \in [Addresses -> Header] /\ chain \subseteq Addresses
      /\ Listed(mem, chain)
  BY DEF ArenaInv, Listed
<1>3. Junk \in Header /\ Junk.magic = "JUNK"
  BY Sizes DEF Junk, Header
<1>4. \A x \in chain : mem'[x] = mem[x]
  BY FillSpares
<1>5. mem' \in [Addresses -> Header]
  BY <1>1, <1>2, <1>3
<1>6. \A x \in chain : mem'[x].magic # "JUNK"
  BY <1>2, <1>4 DEF Listed, Linked
<1>7. Listed(mem', chain')
  BY <1>1, <1>2, <1>4, <1>5, <1>6, ListedAlike
<1>8. Apart(mem', chain')
  <2>1. \A x \in chain : mem[x].next # NULL => mem[x].next \in chain
    BY <1>2, ListedBlock
  <2> QED
    BY <1>1, <1>4, <2>1 DEF ArenaInv, Apart
<1>9. AcceptsOnlyHeld'
  <2> SUFFICES ASSUME NEW x \in Addresses
               PROVE  mem'[x].magic = "ALLOC" <=> (x \in chain /\ x + HeaderSize \in held)
    BY <1>1 DEF AcceptsOnlyHeld
  <2>1. mem[x].magic = "ALLOC" <=> (x \in chain /\ x + HeaderSize \in held)
    BY DEF ArenaInv, AcceptsOnlyHeld
  <2>2. x \notin chain => mem'[x].magic # "ALLOC"
    BY <1>1, <1>3, <2>1
  <2> QED
    BY <1>4, <2>1, <2>2
<1> QED
  BY <1>1, <1>7, <1>8, <1>9 DEF ArenaInv

LEMMA RefuseKeeps ==
    ASSUME ArenaInv, NEW p \in Addresses, Refuse(p)
    PROVE  ArenaInv'
<1>1. mem' = mem /\ chain' = chain /\ held' = held \ {p}
      /\ mem[p - HeaderSize].magic # "ALLOC"
  BY DEF Refuse
<1>2. p \notin held
  BY <1>1, HeldBlock
<1>3. held' = held
  BY <1>1, <1>2
<1> QED
  BY <1>1, <1>3 DEF ArenaInv, AcceptsOnlyHeld

LEMMA ArenaStarts == MemoryInit => ArenaInv
<1> SUFFICES ASSUME MemoryInit PROVE ArenaInv
  OBVIOUS
<1>1. /\ mem = Store([a \in Addresses |-> Junk], 0, FirstHeader)
      /\ chain = {0} /\ held = {} /\ 0 \in Addresses
  BY Sizes DEF MemoryInit, ArenaInit
<1>2. /\ Junk \in Header /\ FirstHeader \in Header
      /\ Junk.magic = "JUNK" /\ FirstHeader.magic = "FREE" /\ FirstHeader.size = Capacity
      /\ FirstHeader.prev = NULL /\ FirstHeader.next = NULL
  BY Sizes DEF Junk, FirstHeader, Header
<1>3. /\ mem \in [Addresses -> Header] /\ mem[0] = FirstHeader
      /\ \A x \in Addresses : x # 0 => mem[x] = Junk
  BY <1>1, <1>2 DEF Store
<1>4. End(mem, 0) = ArenaSize
  BY <1>2, <1>3, Sizes DEF End
<1>5. Linked(mem, {0}, 0)
  BY <1>2, <1>3, <1>4, Sizes DEF Linked
<1>6. \A x \in Addresses : \E b \in {0} : b <= x /\ x < End(mem, b)
  BY <1>4, Sizes
<1>7. Listed(mem, chain)
  BY <1>1, <1>2, <1>3, <1>5, <1>6 DEF Listed
<1>8. Apart(mem, chain)
  BY <1>1, <1>2, <1>3 DEF Apart
<1>9. AcceptsOnlyHeld
  BY <1>1, <1>2, <1>3 DEF AcceptsOnlyHeld
<1> QED
  BY <1>1, <1>7, <1>8, <1>9 DEF ArenaInv

LEMMA ArenaStep == ArenaInv /\ [MemoryNext]_memoryVars => ArenaInv'
<1> SUFFICES ASSUME ArenaInv, [MemoryNext]_memoryVars PROVE ArenaInv'
  OBVIOUS
<1>1. CASE UNCHANGED arenaVars
  BY <1>1 DEF arenaVars, ArenaInv, AcceptsOnlyHeld
<1>2. ASSUME NEW n \in Requests, Malloc(n) PROVE ArenaInv'
  BY <1>2, MallocKeeps
<1>3. ASSUME NEW n \in Requests, MallocFails(n) PROVE ArenaInv'
  BY <1>1, <1>3 DEF MallocFails
<1>4. ASSUME NEW p \in Addresses, Accept(p) PROVE ArenaInv'
  BY <1>4, AcceptKeeps
<1>5. ASSUME NEW p \in Addresses, Refuse(p) PROVE ArenaInv'
  BY <1>5, RefuseKeeps
<1>6. ASSUME NEW p \in Addresses, Fill(p) PROVE ArenaInv'
  BY <1>6, FillKeeps DEF Fill
<1>7. CASE RefuseInvalid
  BY <1>1, <1>7 DEF RefuseInvalid
<1>8. CASE UNCHANGED memoryVars
  BY <1>1, <1>8 DEF memoryVars
<1> QED
  BY <1>1, <1>2, <1>3, <1>4, <1>5, <1>6, <1>7, <1>8 DEF MemoryNext, ArenaNext

(* Every call of my_malloc and my_free, refused ones too, and everything   *)
(* callers write to their memory keep the arena's invariant.               *)
THEOREM ArenaInvHolds == MemorySpec => []ArenaInv
  BY ArenaStarts, ArenaStep, PTL DEF MemorySpec

(* The blocks tile the arena and free neighbours are always merged,        *)
(* however calls of my_malloc and my_free, foreign and repeated ones among *)
(* them, follow one another.                                               *)
THEOREM TiledHolds == MemorySpec => []Tiled
<1>1. ArenaInv => Tiled
  <2> SUFFICES ASSUME ArenaInv PROVE Tiled
    OBVIOUS
  <2>1. 0 \in chain /\ mem[0].prev = NULL
    BY DEF ArenaInv, Listed
  <2>2. ASSUME NEW b \in chain
        PROVE  /\ mem[b].magic # "JUNK"
               /\ mem[b].next = NULL => BlockEnd(b) = ArenaSize
               /\ mem[b].next # NULL =>
                    /\ mem[b].next = BlockEnd(b)
                    /\ mem[b].next \in chain
                    /\ mem[mem[b].next].prev = b
                    /\ ~(mem[b].magic = "FREE" /\ mem[mem[b].next].magic = "FREE")
    <3>1. BlockEnd(b) = End(mem, b)
      BY DEF BlockEnd, End
    <3> QED
      BY <3>1 DEF ArenaInv, Listed, Linked, Apart
  <2> QED
    BY <2>1, <2>2 DEF Tiled
<1> QED
  BY <1>1, ArenaInvHolds, PTL

(* my_free accepts a pointer exactly when a caller holds it.               *)
THEOREM AcceptsOnlyHeldHolds == MemorySpec => []AcceptsOnlyHeld
<1>1. ArenaInv => AcceptsOnlyHeld
  BY DEF ArenaInv
<1> QED
  BY <1>1, ArenaInvHolds, PTL

(* What my_malloc has given out never overlaps, and never overlaps the     *)
(* headers the allocator works with.                                       *)
THEOREM ExclusiveHolds == MemorySpec => []Exclusive
<1>1. ArenaInv => Exclusive
  <2> SUFFICES ASSUME ArenaInv PROVE Exclusive
    OBVIOUS
  <2>1. ASSUME NEW p \in held, NEW q \in held, p < q
        PROVE  Payload(p) \cap Payload(q) = {}
    <3>1. /\ p - HeaderSize \in chain /\ q - HeaderSize \in chain
          /\ p \in Nat /\ q \in Nat /\ p - HeaderSize < q - HeaderSize
          /\ End(mem, p - HeaderSize) = p + mem[p - HeaderSize].size
      BY <2>1, HeldBlock, Sizes
    <3>2. End(mem, p - HeaderSize) <= q - HeaderSize /\ End(mem, p - HeaderSize) \in Nat
      BY <3>1, ListedBlock DEF ArenaInv, Listed
    <3>3. mem[p - HeaderSize].size \in Nat /\ mem[q - HeaderSize].size \in Nat
      BY <3>1, ListedBlock, Sizes DEF ArenaInv
    <3> QED
      BY <3>1, <3>2, <3>3, Sizes DEF Payload
  <2>2. ASSUME NEW p \in held, NEW q \in held \ {p}
        PROVE  Payload(p) \cap Payload(q) = {}
    <3>1. p \in Nat /\ q \in Nat /\ q # p
      BY HeldBlock, Sizes
    <3>2. p < q \/ q < p
      BY <3>1
    <3> QED
      BY <2>1, <3>2
  <2> QED
    BY <2>2, PayloadApart DEF Exclusive
<1> QED
  BY <1>1, ArenaInvHolds, PTL

(* my_malloc never refuses a request that fits between the blocks held.    *)
THEOREM GapsServedHolds == MemorySpec => []GapsServed
<1>1. ArenaInv => GapsServed
  <2> SUFFICES ASSUME ArenaInv, NEW n \in Requests, NEW a \in Addresses,
                      a + HeaderSize + n <= ArenaSize,
                      \A x \in a .. (a + HeaderSize + n - 1) : ~Occupied(x)
               PROVE  \E b \in chain : Fits(b, n)
    BY DEF GapsServed
  <2>1. /\ a \in Nat /\ n \in Nat /\ n > 0
        /\ Listed(mem, chain) /\ mem \in [Addresses -> Header] /\ chain \subseteq Addresses
    BY Sizes DEF ArenaInv, Listed
  <2>2. PICK b \in chain : b <= a /\ a < End(mem, b)
    BY DEF ArenaInv, Listed
  <2>3. \A c \in chain : /\ c \in Nat /\ End(mem, c) \in Nat
                         /\ End(mem, c) = c + HeaderSize + mem[c].size
                         /\ mem[c].size \in Nat /\ mem[c].magic \in {"ALLOC", "FREE"}
    BY <2>1, ListedBlock, Sizes DEF Listed, Linked, End, Header
  <2>4. ASSUME NEW c \in chain, NEW x \in a .. (a + HeaderSize + n - 1),
               c <= x, x < End(mem, c)
        PROVE  mem[c].magic = "FREE"
    <3>1. CASE mem[c].magic = "ALLOC"
      <4>1. c + HeaderSize \in held /\ (c + HeaderSize) - HeaderSize = c
        BY <2>1, <2>3, <3>1, Sizes DEF ArenaInv, AcceptsOnlyHeld
      <4>2. x \in c .. (c + HeaderSize + mem[c].size - 1)
        BY <2>1, <2>3, <2>4, Sizes
      <4>3. Occupied(x)
        BY <4>1, <4>2 DEF Occupied
      <4> QED
        BY <2>4, <4>3
    <3> QED
      BY <2>3, <3>1
  <2>5. mem[b].magic = "FREE"
    <3>1. a \in a .. (a + HeaderSize + n - 1)
      BY <2>1, Sizes
    <3> QED
      BY <2>2, <2>4, <3>1
  <2>6. End(mem, b) >= a + HeaderSize + n
    <3> SUFFICES ASSUME ~(End(mem, b) >= a + HeaderSize + n) PROVE FALSE
      OBVIOUS
    <3> DEFINE e == End(mem, b)
    <3>1. e \in a .. (a + HeaderSize + n - 1) /\ e < ArenaSize /\ e # ArenaSize
      BY <2>1, <2>2, <2>3, Sizes
    <3>2. mem[b].next = e /\ e \in chain /\ e # NULL
      <4>1. mem[b].next # NULL
        BY <2>1, <3>1 DEF Listed, Linked
      <4> QED
        BY <2>1, <4>1, ListedBlock
    <3> HIDE DEF e
    <3>3. e < End(mem, e)
      BY <2>1, <3>2, ListedBlock, Sizes
    <3>4. mem[e].magic = "FREE"
      BY <2>3, <2>4, <3>1, <3>2, <3>3
    <3> QED
      BY <2>5, <3>2, <3>4 DEF ArenaInv, Apart
  <2>7. mem[b].size >= n
    BY <2>1, <2>2, <2>3, <2>6, Sizes
  <2> QED
    BY <2>5, <2>7 DEF Fits
<1> QED
  BY <1>1, ArenaInvHolds, PTL
-----------------------------------------------------------------------------
(* Sums over finite sets.  Every set of naturals that is not empty has a   *)
(* least element.                                                          *)
LEMMA Least ==
    ASSUME NEW T \in SUBSET Nat, T # {}
    PROVE  \E n \in T : \A m \in T : n <= m
<1>1. \E n \in T : \A m \in T : ~(<<m, n>> \in OpToRel(<, Nat))
  BY WFMin, NatLessThanWellFounded
<1>2. PICK n \in T : \A m \in T : ~(<<m, n>> \in OpToRel(<, Nat))
  BY <1>1
<1>3. ASSUME NEW m \in T PROVE n <= m
  <2>1. ~(m < n)
    BY <1>2 DEF OpToRel
  <2> QED
    BY <2>1
<1> QED
  BY <1>3

(* MapThenSumSet picks one element after the other.                        *)
Pick(s) == CHOOSE x \in s : TRUE

Sums(w, g, S) ==
    g = [s \in SUBSET S |-> IF s = {} THEN 0 ELSE w[Pick(s)] + g[s \ {Pick(s)}]]

LEMMA Picked ==
    ASSUME NEW S, IsFiniteSet(S), NEW s \in SUBSET S, s # {}
    PROVE  /\ Pick(s) \in s /\ s \ {Pick(s)} \in SUBSET S
           /\ IsFiniteSet(s) /\ Cardinality(s) \in Nat /\ Cardinality(s) # 0
           /\ Cardinality(s \ {Pick(s)}) = Cardinality(s) - 1
<1>1. Pick(s) \in s
  BY DEF Pick
<1>2. IsFiniteSet(s) /\ Cardinality(s) \in Nat
  BY FS_Subset, FS_CardinalityType
<1> QED
  BY <1>1, <1>2, FS_RemoveElement, FS_EmptySet

(* Some function computes the sums of all subsets.                         *)
LEMMA SumsExist ==
    ASSUME NEW S, IsFiniteSet(S), NEW w
    PROVE  \E g : Sums(w, g, S)
<1> DEFINE Small(k) == {s \in SUBSET S : Cardinality(s) <= k}
           Upto(g, k) == g = [s \in Small(k) |->
                                IF s = {} THEN 0 ELSE w[Pick(s)] + g[s \ {Pick(s)}]]
           Bad == {k \in Nat : ~\E g : Upto(g, k)}
<1>1. ASSUME NEW s \in SUBSET S
      PROVE  /\ IsFiniteSet(s) /\ Cardinality(s) \in Nat
             /\ Cardinality(s) <= Cardinality(S) /\ Cardinality(S) \in Nat
             /\ Cardinality(s) = 0 => s = {}
  BY FS_Subset, FS_CardinalityType, FS_EmptySet
<1>2. \E g : Upto(g, 0)
  <2> DEFINE g == [s \in Small(0) |-> 0]
  <2>1. \A s \in Small(0) : s = {}
    BY <1>1
  <2>2. Upto(g, 0)
    BY <2>1
  <2> QED
    BY <2>2
<1>3. ASSUME NEW k \in Nat, NEW g, Upto(g, k)
      PROVE  \E h : Upto(h, k + 1)
  <2> DEFINE h == [s \in Small(k + 1) |->
                     IF s = {} THEN 0 ELSE w[Pick(s)] + g[s \ {Pick(s)}]]
  <2>1. ASSUME NEW s \in Small(k + 1), s # {}
        PROVE  s \ {Pick(s)} \in Small(k) /\ s \ {Pick(s)} \in Small(k + 1)
    BY <2>1, Picked, <1>1
  <2>2. ASSUME NEW s \in Small(k) PROVE s \in Small(k + 1) /\ h[s] = g[s]
    <3>1. s \in Small(k + 1)
      BY <1>1
    <3>2. g[s] = IF s = {} THEN 0 ELSE w[Pick(s)] + g[s \ {Pick(s)}]
      <4> HIDE DEF Small
      <4> QED
        BY <1>3
    <3> QED
      BY <3>1, <3>2
  <2>3. Upto(h, k + 1)
    <3>1. ASSUME NEW s \in Small(k + 1), s # {}
          PROVE  h[s \ {Pick(s)}] = g[s \ {Pick(s)}]
      BY <2>1, <2>2, <3>1
    <3> HIDE DEF Small
    <3>2. \A s \in Small(k + 1) :
             (IF s = {} THEN 0 ELSE w[Pick(s)] + g[s \ {Pick(s)}])
               = (IF s = {} THEN 0 ELSE w[Pick(s)] + h[s \ {Pick(s)}])
      <4> HIDE DEF h
      <4> QED
        BY <3>1
    <3> QED
      BY <3>2
  <2> QED
    BY <2>3
<1>4. Bad = {}
  <2> SUFFICES ASSUME Bad # {} PROVE FALSE
    OBVIOUS
  <2>1. PICK k \in Bad : \A m \in Bad : k <= m
    <3>1. Bad \in SUBSET Nat
      OBVIOUS
    <3> HIDE DEF Bad
    <3> QED
      BY <3>1, Least
  <2>2. k # 0
    <3> HIDE DEF Upto
    <3> QED
      BY <1>2, <2>1
  <2>3. k - 1 \in Nat /\ k - 1 \notin Bad /\ (k - 1) + 1 = k
    <3> HIDE DEF Upto
    <3> QED
      BY <2>1, <2>2
  <2>4. PICK g : Upto(g, k - 1)
    <3> HIDE DEF Upto
    <3> QED
      BY <2>3
  <2>5. \E h : Upto(h, (k - 1) + 1)
    <3> HIDE DEF Upto
    <3> QED
      BY <1>3, <2>3, <2>4
  <2> HIDE DEF Upto
  <2> QED
    BY <2>1, <2>3, <2>5
<1>5. PICK g : Upto(g, Cardinality(S))
  <2>1. Cardinality(S) \in Nat
    BY FS_CardinalityType
  <2> HIDE DEF Upto
  <2> QED
    BY <1>4, <2>1
<1>6. Small(Cardinality(S)) = SUBSET S
  BY <1>1
<1> QED
  BY <1>5, <1>6 DEF Sums

LEMMA SumsAt ==
    ASSUME NEW S, NEW w, NEW g, Sums(w, g, S), NEW s \in SUBSET S
    PROVE  g[s] = IF s = {} THEN 0 ELSE w[Pick(s)] + g[s \ {Pick(s)}]
<1>1. g = [t \in SUBSET S |-> IF t = {} THEN 0 ELSE w[Pick(t)] + g[t \ {Pick(t)}]]
  BY DEF Sums
<1> QED
  BY <1>1, Zenon

(* Sums depend on the values summed only.                                  *)
LEMMA SumsAlike ==
    ASSUME NEW S, IsFiniteSet(S), NEW w, NEW g, Sums(w, g, S),
           NEW R, NEW v, NEW h, Sums(v, h, R),
           NEW U \in SUBSET S, U \subseteq R, \A x \in U : w[x] = v[x]
    PROVE  g[U] = h[U]
<1> DEFINE Bad == {Cardinality(s) : s \in {t \in SUBSET U : g[t] # h[t]}}
<1>1. ASSUME NEW s \in SUBSET U
      PROVE  /\ s \in SUBSET S /\ s \in SUBSET R /\ Cardinality(s) \in Nat
             /\ g[s] # h[s] => Cardinality(s) \in Bad
  BY FS_Subset, FS_CardinalityType
<1>2. Bad \in SUBSET Nat
  BY <1>1
<1>3. ASSUME Bad # {} PROVE FALSE
  <2>1. PICK k \in Bad : \A m \in Bad : k <= m
    <3> HIDE DEF Bad
    <3> QED
      BY <1>2, <1>3, Least
  <2>2. PICK s \in SUBSET U : g[s] # h[s] /\ Cardinality(s) = k
    BY <2>1
  <2> HIDE DEF Bad
  <2>3. s # {}
    BY <1>1, <2>2, SumsAt
  <2> DEFINE t == s \ {Pick(s)}
  <2>4. t \in SUBSET U /\ Pick(s) \in U /\ Cardinality(t) = k - 1 /\ k \in Nat
    BY <1>1, <2>2, <2>3, Picked
  <2>5. g[t] = h[t]
    <3> HIDE DEF t
    <3> QED
      BY <1>1, <2>1, <2>4
  <2>6. g[s] = w[Pick(s)] + g[t] /\ h[s] = v[Pick(s)] + h[t]
    BY <1>1, <2>3, SumsAt
  <2> HIDE DEF t
  <2> QED
    BY <2>2, <2>4, <2>5, <2>6
<1> QED
  BY <1>1, <1>3

(* A sum of naturals is a natural.                                         *)
LEMMA SumsType ==
    ASSUME NEW S, IsFiniteSet(S), NEW w, \A x \in S : w[x] \in Nat,
           NEW g, Sums(w, g, S), NEW U \in SUBSET S
    PROVE  g[U] \in Nat
<1> DEFINE Bad == {Cardinality(s) : s \in {t \in SUBSET S : g[t] \notin Nat}}
<1>1. ASSUME NEW s \in SUBSET S
      PROVE  /\ Cardinality(s) \in Nat
             /\ g[s] \notin Nat => Cardinality(s) \in Bad
  BY FS_Subset, FS_CardinalityType
<1>2. Bad \in SUBSET Nat
  BY <1>1
<1>3. ASSUME Bad # {} PROVE FALSE
  <2>1. PICK k \in Bad : \A m \in Bad : k <= m
    <3> HIDE DEF Bad
    <3> QED
      BY <1>2, <1>3, Least
  <2>2. PICK s \in SUBSET S : g[s] \notin Nat /\ Cardinality(s) = k
    BY <2>1
  <2> HIDE DEF Bad
  <2>3. s # {}
    <3>1. s = {} => g[s] = 0
      BY SumsAt
    <3> QED
      BY <2>2, <3>1
  <2> DEFINE t == s \ {Pick(s)}
  <2>4. t \in SUBSET S /\ Pick(s) \in S /\ Cardinality(t) = k - 1 /\ k \in Nat
    BY <1>1, <2>2, <2>3, Picked
  <2>5. g[t] \in Nat
    <3> HIDE DEF t
    <3> QED
      BY <1>1, <2>1, <2>4
  <2>6. g[s] = w[Pick(s)] + g[t]
    BY <2>3, SumsAt
  <2> HIDE DEF t
  <2> QED
    BY <2>2, <2>4, <2>5, <2>6
<1> QED
  BY <1>1, <1>3

(* Any element may be the one taken first.                                 *)
LEMMA SumsPull ==
    ASSUME NEW S, IsFiniteSet(S), NEW w, \A x \in S : w[x] \in Nat,
           NEW g, Sums(w, g, S), NEW U \in SUBSET S, NEW e \in U
    PROVE  g[U] = w[e] + g[U \ {e}]
<1> DEFINE Wrong(t) == \E x \in t : g[t] # w[x] + g[t \ {x}]
           Bad == {Cardinality(s) : s \in {t \in SUBSET S : Wrong(t)}}
<1>1. ASSUME NEW s \in SUBSET S
      PROVE  /\ Cardinality(s) \in Nat /\ IsFiniteSet(s)
             /\ Wrong(s) => Cardinality(s) \in Bad
  BY FS_Subset, FS_CardinalityType
<1>2. Bad \in SUBSET Nat
  BY <1>1
<1>3. ASSUME Bad # {} PROVE FALSE
  <2>1. PICK k \in Bad : \A m \in Bad : k <= m
    <3> HIDE DEF Bad
    <3> QED
      BY <1>2, <1>3, Least
  <2>2. PICK s \in SUBSET S : Wrong(s) /\ Cardinality(s) = k
    BY <2>1
  <2> HIDE DEF Bad
  <2>3. PICK x \in s : g[s] # w[x] + g[s \ {x}]
    BY <2>2
  <2> DEFINE y == Pick(s)
             a == s \ {x}
             b == s \ {y}
             c == (s \ {x}) \ {y}
  <2>4. y \in s /\ g[s] = w[y] + g[b]
    <3>1. s # {}
      BY <2>3
    <3>2. g[s] = w[Pick(s)] + g[s \ {Pick(s)}]
      BY <3>1, SumsAt
    <3> QED
      BY <3>1, <3>2, Picked
  <2>5. x # y
    BY <2>3, <2>4
  <2>6. /\ a \in SUBSET S /\ b \in SUBSET S /\ c \in SUBSET S
        /\ y \in a /\ x \in b /\ a \ {y} = c /\ b \ {x} = c
        /\ x \in S /\ y \in S
    BY <2>3, <2>4, <2>5
  <2>7. Cardinality(a) = k - 1 /\ Cardinality(b) = k - 1 /\ k \in Nat
    BY <1>1, <2>2, <2>3, <2>4, FS_RemoveElement
  <2> HIDE DEF y, a, b, c
  <2>8. ~Wrong(a) /\ ~Wrong(b)
    <3> HIDE DEF Wrong
    <3> QED
      BY <1>1, <2>1, <2>6, <2>7
  <2>9. g[a] = w[y] + g[c] /\ g[b] = w[x] + g[c]
    BY <2>6, <2>8
  <2>10. w[x] \in Nat /\ w[y] \in Nat /\ g[c] \in Nat
    BY <2>6, SumsType
  <2>11. g[s] = w[x] + g[a]
    BY <2>4, <2>9, <2>10
  <2> QED
    BY <2>3, <2>11 DEF a
<1>4. ~Wrong(U)
  <2> HIDE DEF Wrong
  <2> QED
    BY <1>1, <1>3
<1> QED
  BY <1>4
-----------------------------------------------------------------------------
(* The sum of the values of w over a finite set.                           *)
Sum(w, S) == (CHOOSE g : Sums(w, g, S))[S]

LEMMA SumIs ==
    ASSUME NEW S, IsFiniteSet(S), NEW w, NEW g, Sums(w, g, S)
    PROVE  g[S] = Sum(w, S)
<1>1. Sums(w, CHOOSE h : Sums(w, h, S), S)
  BY SumsExist
<1> DEFINE h == CHOOSE h : Sums(w, h, S)
<1>2. Sum(w, S) = h[S] /\ Sums(w, h, S)
  BY <1>1 DEF Sum
<1> HIDE DEF h
<1> QED
  BY <1>2, SumsAlike

LEMMA SumFacts ==
    ASSUME NEW S, IsFiniteSet(S), NEW w, \A x \in S : w[x] \in Nat
    PROVE  /\ Sum(w, S) \in Nat
           /\ S = {} => Sum(w, S) = 0
           /\ \A e \in S : Sum(w, S) = w[e] + Sum(w, S \ {e})
<1>1. PICK g : Sums(w, g, S)
  BY SumsExist
<1>2. g[S] = Sum(w, S)
  BY <1>1, SumIs
<1>3. ASSUME NEW e \in S PROVE g[S \ {e}] = Sum(w, S \ {e})
  <2>1. IsFiniteSet(S \ {e}) /\ S \ {e} \in SUBSET S
    BY FS_RemoveElement
  <2>2. PICK h : Sums(w, h, S \ {e})
    BY <2>1, SumsExist
  <2>3. g[S \ {e}] = h[S \ {e}]
    BY <1>1, <2>1, <2>2, SumsAlike
  <2> QED
    BY <2>1, <2>2, <2>3, SumIs
<1>4. S = {} => g[S] = 0
  BY <1>1, SumsAt
<1>5. g[S] \in Nat
  BY <1>1, SumsType
<1>6. \A e \in S : g[S] = w[e] + g[S \ {e}]
  BY <1>1, SumsPull
<1> QED
  BY <1>2, <1>3, <1>4, <1>5, <1>6

LEMMA SumAlike ==
    ASSUME NEW S, IsFiniteSet(S), NEW w, NEW v, \A x \in S : w[x] = v[x]
    PROVE  Sum(w, S) = Sum(v, S)
<1>1. PICK g : Sums(w, g, S)
  BY SumsExist
<1>2. PICK h : Sums(v, h, S)
  BY SumsExist
<1> QED
  BY <1>1, <1>2, SumIs, SumsAlike

LEMMA SumAdds ==
    ASSUME NEW S, IsFiniteSet(S), NEW w, NEW e, e \notin S,
           \A x \in S \cup {e} : w[x] \in Nat
    PROVE  Sum(w, S \cup {e}) = Sum(w, S) + w[e]
<1>1. IsFiniteSet(S \cup {e}) /\ (S \cup {e}) \ {e} = S /\ e \in S \cup {e}
  BY FS_AddElement
<1>2. Sum(w, S \cup {e}) = w[e] + Sum(w, S) /\ w[e] \in Nat /\ Sum(w, S) \in Nat
  BY <1>1, SumFacts
<1> QED
  BY <1>2
-----------------------------------------------------------------------------
(* The pools.  A one-to-one listing of the k nodes of a free list, in the  *)
(* order in which the head h and the links nf lead from one to the next.   *)
Lists(h, nf, free, s, k) ==
    /\ s \in [1 .. k -> free]
    /\ \A n \in free : \E i \in 1 .. k : s[i] = n
    /\ \A i, j \in 1 .. k : s[i] = s[j] => i = j
    /\ h = IF k = 0 THEN NoNode ELSE s[1]
    /\ \A i \in 1 .. k : nf[s[i]] = IF i = k THEN NoNode ELSE s[i + 1]

FreeList(h, nf, free) == \E k \in Nat : \E s \in [1 .. k -> free] : Lists(h, nf, free, s, k)

FreeOf(c) == NodesOf(c) \ poolHeld

Bytes == [n \in Nodes |-> BlockSize[n[1]]]

PoolInv ==
    /\ inUse = poolHeld /\ poolHeld \subseteq Nodes /\ IsFiniteSet(poolHeld)
    /\ nextFree \in [Nodes -> Nodes \cup {NoNode}]
    /\ heads \in [Classes -> Nodes \cup {NoNode}]
    /\ \A c \in Classes : FreeList(heads[c], nextFree, FreeOf(c))
    /\ allocated \in [Classes -> Nat]
    /\ \A c \in Classes : allocated[c] = Cardinality(poolHeld \cap NodesOf(c))
    /\ usedBytes = Sum(Bytes, poolHeld)

LEMMA NodeFacts ==
    /\ NoNode \notin Nodes
    /\ \A n \in Nodes : n[1] \in Classes /\ n \in NodesOf(n[1]) /\ Bytes[n] \in Nat
    /\ \A c \in Classes : NodesOf(c) \subseteq Nodes /\ \A n \in NodesOf(c) : n[1] = c
<1>1. \A c : \A n \in NodesOf(c) : n[1] = c /\ n # NoNode
  <2> SUFFICES ASSUME NEW c, NEW n \in NodesOf(c) PROVE n[1] = c /\ n # NoNode
    OBVIOUS
  <2>1. PICK i \in 0 .. (BlockCount[c] - 1) : n = <<c, i>>
    BY DEF NodesOf
  <2> QED
    BY <2>1 DEF NoNode
<1>2. \A c \in Classes : NodesOf(c) \subseteq Nodes
  BY DEF Nodes
<1>3. \A n \in Nodes : \E c \in Classes : n \in NodesOf(c)
  BY DEF Nodes
<1>4. \A n \in Nodes : n[1] \in Classes /\ n \in NodesOf(n[1]) /\ n # NoNode
  BY <1>1, <1>3
<1>5. \A n \in Nodes : Bytes[n] \in Nat
  BY <1>4, PoolAssumption DEF Bytes
<1> QED
  BY <1>1, <1>2, <1>4, <1>5

(* Taking the head off a free list ...                                     *)
LEMMA ListPop ==
    ASSUME NEW nf, NEW h, NEW free, FreeList(h, nf, free),
           h # NoNode, free \subseteq DOMAIN nf
    PROVE  /\ h \in free
           /\ FreeList(nf[h], [nf EXCEPT ![h] = NoNode], free \ {h})
<1>0. PICK k \in Nat : \E s \in [1 .. k -> free] : Lists(h, nf, free, s, k)
  BY DEF FreeList
<1>1. PICK s \in [1 .. k -> free] : Lists(h, nf, free, s, k)
  BY <1>0
<1>2. k # 0 /\ 1 \in 1 .. k /\ s[1] = h /\ h \in free
  BY <1>1 DEF Lists
<1> DEFINE q == [nf EXCEPT ![h] = NoNode]
           t == [i \in 1 .. (k - 1) |-> s[i + 1]]
           rest == free \ {h}
<1>3. ASSUME NEW i \in 1 .. (k - 1)
      PROVE  i + 1 \in 1 .. k /\ i + 1 # 1 /\ t[i] = s[i + 1] /\ s[i + 1] # h /\ s[i + 1] \in rest
  BY <1>1, <1>2 DEF Lists
<1>4. t \in [1 .. (k - 1) -> rest]
  BY <1>3
<1>5. ASSUME NEW n \in rest PROVE \E i \in 1 .. (k - 1) : t[i] = n
  <2>1. PICK j \in 1 .. k : s[j] = n
    BY <1>1 DEF Lists
  <2>2. j - 1 \in 1 .. (k - 1) /\ (j - 1) + 1 = j
    BY <1>2, <2>1
  <2> QED
    BY <1>3, <2>1, <2>2
<1>6. \A i, j \in 1 .. (k - 1) : t[i] = t[j] => i = j
  BY <1>1, <1>3 DEF Lists
<1>7. nf[h] = IF k - 1 = 0 THEN NoNode ELSE t[1]
  BY <1>1, <1>2, <1>3 DEF Lists
<1>8. ASSUME NEW i \in 1 .. (k - 1)
      PROVE  q[t[i]] = IF i = k - 1 THEN NoNode ELSE t[i + 1]
  <2>1. q[t[i]] = nf[s[i + 1]]
    BY <1>3
  <2>2. nf[s[i + 1]] = IF i + 1 = k THEN NoNode ELSE s[i + 2]
    BY <1>1, <1>3 DEF Lists
  <2>3. i # k - 1 => t[i + 1] = s[i + 2]
    OBVIOUS
  <2> QED
    BY <2>1, <2>2, <2>3
<1>9. k - 1 \in Nat
  BY <1>2
<1> HIDE DEF q, t, rest
<1>10. Lists(nf[h], q, rest, t, k - 1)
  BY <1>4, <1>5, <1>6, <1>7, <1>8 DEF Lists
<1>11. FreeList(nf[h], q, rest)
  BY <1>4, <1>9, <1>10 DEF FreeList
<1> QED
  BY <1>2, <1>11 DEF q, rest

(* ... putting a node in front of it ...                                   *)
LEMMA ListPush ==
    ASSUME NEW nf, NEW h, NEW free, FreeList(h, nf, free),
           free \subseteq DOMAIN nf, NEW n \in DOMAIN nf, n \notin free
    PROVE  FreeList(n, [nf EXCEPT ![n] = h], free \cup {n})
<1>0. PICK k \in Nat : \E s \in [1 .. k -> free] : Lists(h, nf, free, s, k)
  BY DEF FreeList
<1>1. PICK s \in [1 .. k -> free] : Lists(h, nf, free, s, k)
  BY <1>0
<1> DEFINE q == [nf EXCEPT ![n] = h]
           t == [i \in 1 .. (k + 1) |-> IF i = 1 THEN n ELSE s[i - 1]]
           more == free \cup {n}
<1>2. ASSUME NEW i \in 1 .. (k + 1), i # 1
      PROVE  i - 1 \in 1 .. k /\ t[i] = s[i - 1] /\ s[i - 1] \in free /\ t[i] # n
  BY <1>1, <1>2
<1>3. 1 \in 1 .. (k + 1) /\ t[1] = n
  OBVIOUS
<1>4. t \in [1 .. (k + 1) -> more]
  <2>1. \A i \in 1 .. (k + 1) : t[i] \in more
    BY <1>2, <1>3
  <2> QED
    BY <2>1
<1>5. ASSUME NEW m \in more PROVE \E i \in 1 .. (k + 1) : t[i] = m
  <2>1. CASE m = n
    BY <1>3, <2>1
  <2>2. CASE m \in free
    <3>1. PICK j \in 1 .. k : s[j] = m
      BY <1>1, <2>2 DEF Lists
    <3>2. j + 1 \in 1 .. (k + 1) /\ j + 1 # 1 /\ (j + 1) - 1 = j
      OBVIOUS
    <3> HIDE DEF t
    <3> QED
      BY <1>2, <3>1, <3>2
  <2> QED
    BY <2>1, <2>2
<1>6. \A i, j \in 1 .. (k + 1) : t[i] = t[j] => i = j
  <2> SUFFICES ASSUME NEW i \in 1 .. (k + 1), NEW j \in 1 .. (k + 1), t[i] = t[j]
               PROVE  i = j
    OBVIOUS
  <2>1. CASE i # 1 /\ j # 1
    <3>1. i - 1 \in 1 .. k /\ j - 1 \in 1 .. k /\ s[i - 1] = s[j - 1]
      BY <1>2, <2>1
    <3>2. i - 1 = j - 1
      BY <1>1, <3>1 DEF Lists
    <3> QED
      BY <3>2
  <2>2. CASE i = 1 \/ j = 1
    <3> HIDE DEF t
    <3> QED
      BY <1>2, <1>3, <2>2
  <2> QED
    BY <2>1, <2>2
<1>7. ASSUME NEW i \in 1 .. (k + 1)
      PROVE  q[t[i]] = IF i = k + 1 THEN NoNode ELSE t[i + 1]
  <2>1. CASE i = 1
    <3>1. q[t[i]] = h
      BY <1>3, <2>1
    <3>2. k # 0 => t[2] = s[1] /\ 1 \in 1 .. k
      OBVIOUS
    <3> QED
      BY <1>1, <2>1, <3>1, <3>2 DEF Lists
  <2>2. CASE i # 1
    <3>1. q[t[i]] = nf[s[i - 1]]
      BY <1>2, <2>2
    <3>2. nf[s[i - 1]] = IF i - 1 = k THEN NoNode ELSE s[(i - 1) + 1]
      BY <1>1, <1>2, <2>2 DEF Lists
    <3>3. i # k + 1 => t[i + 1] = s[i] /\ (i - 1) + 1 = i
      BY <2>2
    <3> QED
      BY <3>1, <3>2, <3>3
  <2> QED
    BY <2>1, <2>2
<1> HIDE DEF q, t, more
<1>8. Lists(n, q, more, t, k + 1)
  BY <1>3, <1>4, <1>5, <1>6, <1>7 DEF Lists
<1>9. k + 1 \in Nat
  OBVIOUS
<1>10. FreeList(n, q, more)
  BY <1>4, <1>8, <1>9 DEF FreeList
<1> QED
  BY <1>10 DEF q, more

(* ... and relinking a node that is not on it.                             *)
LEMMA ListElse ==
    ASSUME NEW nf, NEW h, NEW free, FreeList(h, nf, free),
           free \subseteq DOMAIN nf, NEW n, n \notin free, NEW x
    PROVE  FreeList(h, [nf EXCEPT ![n] = x], free)
<1>0. PICK k \in Nat : \E s \in [1 .. k -> free] : Lists(h, nf, free, s, k)
  BY DEF FreeList
<1>1. PICK s \in [1 .. k -> free] : Lists(h, nf, free, s, k)
  BY <1>0
<1> DEFINE q == [nf EXCEPT ![n] = x]
<1>2. \A m \in free : q[m] = nf[m]
  OBVIOUS
<1> HIDE DEF q
<1>3. Lists(h, q, free, s, k)
  BY <1>1, <1>2 DEF Lists
<1>4. FreeList(h, q, free)
  BY <1>3 DEF FreeList
<1> QED
  BY <1>4 DEF q

(* The list of a class visits its nodes in order and then ends.            *)
Visits(c, s, k) ==
    \A j \in 0 .. k : FreeNode(c, j) = IF j = k THEN NoNode ELSE s[j + 1]

LEMMA ListWalk ==
    ASSUME NEW c, NEW free, NEW k \in Nat, NEW s \in [1 .. k -> free],
           Lists(heads[c], nextFree, free, s, k), NoNode \notin free
    PROVE  Visits(c, s, k)
<1> SUFFICES ASSUME NEW j \in 0 .. k
             PROVE  FreeNode(c, j) = IF j = k THEN NoNode ELSE s[j + 1]
  BY DEF Visits
<1> DEFINE Next(f, i) == IF i = 0 THEN heads[c]
                         ELSE IF f[i - 1] = NoNode THEN NoNode ELSE nextFree[f[i - 1]]
           Walks(f) == f = [i \in 0 .. j |-> Next(f, i)]
           g == [i \in 0 .. j |-> IF i = k THEN NoNode ELSE s[i + 1]]
           node == CHOOSE f : Walks(f)
<1>1. FreeNode(c, j) = node[j]
  BY DEF FreeNode
<1>2. ASSUME NEW i \in 0 .. j
      PROVE  g[i] = Next(g, i)
  <2>1. CASE i = 0
    BY <2>1 DEF Lists
  <2>2. CASE i # 0
    <3>1. i - 1 \in 0 .. j /\ i - 1 # k /\ (i - 1) + 1 = i /\ i \in 1 .. k
      BY <2>2
    <3>2. g[i - 1] = s[i] /\ s[i] \in free
      BY <3>1
    <3>3. nextFree[s[i]] = IF i = k THEN NoNode ELSE s[i + 1]
      BY <3>1 DEF Lists
    <3>4. g[i] = nextFree[g[i - 1]] /\ g[i - 1] # NoNode
      BY <3>2, <3>3
    <3> HIDE DEF g
    <3> QED
      BY <2>2, <3>4
  <2> QED
    BY <2>1, <2>2
<1>3. Walks(g)
  <2>1. g = [i \in 0 .. j |-> g[i]]
    OBVIOUS
  <2> HIDE DEF g, Next
  <2> QED
    BY <1>2, <2>1
<1>4. Walks(node)
  BY <1>3
<1> HIDE DEF node, g
<1>5. \A i \in 0 .. j : node[i] = Next(node, i)
  <2> HIDE DEF Next
  <2> QED
    BY <1>4, Zenon
<1>6. node[j] = g[j]
  <2> DEFINE Bad == {i \in 0 .. j : node[i] # g[i]}
  <2> SUFFICES ASSUME Bad # {} PROVE FALSE
    OBVIOUS
  <2>1. PICK i \in Bad : \A m \in Bad : i <= m
    <3>1. Bad \in SUBSET Nat
      OBVIOUS
    <3> HIDE DEF Bad
    <3> QED
      BY <3>1, Least
  <2>2. i # 0
    BY <1>2, <1>5, <2>1
  <2>3. i - 1 \in 0 .. j /\ i - 1 \notin Bad
    BY <2>1, <2>2
  <2>4. node[i - 1] = g[i - 1]
    BY <2>3
  <2> QED
    BY <1>2, <1>5, <2>1, <2>2, <2>4
<1>7. g[j] = IF j = k THEN NoNode ELSE s[j + 1]
  BY DEF g
<1> QED
  BY <1>1, <1>6, <1>7

(* A free list is as long as the set of its nodes is large.                *)
LEMMA ListCount ==
    ASSUME NEW h, NEW nf, NEW free, NEW k \in Nat, NEW s \in [1 .. k -> free],
           Lists(h, nf, free, s, k)
    PROVE  Cardinality(free) = k
<1>1. s \in Bijection(1 .. k, free)
  <2>1. /\ \A n \in free : \E i \in 1 .. k : s[i] = n
        /\ \A i, j \in 1 .. k : s[i] = s[j] => i = j
    BY DEF Lists
  <2>2. s \in Injection(1 .. k, free)
    BY <2>1 DEF Injection, IsInjective
  <2>3. s \in Surjection(1 .. k, free)
    BY <2>1 DEF Surjection
  <2> QED
    BY <2>2, <2>3 DEF Bijection
<1> QED
  BY <1>1, FS_CountingElements DEF ExistsBijection

LEMMA FreeListsAre ==
    ASSUME PoolInv, NEW c \in Classes
    PROVE  LET idle == NodesOf(c) \ poolHeld
           IN  /\ {FreeNode(c, k) : k \in 0 .. (Cardinality(idle) - 1)} = idle
               /\ FreeNode(c, Cardinality(idle)) = NoNode
<1> DEFINE idle == NodesOf(c) \ poolHeld
<1>0. PICK k \in Nat : \E s \in [1 .. k -> idle] : Lists(heads[c], nextFree, idle, s, k)
  BY DEF PoolInv, FreeList, FreeOf
<1>1. PICK s \in [1 .. k -> idle] : Lists(heads[c], nextFree, idle, s, k)
  BY <1>0
<1>2. NoNode \notin idle
  BY NodeFacts
<1> HIDE DEF idle
<1>3. Cardinality(idle) = k
  BY <1>1, ListCount
<1>4. \A j \in 0 .. k : FreeNode(c, j) = IF j = k THEN NoNode ELSE s[j + 1]
  <2>1. Visits(c, s, k)
    BY <1>1, <1>2, ListWalk
  <2> QED
    BY <2>1 DEF Visits
<1>5. FreeNode(c, k) = NoNode
  BY <1>4
<1>6. \A j \in 0 .. (k - 1) : FreeNode(c, j) = s[j + 1] /\ s[j + 1] \in idle
  BY <1>4
<1>7. ASSUME NEW n \in idle PROVE \E j \in 0 .. (k - 1) : FreeNode(c, j) = n
  <2>1. PICK i \in 1 .. k : s[i] = n
    BY <1>1 DEF Lists
  <2>2. i - 1 \in 0 .. (k - 1) /\ (i - 1) + 1 = i
    OBVIOUS
  <2> QED
    BY <1>6, <2>1, <2>2
<1>8. {FreeNode(c, j) : j \in 0 .. (k - 1)} = idle
  BY <1>6, <1>7
<1> QED
  BY <1>3, <1>5, <1>8 DEF idle
-----------------------------------------------------------------------------
(* mk_pool_init leaves every block on the free list of its class.          *)
LEMMA PoolStarts == MemoryInit => PoolInv
<1> SUFFICES ASSUME MemoryInit PROVE PoolInv
  OBVIOUS
<1>1. /\ nextFree = [n \in Nodes |-> IF n[2] = 0 THEN NoNode ELSE <<n[1], n[2] - 1>>]
      /\ inUse = {} /\ poolHeld = {} /\ usedBytes = 0
      /\ heads = [c \in Classes |-> IF BlockCount[c] = 0 THEN NoNode
                                    ELSE <<c, BlockCount[c] - 1>>]
      /\ allocated = [c \in Classes |-> 0]
  BY DEF MemoryInit, PoolInit
<1>2. ASSUME NEW c \in Classes, NEW i \in 0 .. (BlockCount[c] - 1)
      PROVE  /\ <<c, i>> \in NodesOf(c) /\ <<c, i>> \in Nodes
             /\ nextFree[<<c, i>>] = IF i = 0 THEN NoNode ELSE <<c, i - 1>>
             /\ i # 0 => <<c, i - 1>> \in Nodes
  BY <1>1, PoolAssumption DEF NodesOf, Nodes
<1>3. ASSUME NEW n \in Nodes
      PROVE  \E c \in Classes : \E i \in 0 .. (BlockCount[c] - 1) : n = <<c, i>>
  BY DEF Nodes, NodesOf
<1>4. nextFree \in [Nodes -> Nodes \cup {NoNode}]
  <2>1. ASSUME NEW n \in Nodes PROVE nextFree[n] \in Nodes \cup {NoNode}
    <3>1. PICK c \in Classes : \E i \in 0 .. (BlockCount[c] - 1) : n = <<c, i>>
      BY <1>3
    <3>2. PICK i \in 0 .. (BlockCount[c] - 1) : n = <<c, i>>
      BY <3>1
    <3>3. /\ nextFree[n] = IF i = 0 THEN NoNode ELSE <<c, i - 1>>
          /\ i # 0 => <<c, i - 1>> \in Nodes
      BY <1>2, <3>2
    <3> QED
      BY <3>3
  <2> QED
    BY <1>1, <2>1
<1>5. heads \in [Classes -> Nodes \cup {NoNode}]
  <2>1. ASSUME NEW c \in Classes, BlockCount[c] # 0 PROVE <<c, BlockCount[c] - 1>> \in Nodes
    <3>1. BlockCount[c] - 1 \in 0 .. (BlockCount[c] - 1)
      BY <2>1, PoolAssumption
    <3> QED
      BY <1>2, <3>1
  <2> QED
    BY <1>1, <2>1
<1>6. ASSUME NEW c \in Classes PROVE FreeList(heads[c], nextFree, FreeOf(c))
  <2> DEFINE k == BlockCount[c]
             s == [i \in 1 .. k |-> <<c, k - i>>]
             free == NodesOf(c)
  <2>1. k \in Nat
    BY PoolAssumption
  <2>2. ASSUME NEW i \in 1 .. k
        PROVE  /\ s[i] = <<c, k - i>> /\ s[i] \in free /\ k - i \in 0 .. (k - 1)
    <3>1. s[i] = <<c, k - i>> /\ k - i \in 0 .. (k - 1)
      BY <2>1
    <3>2. <<c, k - i>> \in free
      BY <1>2, <3>1
    <3> QED
      BY <3>1, <3>2
  <2>3. s \in [1 .. k -> free]
    BY <2>2
  <2>4. ASSUME NEW n \in free PROVE \E i \in 1 .. k : s[i] = n
    <3>1. PICK m \in 0 .. (k - 1) : n = <<c, m>>
      BY DEF NodesOf
    <3>2. k - m \in 1 .. k /\ k - (k - m) = m
      BY <2>1
    <3> QED
      BY <2>2, <3>1, <3>2
  <2>5. \A i, j \in 1 .. k : s[i] = s[j] => i = j
    <3> SUFFICES ASSUME NEW i \in 1 .. k, NEW j \in 1 .. k, s[i] = s[j] PROVE i = j
      OBVIOUS
    <3>1. k - i = k - j
      BY <2>2
    <3> QED
      BY <2>1, <3>1
  <2>6. heads[c] = IF k = 0 THEN NoNode ELSE s[1]
    BY <1>1, <2>1, <2>2
  <2>7. ASSUME NEW i \in 1 .. k
        PROVE  nextFree[s[i]] = IF i = k THEN NoNode ELSE s[i + 1]
    <3>1. nextFree[s[i]] = IF k - i = 0 THEN NoNode ELSE <<c, (k - i) - 1>>
      BY <1>2, <2>2
    <3>2. i # k => s[i + 1] = <<c, k - (i + 1)>>
      BY <2>1, <2>2
    <3> QED
      BY <2>1, <3>1, <3>2
  <2>8. FreeOf(c) = free
    BY <1>1 DEF FreeOf
  <2> HIDE DEF s, free, k
  <2>9. Lists(heads[c], nextFree, free, s, k)
    BY <2>3, <2>4, <2>5, <2>6, <2>7 DEF Lists
  <2> QED
    BY <2>1, <2>3, <2>8, <2>9 DEF FreeList
<1>7. IsFiniteSet({}) /\ Cardinality({}) = 0
  BY FS_EmptySet
<1>8. Sum(Bytes, {}) = 0
  BY <1>7, SumFacts
<1>9. \A c \in Classes : allocated[c] = Cardinality(poolHeld \cap NodesOf(c))
  <2>1. \A c : {} \cap NodesOf(c) = {}
    OBVIOUS
  <2> QED
    BY <1>1, <1>7, <2>1
<1> QED
  BY <1>1, <1>4, <1>5, <1>6, <1>7, <1>8, <1>9 DEF PoolInv

(* The part of a finite set of blocks that is in class c, when one block   *)
(* of it is added or removed.                                              *)
LEMMA CountOne ==
    ASSUME NEW H, IsFiniteSet(H), H \subseteq Nodes, NEW n \in Nodes, NEW c \in Classes
    PROVE  /\ n \notin H => Cardinality((H \cup {n}) \cap NodesOf(c)) =
                 Cardinality(H \cap NodesOf(c)) + (IF n[1] = c THEN 1 ELSE 0)
           /\ n \in H => Cardinality((H \ {n}) \cap NodesOf(c)) =
                 Cardinality(H \cap NodesOf(c)) - (IF n[1] = c THEN 1 ELSE 0)
           /\ n \in H => Cardinality(H \cap NodesOf(n[1])) > 0
           /\ Cardinality(H \cap NodesOf(c)) \in Nat
<1>1. \A d : IsFiniteSet(H \cap NodesOf(d)) /\ Cardinality(H \cap NodesOf(d)) \in Nat
  BY FS_Subset, FS_CardinalityType
<1>2. n \in NodesOf(n[1]) /\ (n \in NodesOf(c) => n[1] = c)
  BY NodeFacts
<1>3. ASSUME n \in H PROVE Cardinality(H \cap NodesOf(n[1])) > 0
  <2>1. H \cap NodesOf(n[1]) # {}
    BY <1>2, <1>3
  <2>2. Cardinality(H \cap NodesOf(n[1])) # 0
    BY <1>1, <2>1, FS_EmptySet
  <2> QED
    BY <1>1, <2>2
<1> DEFINE part == H \cap NodesOf(c)
<1>4. CASE n[1] = c
  <2>1. /\ (H \cup {n}) \cap NodesOf(c) = part \cup {n}
        /\ (H \ {n}) \cap NodesOf(c) = part \ {n}
        /\ n \in part <=> n \in H
    BY <1>2, <1>4
  <2>2. IsFiniteSet(part) /\ Cardinality(part) \in Nat
    BY <1>1
  <2> HIDE DEF part
  <2>3. /\ Cardinality(part \cup {n}) = IF n \in part THEN Cardinality(part) ELSE Cardinality(part) + 1
        /\ Cardinality(part \ {n}) = IF n \in part THEN Cardinality(part) - 1 ELSE Cardinality(part)
    BY <2>2, FS_AddElement, FS_RemoveElement
  <2>4. /\ n \notin H => Cardinality(part \cup {n}) = Cardinality(part) + 1
        /\ n \in H => Cardinality(part \ {n}) = Cardinality(part) - 1
    BY <2>1, <2>3
  <2> QED
    BY <1>3, <1>4, <2>1, <2>2, <2>4 DEF part
<1>5. CASE n[1] # c
  <2>1. /\ (H \cup {n}) \cap NodesOf(c) = H \cap NodesOf(c)
        /\ (H \ {n}) \cap NodesOf(c) = H \cap NodesOf(c)
    BY <1>2, <1>5
  <2>2. Cardinality(part) \in Nat
    BY <1>1
  <2>3. Cardinality(part) + 0 = Cardinality(part) /\ Cardinality(part) - 0 = Cardinality(part)
    BY <2>2
  <2> QED
    BY <1>3, <1>5, <2>1, <2>2, <2>3
<1> QED
  BY <1>4, <1>5

LEMMA PoolAllocKeeps ==
    ASSUME PoolInv, NEW n, NEW c \in Classes, PoolAlloc(n, c)
    PROVE  PoolInv'
<1> DEFINE h == heads[c]
<1>1. /\ h # NoNode /\ heads' = [heads EXCEPT ![c] = nextFree[h]]
      /\ nextFree' = [nextFree EXCEPT ![h] = NoNode]
      /\ inUse' = inUse \cup {h} /\ poolHeld' = poolHeld \cup {h}
      /\ allocated' = [allocated EXCEPT ![c] = @ + 1]
      /\ usedBytes' = usedBytes + BlockSize[c]
  BY DEF PoolAlloc
<1>2. /\ nextFree \in [Nodes -> Nodes \cup {NoNode}] /\ heads \in [Classes -> Nodes \cup {NoNode}]
      /\ \A d \in Classes : FreeList(heads[d], nextFree, FreeOf(d))
      /\ \A d \in Classes : FreeOf(d) \subseteq Nodes
      /\ IsFiniteSet(poolHeld) /\ poolHeld \subseteq Nodes
  BY NodeFacts DEF PoolInv, FreeOf
<1>3. h \in FreeOf(c) /\ FreeList(nextFree[h], [nextFree EXCEPT ![h] = NoNode], FreeOf(c) \ {h})
  BY <1>1, <1>2, ListPop
<1>4. h \in Nodes /\ h[1] = c /\ h \notin poolHeld
  BY <1>3, NodeFacts DEF FreeOf
<1> HIDE DEF h
<1>5. nextFree' \in [Nodes -> Nodes \cup {NoNode}] /\ heads' \in [Classes -> Nodes \cup {NoNode}]
  BY <1>1, <1>2, <1>4
<1>6. ASSUME NEW d \in Classes
      PROVE  FreeList(heads'[d], nextFree', NodesOf(d) \ poolHeld')
  <2>1. CASE d = c
    <3>1. NodesOf(d) \ poolHeld' = FreeOf(c) \ {h} /\ heads'[d] = nextFree[h]
      BY <1>1, <1>2, <2>1 DEF FreeOf
    <3> QED
      BY <1>1, <1>3, <3>1
  <2>2. CASE d # c
    <3>1. h \notin NodesOf(d)
      BY <1>4, <2>2, NodeFacts
    <3>2. NodesOf(d) \ poolHeld' = FreeOf(d) /\ heads'[d] = heads[d] /\ h \notin FreeOf(d)
      BY <1>1, <1>2, <2>2, <3>1 DEF FreeOf
    <3>3. FreeList(heads[d], [nextFree EXCEPT ![h] = NoNode], FreeOf(d))
      BY <1>2, <3>2, ListElse
    <3> QED
      BY <1>1, <3>2, <3>3
  <2> QED
    BY <2>1, <2>2
<1>7. IsFiniteSet(poolHeld') /\ poolHeld' \subseteq Nodes /\ inUse' = poolHeld'
  BY <1>1, <1>2, <1>4, FS_AddElement DEF PoolInv
<1>8. /\ allocated' \in [Classes -> Nat]
      /\ \A d \in Classes : allocated'[d] = Cardinality(poolHeld' \cap NodesOf(d))
  <2>1. \A d \in Classes : Cardinality(poolHeld' \cap NodesOf(d)) =
            Cardinality(poolHeld \cap NodesOf(d)) + (IF c = d THEN 1 ELSE 0)
    BY <1>1, <1>2, <1>4, CountOne
  <2>2. allocated \in [Classes -> Nat]
        /\ \A d \in Classes : allocated[d] = Cardinality(poolHeld \cap NodesOf(d))
    BY DEF PoolInv
  <2>3. c \in Classes /\ allocated[c] + 1 \in Nat
    BY <2>2
  <2>4. allocated' \in [Classes -> Nat]
    BY <1>1, <2>2, <2>3
  <2>5. ASSUME NEW d \in Classes
        PROVE  allocated'[d] = allocated[d] + (IF c = d THEN 1 ELSE 0)
    BY <1>1, <2>2
  <2> QED
    BY <2>1, <2>2, <2>4, <2>5
<1>9. usedBytes' = Sum(Bytes, poolHeld')
  <2>1. Bytes[h] = BlockSize[c] /\ \A m \in poolHeld \cup {h} : Bytes[m] \in Nat
    BY <1>2, <1>4, NodeFacts DEF Bytes
  <2>2. Sum(Bytes, poolHeld \cup {h}) = Sum(Bytes, poolHeld) + Bytes[h]
    <3>1. IsFiniteSet(poolHeld) /\ h \notin poolHeld
      BY <1>2, <1>4
    <3>2. \A m \in poolHeld \cup {h} : Bytes[m] \in Nat
      BY <2>1
    <3> QED
      BY <3>1, <3>2, SumAdds
  <2> QED
    BY <1>1, <2>1, <2>2 DEF PoolInv
<1> QED
  BY <1>5, <1>6, <1>7, <1>8, <1>9 DEF PoolInv, FreeOf, Bytes

LEMMA PoolFreeKeeps ==
    ASSUME PoolInv, NEW n \in Nodes, PoolFree(n)
    PROVE  PoolInv'
<1> DEFINE c == n[1]
<1>1. /\ n \in inUse /\ heads' = [heads EXCEPT ![c] = n]
      /\ nextFree' = [nextFree EXCEPT ![n] = heads[c]]
      /\ inUse' = inUse \ {n} /\ poolHeld' = poolHeld \ {n}
      /\ allocated' = [allocated EXCEPT ![c] = IF @ > 0 THEN @ - 1 ELSE @]
      /\ usedBytes' = LessBytes(c)
  BY DEF PoolFree
<1>2. /\ nextFree \in [Nodes -> Nodes \cup {NoNode}] /\ heads \in [Classes -> Nodes \cup {NoNode}]
      /\ \A d \in Classes : FreeList(heads[d], nextFree, FreeOf(d))
      /\ \A d \in Classes : FreeOf(d) \subseteq Nodes
      /\ IsFiniteSet(poolHeld) /\ poolHeld \subseteq Nodes /\ n \in poolHeld
  BY <1>1, NodeFacts DEF PoolInv, FreeOf
<1>3. c \in Classes /\ n \in NodesOf(c) /\ \A d \in Classes : n \notin FreeOf(d)
  BY <1>2, NodeFacts DEF FreeOf
<1>4. nextFree' \in [Nodes -> Nodes \cup {NoNode}] /\ heads' \in [Classes -> Nodes \cup {NoNode}]
  BY <1>1, <1>2, <1>3
<1> HIDE DEF c
<1>5. ASSUME NEW d \in Classes
      PROVE  FreeList(heads'[d], nextFree', NodesOf(d) \ poolHeld')
  <2>1. CASE d = c
    <3>1. NodesOf(d) \ poolHeld' = FreeOf(c) \cup {n} /\ heads'[d] = n
      BY <1>1, <1>2, <1>3, <2>1 DEF FreeOf
    <3>2. FreeList(n, [nextFree EXCEPT ![n] = heads[c]], FreeOf(c) \cup {n})
      BY <1>2, <1>3, ListPush
    <3> QED
      BY <1>1, <3>1, <3>2
  <2>2. CASE d # c
    <3>1. n \notin NodesOf(d)
      BY <2>2, NodeFacts DEF c
    <3>2. NodesOf(d) \ poolHeld' = FreeOf(d) /\ heads'[d] = heads[d]
      BY <1>1, <1>2, <2>2, <3>1 DEF FreeOf
    <3>3. FreeList(heads[d], [nextFree EXCEPT ![n] = heads[c]], FreeOf(d))
      BY <1>2, <1>3, ListElse
    <3> QED
      BY <1>1, <3>2, <3>3
  <2> QED
    BY <2>1, <2>2
<1>6. IsFiniteSet(poolHeld') /\ poolHeld' \subseteq Nodes /\ inUse' = poolHeld'
  BY <1>1, <1>2, FS_RemoveElement DEF PoolInv
<1>7. /\ allocated' \in [Classes -> Nat]
      /\ \A d \in Classes : allocated'[d] = Cardinality(poolHeld' \cap NodesOf(d))
  <2>1. /\ \A d \in Classes : Cardinality(poolHeld' \cap NodesOf(d)) =
              Cardinality(poolHeld \cap NodesOf(d)) - (IF c = d THEN 1 ELSE 0)
        /\ Cardinality(poolHeld \cap NodesOf(c)) > 0
    BY <1>1, <1>2, <1>3, CountOne DEF c
  <2>2. allocated \in [Classes -> Nat]
        /\ \A d \in Classes : allocated[d] = Cardinality(poolHeld \cap NodesOf(d))
    BY DEF PoolInv
  <2>3. allocated' = [allocated EXCEPT ![c] = @ - 1] /\ allocated[c] > 0
    BY <1>1, <1>3, <2>1, <2>2
  <2>4. allocated[c] - 1 \in Nat
    BY <1>3, <2>2, <2>3
  <2>5. allocated' \in [Classes -> Nat]
    BY <1>3, <2>2, <2>3, <2>4
  <2>6. ASSUME NEW d \in Classes
        PROVE  allocated'[d] = allocated[d] - (IF c = d THEN 1 ELSE 0)
    BY <1>3, <2>2, <2>3
  <2> QED
    BY <2>1, <2>2, <2>5, <2>6
<1>8. usedBytes' = Sum(Bytes, poolHeld')
  <2>1. Bytes[n] = BlockSize[c] /\ BlockSize[c] \in Nat /\ \A m \in poolHeld : Bytes[m] \in Nat
    BY <1>2, NodeFacts DEF Bytes, c
  <2>2. Sum(Bytes, poolHeld) = Bytes[n] + Sum(Bytes, poolHeld \ {n})
    BY <1>2, <2>1, SumFacts
  <2>3. Sum(Bytes, poolHeld \ {n}) \in Nat
    <3>1. IsFiniteSet(poolHeld \ {n}) /\ \A m \in poolHeld \ {n} : Bytes[m] \in Nat
      BY <1>2, <2>1, FS_RemoveElement
    <3> QED
      BY <3>1, SumFacts
  <2>4. usedBytes = BlockSize[c] + Sum(Bytes, poolHeld \ {n})
    BY <2>1, <2>2 DEF PoolInv
  <2> QED
    BY <1>1, <2>1, <2>3, <2>4 DEF LessBytes
<1> QED
  BY <1>4, <1>5, <1>6, <1>7, <1>8 DEF PoolInv, FreeOf, Bytes

LEMMA PoolStep == PoolInv /\ [MemoryNext]_memoryVars => PoolInv'
<1> SUFFICES ASSUME PoolInv, [MemoryNext]_memoryVars PROVE PoolInv'
  OBVIOUS
<1>1. CASE UNCHANGED poolVars
  BY <1>1 DEF poolVars, PoolInv, FreeOf, Bytes
<1>2. ASSUME NEW n \in PoolRequests, NEW c \in Classes, PoolAlloc(n, c) \/ PoolAllocFails(n, c)
      PROVE  PoolInv'
  BY <1>1, <1>2, PoolAllocKeeps DEF PoolAllocFails
<1>3. ASSUME NEW n \in Nodes, PoolFree(n) \/ PoolFreeRefused(n)
      PROVE  PoolInv'
  BY <1>1, <1>3, PoolFreeKeeps DEF PoolFreeRefused
<1>4. CASE UNCHANGED memoryVars
  BY <1>1, <1>4 DEF memoryVars
<1> QED
  BY <1>1, <1>2, <1>3, <1>4 DEF MemoryNext, PoolNext

(* However mk_pool_alloc and mk_pool_free follow one another, second frees *)
(* of a block and exhausted classes among them, the free list of a class   *)
(* visits exactly the blocks of that class no caller holds, and ends.      *)
THEOREM FreeListsExactHolds == MemorySpec => []FreeListsExact
<1>1. PoolInv => FreeListsExact
  BY FreeListsAre DEF FreeListsExact
<1> QED
  BY <1>1, PoolStarts, PoolStep, PTL DEF MemorySpec

(* What mk_pool_get_stats reports is what callers hold.                    *)
LEMMA PoolStats == PoolInv => PoolStatsExact
<1> SUFFICES ASSUME PoolInv PROVE PoolStatsExact
  OBVIOUS
<1> DEFINE Size(s) == BlockSize[Pick(s)[1]]
           Solves(g) == g = [s \in SUBSET poolHeld |->
                               IF s = {} THEN 0 ELSE Size(s) + g[s \ {Pick(s)}]]
           g0 == CHOOSE g : Solves(g)
<1>1. MapThenSumSet(LAMBDA n : BlockSize[n[1]], poolHeld) = g0[poolHeld]
  BY DEF MapThenSumSet, MapThenFoldSet, Pick
<1>2. IsFiniteSet(poolHeld) /\ poolHeld \subseteq Nodes
  BY DEF PoolInv
<1>3. ASSUME NEW s \in SUBSET poolHeld, s # {} PROVE Size(s) = Bytes[Pick(s)]
  BY <1>2, <1>3, Picked DEF Bytes
<1> HIDE DEF Size, g0
<1>4. \A g : Solves(g) <=> Sums(Bytes, g, poolHeld)
  <2> TAKE g
  <2>1. \A s \in SUBSET poolHeld :
          (IF s = {} THEN 0 ELSE Size(s) + g[s \ {Pick(s)}])
            = (IF s = {} THEN 0 ELSE Bytes[Pick(s)] + g[s \ {Pick(s)}])
    BY <1>3
  <2> QED
    BY <2>1 DEF Sums
<1>5. Sums(Bytes, g0, poolHeld)
  <2> HIDE DEF Solves
  <2>1. \E g : Solves(g)
    BY <1>2, <1>4, SumsExist
  <2>2. Solves(g0)
    BY <2>1 DEF g0
  <2> QED
    BY <1>4, <2>2
<1>6. g0[poolHeld] = Sum(Bytes, poolHeld)
  BY <1>2, <1>5, SumIs
<1> QED
  BY <1>1, <1>6 DEF PoolInv, PoolStatsExact
-----------------------------------------------------------------------------
(* used_bytes.  The size of the block in front of each address.            *)
Taken == [p \in Addresses |-> mem[p - HeaderSize].size]

UsedInv == held \subseteq Addresses /\ IsFiniteSet(held) /\ used = Sum(Taken, held)

LEMMA HeldTaken ==
    ASSUME ArenaInv, NEW p \in held
    PROVE  Taken[p] = mem[p - HeaderSize].size /\ Taken[p] \in Nat
<1>1. p \in Addresses /\ p - HeaderSize \in chain
  BY HeldBlock
<1>2. mem[p - HeaderSize].size \in Nat
  BY <1>1, ListedBlock, Sizes DEF ArenaInv
<1> QED
  BY <1>1, <1>2 DEF Taken

(* my_malloc adds what the block it hands out holds ...                    *)
LEMMA UsedMalloc ==
    ASSUME ArenaInv, UsedInv, NEW n \in Requests, Malloc(n)
    PROVE  UsedInv'
<1>1. PICK b \in chain :
        /\ FirstFit(b, n)
        /\ IF Splits(b, n)
           THEN mem' = Split(b, n) /\ chain' = chain \cup {Rest(b, n)}
           ELSE mem' = [mem EXCEPT ![b].magic = "ALLOC"] /\ chain' = chain
        /\ used' = used + mem'[b].size
        /\ held' = held \cup {b + HeaderSize}
  BY DEF Malloc
<1> DEFINE q == b + HeaderSize
<1>2. /\ Listed(mem, chain) /\ chain \subseteq Addresses
      /\ b \in Addresses /\ mem[b] \in Header /\ mem[b].magic = "FREE"
      /\ mem \in [Addresses -> Header] /\ n \in 1 .. Capacity
  BY <1>1, ListedBlock, Sizes DEF ArenaInv, Listed, FirstFit, Fits
<1>3. q \in Addresses /\ q - HeaderSize = b
  BY <1>2, ListedBlock, Sizes
<1>4. q \notin held
  BY <1>2, <1>3, HeldBlock
<1>5. mem'[b].size \in Nat /\ \A x \in chain \ {b} : mem'[x].size = mem[x].size
  <2>1. CASE Splits(b, n)
    <3> DEFINE A == Split(b, n)
               r == Rest(b, n)
    <3>1. /\ Listed(A, chain \cup {r})
          /\ r \in Addresses /\ r # b /\ r \notin chain
          /\ A[b].magic = "ALLOC" /\ A[b].next = r
          /\ A[r].magic = "FREE" /\ A[r].next = mem[b].next
          /\ \A x \in chain \ {b} : A[x].magic = mem[x].magic /\ A[x].next = mem[x].next
          /\ \A x \in chain \ {b} : A[x].size = mem[x].size
          /\ A[b].size = n
      BY <1>2, <2>1, SplitListed
    <3>2. mem' = A /\ n \in Nat
      BY <1>1, <1>2, <2>1, Sizes
    <3> HIDE DEF A
    <3> QED
      BY <3>1, <3>2
  <2>2. CASE ~Splits(b, n)
    <3>1. mem'[b].size = mem[b].size /\ \A x \in chain \ {b} : mem'[x] = mem[x]
      BY <1>1, <1>2, <2>2 DEF Header
    <3> QED
      BY <1>2, <3>1, ListedBlock, Sizes
  <2> QED
    BY <2>1, <2>2
<1> HIDE DEF q
<1>6. ASSUME NEW p \in held PROVE Taken'[p] = Taken[p] /\ Taken'[p] \in Nat
  <2>1. p \in Addresses /\ p - HeaderSize \in chain /\ mem[p - HeaderSize].magic = "ALLOC"
    BY HeldBlock
  <2>2. Taken'[p] = mem'[p - HeaderSize].size
    BY <2>1 DEF Taken
  <2> QED
    BY <1>2, <1>5, <2>1, <2>2, HeldTaken
<1>7. Taken'[q] = mem'[b].size
  BY <1>3 DEF Taken
<1>8. IsFiniteSet(held) /\ IsFiniteSet(held \cup {q}) /\ held' = held \cup {q}
  BY <1>1, FS_AddElement DEF UsedInv, q
<1>9. Sum(Taken', held) = Sum(Taken, held)
  BY <1>6, <1>8, SumAlike
<1>10. Sum(Taken', held \cup {q}) = Sum(Taken', held) + Taken'[q]
  <2>1. \A p \in held \cup {q} : Taken'[p] \in Nat
    BY <1>5, <1>6, <1>7
  <2> QED
    BY <1>4, <1>8, <2>1, SumAdds
<1>11. used' = Sum(Taken', held')
  BY <1>1, <1>7, <1>8, <1>9, <1>10 DEF UsedInv
<1> QED
  BY <1>3, <1>8, <1>11 DEF UsedInv

(* ... and my_free subtracts the same, so its guard against a negative     *)
(* count never bites.                                                      *)
LEMMA UsedAccept ==
    ASSUME ArenaInv, UsedInv, NEW p \in Addresses, Accept(p)
    PROVE  UsedInv'
<1> DEFINE b == p - HeaderSize
<1>1. /\ b \in Addresses /\ mem[b].magic = "ALLOC" /\ b + HeaderSize = p
      /\ mem' = Release(b) /\ used' = Less(b) /\ held' = held \ {p}
  BY Sizes DEF Accept
<1>2. b \in chain /\ p \in held
  BY <1>1 DEF ArenaInv, AcceptsOnlyHeld
<1>3. Taken[p] = mem[b].size
  BY DEF Taken
<1> HIDE DEF b
<1>4. \A x \in Addresses : mem[x].magic = "ALLOC" /\ x # b => mem'[x].size = mem[x].size
  BY <1>1, <1>2, ReleaseListed DEF ArenaInv
<1>5. ASSUME NEW x \in held \ {p} PROVE Taken'[x] = Taken[x]
  <2>1. x \in Addresses /\ x - HeaderSize \in Addresses /\ mem[x - HeaderSize].magic = "ALLOC"
    BY HeldBlock DEF ArenaInv, Listed
  <2>2. x - HeaderSize # b
    BY <1>1, <2>1, Sizes
  <2>3. Taken'[x] = mem'[x - HeaderSize].size
    BY <2>1 DEF Taken
  <2> QED
    BY <1>4, <2>1, <2>2, <2>3 DEF Taken
<1>6. IsFiniteSet(held) /\ IsFiniteSet(held \ {p}) /\ \A x \in held : Taken[x] \in Nat
  BY HeldTaken, FS_RemoveElement DEF UsedInv
<1>7. Sum(Taken, held) = Taken[p] + Sum(Taken, held \ {p})
  BY <1>2, <1>6, SumFacts
<1>8. Sum(Taken, held \ {p}) \in Nat
  <2>1. \A x \in held \ {p} : Taken[x] \in Nat
    BY <1>6
  <2> QED
    BY <1>6, <2>1, SumFacts
<1>9. Sum(Taken', held \ {p}) = Sum(Taken, held \ {p})
  BY <1>5, <1>6, SumAlike
<1>10. Taken[p] \in Nat
  BY <1>2, <1>6
<1>11. used' = Sum(Taken, held \ {p})
  BY <1>1, <1>3, <1>7, <1>8, <1>10 DEF Less, UsedInv
<1> QED
  BY <1>1, <1>6, <1>9, <1>11 DEF UsedInv

(* A step that leaves the sizes of the held blocks alone.                  *)
LEMMA UsedSame ==
    ASSUME ArenaInv, UsedInv, held' = held, used' = used,
           \A x \in chain : mem'[x].size = mem[x].size
    PROVE  UsedInv'
<1>1. ASSUME NEW p \in held PROVE Taken'[p] = Taken[p]
  <2>1. p \in Addresses /\ p - HeaderSize \in chain
    BY HeldBlock
  <2> QED
    BY <2>1 DEF Taken
<1>2. Sum(Taken', held) = Sum(Taken, held)
  BY <1>1, SumAlike DEF UsedInv
<1> QED
  BY <1>2 DEF UsedInv

LEMMA UsedStep == ArenaInv /\ UsedInv /\ [MemoryNext]_memoryVars => UsedInv'
<1> SUFFICES ASSUME ArenaInv, UsedInv, [MemoryNext]_memoryVars PROVE UsedInv'
  OBVIOUS
<1>1. CASE UNCHANGED arenaVars
  BY <1>1, UsedSame DEF arenaVars
<1>2. ASSUME NEW n \in Requests, Malloc(n) PROVE UsedInv'
  BY <1>2, UsedMalloc
<1>3. ASSUME NEW n \in Requests, MallocFails(n) PROVE UsedInv'
  BY <1>1, <1>3 DEF MallocFails
<1>4. ASSUME NEW p \in Addresses, Accept(p) PROVE UsedInv'
  BY <1>4, UsedAccept
<1>5. ASSUME NEW p \in Addresses, Refuse(p) PROVE UsedInv'
  <2>1. p \notin held
    BY <1>5, HeldBlock DEF Refuse
  <2>2. mem' = mem /\ held' = held /\ used' = used
    BY <1>5, <2>1 DEF Refuse
  <2> QED
    BY <2>2, UsedSame
<1>6. ASSUME NEW p \in held, Fill(p) PROVE UsedInv'
  <2>1. held' = held /\ used' = used
    BY <1>6 DEF Fill
  <2> QED
    BY <1>6, <2>1, FillSpares, UsedSame
<1>7. CASE RefuseInvalid
  BY <1>1, <1>7 DEF RefuseInvalid
<1>8. CASE UNCHANGED memoryVars
  BY <1>1, <1>8 DEF memoryVars
<1> QED
  BY <1>1, <1>2, <1>3, <1>4, <1>5, <1>6, <1>7, <1>8 DEF MemoryNext, ArenaNext, Fill

LEMMA UsedStarts == MemoryInit => UsedInv
<1> SUFFICES ASSUME MemoryInit PROVE UsedInv
  OBVIOUS
<1>1. held = {} /\ used = 0 /\ IsFiniteSet({})
  BY FS_EmptySet DEF MemoryInit, ArenaInit
<1>2. Sum(Taken, {}) = 0
  BY <1>1, SumFacts
<1> QED
  BY <1>1, <1>2 DEF UsedInv

LEMMA UsedIs == ArenaInv /\ UsedInv => UsedExact
<1> SUFFICES ASSUME ArenaInv, UsedInv PROVE UsedExact
  OBVIOUS
<1> DEFINE Size(s) == mem[Pick(s) - HeaderSize].size
           Solves(g) == g = [s \in SUBSET held |->
                               IF s = {} THEN 0 ELSE Size(s) + g[s \ {Pick(s)}]]
           g0 == CHOOSE g : Solves(g)
<1>1. MapThenSumSet(LAMBDA p : mem[p - HeaderSize].size, held) = g0[held]
  BY DEF MapThenSumSet, MapThenFoldSet, Pick
<1>2. IsFiniteSet(held) /\ held \subseteq Addresses
  BY DEF UsedInv
<1>3. ASSUME NEW s \in SUBSET held, s # {} PROVE Size(s) = Taken[Pick(s)]
  BY <1>2, <1>3, Picked DEF Taken
<1> HIDE DEF Size, g0
<1>4. \A g : Solves(g) <=> Sums(Taken, g, held)
  <2> TAKE g
  <2>1. \A s \in SUBSET held :
          (IF s = {} THEN 0 ELSE Size(s) + g[s \ {Pick(s)}])
            = (IF s = {} THEN 0 ELSE Taken[Pick(s)] + g[s \ {Pick(s)}])
    BY <1>3
  <2> QED
    BY <2>1 DEF Sums
<1>5. Sums(Taken, g0, held)
  <2> HIDE DEF Solves
  <2>1. \E g : Solves(g)
    BY <1>2, <1>4, SumsExist
  <2>2. Solves(g0)
    BY <2>1 DEF g0
  <2> QED
    BY <1>4, <2>2
<1>6. g0[held] = Sum(Taken, held)
  BY <1>2, <1>5, SumIs
<1> QED
  BY <1>1, <1>6 DEF UsedInv, UsedExact

(* used_bytes, allocated_blocks and total_used_bytes are exactly what      *)
(* callers hold, whatever was split, merged, freed twice or refused        *)
(* (mk_memory_get_stats, mk_pool_get_stats).                               *)
THEOREM AccountsExactHolds == MemorySpec => []AccountsExact
<1>1. ArenaInv /\ UsedInv /\ PoolInv => AccountsExact
  BY UsedIs, PoolStats DEF AccountsExact
<1> QED
  BY <1>1, ArenaStarts, ArenaStep, UsedStarts, UsedStep, PoolStarts, PoolStep, PTL
  DEF MemorySpec
=============================================================================
