-------------------------------- MODULE Arena --------------------------------
(***************************************************************************)
(* The first-fit arena allocator, os/kernel/memory_manager.c: my_malloc,   *)
(* my_free and the block headers they keep inside the arena.               *)
(*                                                                         *)
(* The unit of addresses and sizes is MK_ALIGNMENT bytes; a request stands *)
(* for all byte sizes that MK_ALIGN rounds up to it.  mem holds what would *)
(* be read as a header at each address: the headers of the blocks in the   *)
(* list, headers left behind by coalescing until somebody overwrites them, *)
(* and Junk elsewhere.  is_free is stored together with the magic          *)
(* everywhere and is folded into it.  The list s_head_block -> next -> ... *)
(* visits blocks by increasing address (see Tiled), so the search of       *)
(* my_malloc is written over the set chain of the blocks in the list.      *)
(*                                                                         *)
(* Callers write to all of what they are given and to nothing else.        *)
(* Definitions named Bad... are faulty variants of the definition that     *)
(* follows them.                                                           *)
(***************************************************************************)
EXTENDS FaultLog, FiniteSetsExt

CONSTANTS
    ArenaSize,  \* MK_ARENA_SIZE
    HeaderSize, \* sizeof(mk_mem_block_t)
    Requests    \* the sizes asked of my_malloc

Capacity == ArenaSize - HeaderSize

ASSUME ArenaAssumption ==
    /\ ArenaSize \in Nat /\ HeaderSize \in Nat \ {0}
    /\ Capacity > 0
    /\ Requests \subseteq 1 .. Capacity

ArenaFaults == {"EXHAUSTED", "INVALID_PTR", "DOUBLE_FREE", "CORRUPTION"}
ASSUME ArenaFaultsAssumption == ArenaFaults \subseteq FaultCodes

VARIABLES
    mem,    \* the headers in s_arena_buffer
    chain,  \* the addresses of the headers on the list
    used,   \* s_stats.used_bytes
    held    \* the pointers callers have been given and not freed
arenaVars == <<mem, chain, used, held>>

Addresses == 0 .. (ArenaSize - 1)
NULL == -1

Header == [magic : {"ALLOC", "FREE", "JUNK"}, size : 0 .. Capacity,
           prev : Addresses \cup {NULL}, next : Addresses \cup {NULL}]
Junk == [magic |-> "JUNK", size |-> 0, prev |-> NULL, next |-> NULL]

ArenaTypeOK ==
    /\ mem \in [Addresses -> Header]
    /\ chain \subseteq Addresses
    /\ used \in 0 .. Capacity
    /\ held \subseteq Addresses

(* Storing a header overwrites HeaderSize units.                           *)
Store(m, a, h) ==
    [x \in Addresses |-> IF x = a THEN h
                         ELSE IF a < x /\ x < a + HeaderSize THEN Junk
                         ELSE m[x]]

(* block->prev = p, unless there is no block.                              *)
SetPrev(m, block, p) ==
    IF block = NULL THEN m ELSE [m EXCEPT ![block].prev = p]

(* mk_memory_init: one free block.                                         *)
FirstHeader == [magic |-> "FREE", size |-> Capacity, prev |-> NULL, next |-> NULL]

ArenaInit ==
    /\ mem = Store([a \in Addresses |-> Junk], 0, FirstHeader)
    /\ chain = {0}
    /\ used = 0
    /\ held = {}
-----------------------------------------------------------------------------
(* The search of my_malloc: the first block of the list that is free and   *)
(* large enough.                                                           *)
Fits(b, n) == mem[b].magic = "FREE" /\ mem[b].size >= n

FirstFit(b, n) ==
    /\ b \in chain /\ Fits(b, n)
    /\ \A c \in chain : Fits(c, n) => b <= c

(* What is left of block b is worth a header and MK_MIN_PAYLOAD.           *)
Splits(b, n) == mem[b].size - n >= HeaderSize + 1

BadRest(b, n) == b + n  \* inside what the caller is given

Rest(b, n) == b + HeaderSize + n  \* the address of the header of the rest

Split(b, n) ==
    LET rest == [magic |-> "FREE", size |-> mem[b].size - n - HeaderSize,
                 prev |-> b, next |-> mem[b].next]
        stored == Store(mem, Rest(b, n), rest)
        linked == SetPrev(stored, mem[b].next, Rest(b, n))
    IN  [linked EXCEPT ![b] = [@ EXCEPT !.magic = "ALLOC", !.size = n,
                                        !.next = Rest(b, n)]]

(* my_malloc(n) when a block fits.                                         *)
Malloc(n) ==
    \E b \in chain :
        /\ FirstFit(b, n)
        /\ IF Splits(b, n)
           THEN mem' = Split(b, n) /\ chain' = chain \cup {Rest(b, n)}
           ELSE mem' = [mem EXCEPT ![b].magic = "ALLOC"] /\ chain' = chain
        /\ used' = used + mem'[b].size
        /\ held' = held \cup {b + HeaderSize}
        /\ UNCHANGED faultVars

(* my_malloc(n) when none does.                                            *)
MallocFails(n) ==
    /\ \A b \in chain : ~Fits(b, n)
    /\ Record("EXHAUSTED")
    /\ UNCHANGED arenaVars
-----------------------------------------------------------------------------
(* Forward, then backward coalescing, on a memory m in which b is free.    *)
(* The absorbed header stays where it was.                                 *)
Free(m, b) == b # NULL /\ m[b].magic = "FREE"

Absorb(m, b) ==  \* b takes over the block that follows it
    LET n == m[b].next
    IN  SetPrev([m EXCEPT ![b].size = @ + HeaderSize + m[n].size,
                          ![b].next = m[n].next],
                m[n].next, b)

BadForward(m, b) == IF Free(m, m[b].next)  \* the list is not relinked
                    THEN [m EXCEPT ![b].size = @ + HeaderSize + m[m[b].next].size]
                    ELSE m

Forward(m, b) == IF Free(m, m[b].next) THEN Absorb(m, b) ELSE m

BadBackward(m, b) == m  \* no backward coalescing

Backward(m, b) == IF Free(m, m[b].prev) THEN Absorb(m, m[b].prev) ELSE m

BadRelease(b) ==  \* the magic of the freed header left as it is
    LET freed == [mem EXCEPT ![b].magic = "FREE"]
        forward == Forward(freed, b)
    IN  IF Free(forward, forward[b].prev)
        THEN [Backward(forward, b) EXCEPT ![b].magic = "ALLOC"]
        ELSE forward

Release(b) ==
    LET freed == [mem EXCEPT ![b].magic = "FREE"]
    IN  Backward(Forward(freed, b), b)

(* The headers that leave the list when b is freed.                        *)
Absorbed(b) ==
    {c \in {mem[b].next} : Free(mem, c)} \cup {c \in {b} : Free(mem, mem[b].prev)}

Less(b) == IF used >= mem[b].size THEN used - mem[b].size ELSE 0

(* my_free(p) for an aligned p whose header says it is allocated.          *)
Accept(p) ==
    LET b == p - HeaderSize
    IN  /\ p \in Addresses /\ b \in Addresses
        /\ mem[b].magic = "ALLOC"
        /\ mem' = Release(b)
        /\ chain' = chain \ Absorbed(b)
        /\ used' = Less(b)
        /\ held' = held \ {p}
        /\ UNCHANGED faultVars

(* my_free(p) refused: a null is_free word lets Junk through to the check  *)
(* for corruption, any other value looks like a double free.               *)
Refusal(magic) == IF magic = "FREE" THEN {"DOUBLE_FREE"}
                                    ELSE {"DOUBLE_FREE", "CORRUPTION"}

Refuse(p) ==
    LET b == p - HeaderSize
    IN  /\ p \in Addresses /\ b \in Addresses
        /\ mem[b].magic # "ALLOC"
        /\ \E code \in Refusal(mem[b].magic) : Record(code)
        /\ held' = held \ {p}
        /\ UNCHANGED <<mem, chain, used>>

(* my_free(p) for a pointer outside the arena or misaligned.               *)
RefuseInvalid ==
    /\ Record("INVALID_PTR")
    /\ UNCHANGED arenaVars

(* The caller that holds p fills its memory: whatever headers were there   *)
(* are gone.                                                               *)
Payload(p) == p .. (p + mem[p - HeaderSize].size - 1)

Fill(p) ==
    /\ p \in held
    /\ mem' = [a \in Addresses |-> IF a \in Payload(p) THEN Junk ELSE mem[a]]
    /\ UNCHANGED <<chain, used, held, ring, writeIndex, total>>

ArenaNext ==
    \/ \E n \in Requests : Malloc(n) \/ MallocFails(n)
    \/ \E p \in Addresses : Accept(p) \/ Refuse(p) \/ Fill(p)
    \/ RefuseInvalid

ArenaSpec == FaultInit /\ ArenaInit /\ [][ArenaNext]_<<faultVars, arenaVars>>
-----------------------------------------------------------------------------
(* The end of block b: where the next header must be.                      *)
BlockEnd(b) == b + HeaderSize + mem[b].size

(* The list tiles the arena: each block ends where the next one on the     *)
(* list begins, the last one at the end of the arena, the back pointers    *)
(* agree, and no two free blocks are neighbours.                           *)
Tiled ==
    /\ 0 \in chain /\ mem[0].prev = NULL
    /\ \A b \in chain :
          /\ mem[b].magic # "JUNK"
          /\ mem[b].next = NULL => BlockEnd(b) = ArenaSize
          /\ mem[b].next # NULL =>
                /\ mem[b].next = BlockEnd(b)
                /\ mem[b].next \in chain
                /\ mem[mem[b].next].prev = b
                /\ ~(mem[b].magic = "FREE" /\ mem[mem[b].next].magic = "FREE")

(* my_free accepts exactly the pointers callers hold: no header left       *)
(* behind in the arena ever looks allocated, so a second my_free of a      *)
(* pointer is refused whatever has been allocated over it meanwhile.       *)
AcceptsOnlyHeld ==
    \A b \in Addresses :
        mem[b].magic = "ALLOC" <=> (b \in chain /\ b + HeaderSize \in held)

(* The memory of two callers does not overlap, nor does it overlap any     *)
(* header on the list.                                                     *)
Exclusive ==
    \A p \in held :
        /\ \A q \in held \ {p} : Payload(p) \cap Payload(q) = {}
        /\ \A b \in chain : Payload(p) \cap (b .. (b + HeaderSize - 1)) = {}
        /\ Payload(p) \subseteq Addresses

(* used_bytes is the memory held by callers.                               *)
UsedExact == used = MapThenSumSet(LAMBDA p : mem[p - HeaderSize].size, held)

(* Nothing is lost to fragmentation beyond what callers hold: whenever a   *)
(* stretch between held blocks could take a request with its header,       *)
(* my_malloc finds a block for it.                                         *)
Occupied(a) == \E p \in held : a \in (p - HeaderSize) .. (p + mem[p - HeaderSize].size - 1)

GapsServed ==
    \A n \in Requests, a \in Addresses :
        /\ a + HeaderSize + n <= ArenaSize
        /\ \A x \in a .. (a + HeaderSize + n - 1) : ~Occupied(x)
        => \E b \in chain : Fits(b, n)

(* Readers of the fault log see the latest faults in order, none skipped.  *)
Recent == INSTANCE RecentFaults WITH log <- Readable
LogSpec == Recent!LogSpec
=============================================================================
