-------------------------------- MODULE Pool --------------------------------
(***************************************************************************)
(* The fixed-size block pools, os/kernel/memory_pool.c: for every size     *)
(* class a static array of nodes and a singly linked list of the free      *)
(* ones.  magic and in_use are always stored together and kept as one.     *)
(* Callers pass pointers they were given by mk_pool_alloc, once or twice;  *)
(* the code cannot tell any other pointer from a node.                     *)
(***************************************************************************)
EXTENDS FaultLog, FiniteSetsExt

CONSTANTS
    Classes,       \* 0 .. MK_POOL_CLASSES_COUNT - 1
    BlockSize,     \* s_block_sizes
    BlockCount,    \* s_class_counts
    PoolRequests   \* the sizes asked of mk_pool_alloc

ASSUME PoolAssumption ==
    /\ Classes \subseteq Nat
    /\ BlockSize \in [Classes -> Nat] /\ BlockCount \in [Classes -> Nat]
    /\ \A c, d \in Classes : c < d => BlockSize[c] < BlockSize[d]
    /\ \A n \in PoolRequests : n > 0 /\ \E c \in Classes : n <= BlockSize[c]
    /\ {"EXHAUSTED", "DOUBLE_FREE"} \subseteq FaultCodes

NodesOf(c) == {c} \X (0 .. (BlockCount[c] - 1))
Nodes == UNION {NodesOf(c) : c \in Classes}
NoNode == <<>>

VARIABLES
    nextFree,   \* node->next_free
    inUse,      \* the nodes with in_use set
    heads,      \* s_free_heads
    allocated,  \* classes[c].allocated_blocks
    usedBytes,  \* total_used_bytes
    poolHeld    \* the blocks callers hold
poolVars == <<nextFree, inUse, heads, allocated, usedBytes, poolHeld>>

PoolTypeOK ==
    /\ nextFree \in [Nodes -> Nodes \cup {NoNode}]
    /\ inUse \subseteq Nodes
    /\ heads \in [Classes -> Nodes \cup {NoNode}]
    /\ \A c \in Classes : allocated[c] \in 0 .. BlockCount[c]
    /\ usedBytes \in Nat
    /\ poolHeld \subseteq Nodes

(* mk_pool_init pushes the nodes of every class one by one.                *)
PoolInit ==
    /\ nextFree = [n \in Nodes |-> IF n[2] = 0 THEN NoNode ELSE <<n[1], n[2] - 1>>]
    /\ inUse = {}
    /\ heads = [c \in Classes |-> IF BlockCount[c] = 0 THEN NoNode
                                  ELSE <<c, BlockCount[c] - 1>>]
    /\ allocated = [c \in Classes |-> 0]
    /\ usedBytes = 0
    /\ poolHeld = {}

(* The smallest class whose blocks can take n bytes.                       *)
Target(c, n) ==
    /\ n <= BlockSize[c]
    /\ \A d \in Classes : n <= BlockSize[d] => c <= d

(* mk_pool_alloc(n), served from class c.                                  *)
PoolAlloc(n, c) ==
    /\ Target(c, n)
    /\ heads[c] # NoNode
    /\ heads' = [heads EXCEPT ![c] = nextFree[heads[c]]]
    /\ nextFree' = [nextFree EXCEPT ![heads[c]] = NoNode]
    /\ inUse' = inUse \cup {heads[c]}
    /\ allocated' = [allocated EXCEPT ![c] = @ + 1]
    /\ usedBytes' = usedBytes + BlockSize[c]
    /\ poolHeld' = poolHeld \cup {heads[c]}
    /\ UNCHANGED faultVars

(* mk_pool_alloc(n) when class c has no free block; no other class is      *)
(* tried.                                                                  *)
PoolAllocFails(n, c) ==
    /\ Target(c, n)
    /\ heads[c] = NoNode
    /\ Record("EXHAUSTED")
    /\ UNCHANGED poolVars

BadLessBytes(c) == usedBytes - 1

LessBytes(c) ==
    IF usedBytes >= BlockSize[c] THEN usedBytes - BlockSize[c] ELSE usedBytes

BadPoolFree(n) ==  \* pushes without the check for a double free
    /\ heads' = [heads EXCEPT ![n[1]] = n]
    /\ nextFree' = [nextFree EXCEPT ![n] = heads[n[1]]]
    /\ inUse' = inUse \ {n}
    /\ allocated' = [allocated EXCEPT ![n[1]] = IF @ > 0 THEN @ - 1 ELSE @]
    /\ usedBytes' = LessBytes(n[1])
    /\ poolHeld' = poolHeld \ {n}
    /\ UNCHANGED faultVars

(* mk_pool_free of a block in use.                                         *)
PoolFree(n) ==
    /\ n \in inUse
    /\ heads' = [heads EXCEPT ![n[1]] = n]
    /\ nextFree' = [nextFree EXCEPT ![n] = heads[n[1]]]
    /\ inUse' = inUse \ {n}
    /\ allocated' = [allocated EXCEPT ![n[1]] = IF @ > 0 THEN @ - 1 ELSE @]
    /\ usedBytes' = LessBytes(n[1])
    /\ poolHeld' = poolHeld \ {n}
    /\ UNCHANGED faultVars

(* mk_pool_free of a block that is free already.                           *)
PoolFreeRefused(n) ==
    /\ n \notin inUse
    /\ Record("DOUBLE_FREE")
    /\ UNCHANGED poolVars

PoolNext ==
    \/ \E n \in PoolRequests, c \in Classes : PoolAlloc(n, c) \/ PoolAllocFails(n, c)
    \/ \E n \in Nodes : PoolFree(n) \/ PoolFreeRefused(n)
-----------------------------------------------------------------------------
(* The k-th node on the free list of class c, counted from zero.           *)
FreeNode(c, k) ==
    LET node[i \in 0 .. k] ==
            IF i = 0 THEN heads[c]
            ELSE IF node[i - 1] = NoNode THEN NoNode ELSE nextFree[node[i - 1]]
    IN  node[k]

(* The free lists hold every block that no caller holds, each exactly once *)
(* and on the list of its own class, and end: no block is lost, handed out *)
(* twice, or linked into a cycle by a second free.                         *)
FreeListsExact ==
    \A c \in Classes :
        LET idle == NodesOf(c) \ poolHeld
        IN  /\ {FreeNode(c, k) : k \in 0 .. (Cardinality(idle) - 1)} = idle
            /\ FreeNode(c, Cardinality(idle)) = NoNode

(* allocated_blocks and total_used_bytes are what callers hold.            *)
PoolStatsExact ==
    /\ \A c \in Classes : allocated[c] = Cardinality(poolHeld \cap NodesOf(c))
    /\ usedBytes = MapThenSumSet(LAMBDA n : BlockSize[n[1]], poolHeld)
=============================================================================
