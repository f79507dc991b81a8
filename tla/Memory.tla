------------------------------- MODULE Memory -------------------------------
(***************************************************************************)
(* The memory services of the kernel together: the arena and the pools,    *)
(* both recording their faults in the one fault log.  The calls come from  *)
(* cooperative tasks, so each runs to completion.                          *)
(***************************************************************************)
EXTENDS Arena, Pool

memoryVars == <<faultVars, arenaVars, poolVars>>

MemoryInit == FaultInit /\ ArenaInit /\ PoolInit

MemoryNext ==
    \/ ArenaNext /\ UNCHANGED poolVars
    \/ PoolNext /\ UNCHANGED arenaVars

MemorySpec == MemoryInit /\ [][MemoryNext]_memoryVars

(* What mk_memory_get_stats and mk_pool_get_stats report is what callers   *)
(* hold, in bytes and in blocks of each class, whatever was split, merged, *)
(* freed twice or refused meanwhile.                                       *)
AccountsExact == UsedExact /\ PoolStatsExact

(* mk_memory_init, mk_pool_init and mk_fault_manager_init touch disjoint   *)
(* state, so one type invariant serves all three.                          *)
MemoryTypeOK == FaultTypeOK /\ ArenaTypeOK /\ PoolTypeOK
=============================================================================
