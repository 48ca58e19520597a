---------------------------- MODULE VideoMemory ----------------------------
(***************************************************************************)
(* The table of video memory allocations (src/drivers/gpu/gpu_driver.c).   *)
(* The blocks come from a pool with no body in the repository              *)
(* (allocate_video_memory_block, free_video_memory_block): it hands out    *)
(* blocks that are not in use and may have none to give.  A slot keeps its *)
(* old address when it is released, and gpu_free_video_memory looks for an *)
(* address without asking whether the slot is in use.                      *)
(***************************************************************************)
EXTENDS Integers, FiniteSets

CONSTANTS
    MaxVideoAllocations,    \* MAX_VIDEO_ALLOCATIONS
    Blocks,                 \* the addresses the pool has to give
    Sizes,                  \* the sizes callers ask for
    NULL

ASSUME VideoAssumption == MaxVideoAllocations \in Nat /\ NULL \notin Blocks

VARIABLES
    used, size, address,    \* fields of video_allocations[i]
    lent                    \* the pool's record: the size of every block in use

videoVars == <<used, size, address, lent>>

Slots == 0 .. (MaxVideoAllocations - 1)

VideoTypeOK ==
    /\ used \in [Slots -> BOOLEAN]
    /\ size \in [Slots -> Sizes \cup {0}]
    /\ address \in [Slots -> Blocks \cup {NULL}]
    /\ DOMAIN lent \subseteq Blocks /\ lent \in [DOMAIN lent -> Sizes]

\* gpu_ctx is zeroed static storage.
VideoInit ==
    /\ used = [i \in Slots |-> FALSE]
    /\ size = [i \in Slots |-> 0]
    /\ address = [i \in Slots |-> NULL]
    /\ lent = [b \in {} |-> 0]

\* (Mutant of FirstUnused: any unused slot is taken.)
AnyUnused(i) == ~used[i]

FirstUnused(i) == ~used[i] /\ \A j \in Slots : j < i => used[j]

\* gpu_alloc_video_memory; the pool may answer NULL, the slot is taken all the same.
GpuAllocVideoMemory(sz) ==
    \E i \in Slots, b \in (Blocks \ DOMAIN lent) \cup {NULL} :
        /\ FirstUnused(i)
        /\ used' = [used EXCEPT ![i] = TRUE]
        /\ size' = [size EXCEPT ![i] = sz]
        /\ address' = [address EXCEPT ![i] = b]
        /\ lent' = IF b = NULL THEN lent
                   ELSE [c \in DOMAIN lent \cup {b} |-> IF c = b THEN sz ELSE lent[c]]

\* The slot gpu_free_video_memory releases: the first one with the address.
Named(i, ptr) == address[i] = ptr /\ \A j \in Slots : j < i => address[j] # ptr

\* (Mutant of GpuFreeVideoMemory: the block goes back, the slot stays in use.)
FreeKeepingSlot(ptr) ==
    /\ ptr \in DOMAIN lent
    /\ \E i \in Slots : Named(i, ptr)
    /\ lent' = [c \in DOMAIN lent \ {ptr} |-> lent[c]]
    /\ UNCHANGED <<used, size, address>>

\* gpu_free_video_memory, for a block its caller was given.
GpuFreeVideoMemory(ptr) ==
    /\ ptr \in DOMAIN lent
    /\ \E i \in Slots : Named(i, ptr) /\ used' = [used EXCEPT ![i] = FALSE]
    /\ lent' = [c \in DOMAIN lent \ {ptr} |-> lent[c]]
    /\ UNCHANGED <<size, address>>

VideoNext ==
    \/ \E sz \in Sizes : GpuAllocVideoMemory(sz)
    \/ \E ptr \in DOMAIN lent : GpuFreeVideoMemory(ptr)

VideoSpec == VideoInit /\ [][VideoNext]_videoVars

-----------------------------------------------------------------------------
\* The slot that gpu_free_video_memory would find for a block in use is the one
\* the block was allocated in: it is in use and holds the size the block has, so
\* no old address of a released slot ever hides it.
FreeFindsItsSlot ==
    \A b \in DOMAIN lent : \E i \in Slots : Named(i, b) /\ used[i] /\ size[i] = lent[b]

\* Every slot in use that has an address stands for a block in use, and no two
\* for the same one: blocks returned to the pool leave no slot behind.
SlotsAreBlocks ==
    \A i \in Slots : used[i] /\ address[i] # NULL =>
        /\ address[i] \in DOMAIN lent
        /\ \A j \in Slots : used[j] /\ address[j] = address[i] => i = j
=============================================================================
