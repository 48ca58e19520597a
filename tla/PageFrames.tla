----------------------------- MODULE PageFrames -----------------------------
(***************************************************************************)
(* The bitmap of physical page frames (src/kernel/memory.c): built once    *)
(* from the memory map the bootloader left at 0x8000, then used by         *)
(* alloc_physical_page and free_physical_page.  Bits outside the bitmap    *)
(* are never tested, so the bitmap is the set of its bits that are set.    *)
(***************************************************************************)
EXTENDS Integers, Sequences, FiniteSets, FiniteSetsExt

CONSTANTS
    PageSize,       \* PAGE_SIZE
    ByteBits,       \* bits in a byte of the bitmap
    KernelFrames,   \* 0x300000 / PAGE_SIZE: frames of the kernel and bootloader
    MemoryMaps      \* the memory maps a machine may have

ASSUME FramesAssumption ==
    /\ PageSize \in Nat \ {0} /\ ByteBits \in Nat \ {0}
    /\ KernelFrames \in Nat
    /\ \A map \in MemoryMaps :
          /\ Len(map) \in Nat /\ DOMAIN map = 1 .. Len(map)
          /\ \A i \in DOMAIN map : map[i].base \in Nat /\ map[i].length \in Nat

VARIABLES
    memoryMap,  \* memory_map: a sequence of regions
    bitmap,     \* the set bits of physical_bitmap
    frames      \* the frames whose address callers of alloc_physical_page hold

frameVars == <<memoryMap, bitmap, frames>>

-----------------------------------------------------------------------------
(* parse_memory_map and init_physical_bitmap.                              *)

Available(map) == {i \in DOMAIN map : map[i].available}

TotalMemory(map) == MapThenSumSet(LAMBDA i : map[i].length, DOMAIN map)

\* bitmap_size * 8; the frames beyond the last whole byte have no bit.
BitmapBits(map) == ((TotalMemory(map) \div PageSize) \div ByteBits) * ByteBits

RegionFrames(r) == (r.base \div PageSize) .. (((r.base + r.length) \div PageSize) - 1)

\* (Mutant of InitialBitmap: the kernel's own frames are left free.)
BitmapWithoutKernel(map) ==
    (0 .. (BitmapBits(map) - 1)) \ UNION {RegionFrames(map[i]) : i \in Available(map)}

\* All memory is used, then available regions are free, then the kernel is used.
InitialBitmap(map) ==
    {f \in 0 .. (BitmapBits(map) - 1) :
        \/ f < KernelFrames
        \/ \A i \in Available(map) : f \notin RegionFrames(map[i])}

FramesInit ==
    /\ memoryMap \in MemoryMaps
    /\ bitmap = InitialBitmap(memoryMap)
    /\ frames = {}

-----------------------------------------------------------------------------
ClearBits == (0 .. (BitmapBits(memoryMap) - 1)) \ bitmap

\* (Mutant of FirstClear: the scan starts at the end of the bitmap.)
LastClear(f) == f \in ClearBits /\ \A g \in ClearBits : f >= g

FirstClear(f) == f \in ClearBits /\ \A g \in ClearBits : f <= g

\* (Mutant of AllocPhysicalPage: the bit is not set.)
AllocWithoutMarking ==
    /\ \E f \in ClearBits : FirstClear(f) /\ frames' = frames \cup {f}
    /\ UNCHANGED <<memoryMap, bitmap>>

\* alloc_physical_page: the lowest clear bit; 0, and no change, when there is none.
AllocPhysicalPage ==
    /\ \E f \in ClearBits :
          /\ FirstClear(f)
          /\ bitmap' = bitmap \cup {f}
          /\ frames' = frames \cup {f}
    /\ UNCHANGED memoryMap

\* free_physical_page, for a frame its caller was given.
FreePhysicalPage(f) ==
    /\ f \in frames
    /\ bitmap' = bitmap \ {f}
    /\ frames' = frames \ {f}
    /\ UNCHANGED memoryMap

FramesNext == AllocPhysicalPage \/ \E f \in frames : FreePhysicalPage(f)
=============================================================================
