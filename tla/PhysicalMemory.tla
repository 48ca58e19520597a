--------------------------- MODULE PhysicalMemory ---------------------------
(***************************************************************************)
(* memory_init and what runs after it: the page-frame bitmap and the buddy *)
(* allocator side by side.  Both are filled from the same memory map, the  *)
(* buddy allocator with the available regions that start at 16 MB or       *)
(* above; nothing takes those pages out of the bitmap.                     *)
(***************************************************************************)
EXTENDS PageFrames, BuddyAllocator

CONSTANT BuddyFloor     \* 0x1000000, 16 MB

ASSUME FloorAssumption == BuddyFloor \in Nat

vars == <<memoryMap, bitmap, frames, buddyBlocks, granted>>

BuddyRegions(map) == {i \in Available(map) : map[i].base >= BuddyFloor}

InitialBlocks(map) ==
    UNION {LET f == RegionFrames(map[i]) IN
           IF f = {} THEN {} ELSE RegionBlocks(Min(f), Max(f)) : i \in BuddyRegions(map)}

Init == FramesInit /\ BuddyInit(InitialBlocks(memoryMap))

Next ==
    \/ FramesNext /\ UNCHANGED buddyVars
    \/ BuddyNext /\ UNCHANGED frameVars

Spec == Init /\ [][Next]_vars

-----------------------------------------------------------------------------
TypeOK ==
    /\ memoryMap \in MemoryMaps
    /\ bitmap \subseteq 0 .. (BitmapBits(memoryMap) - 1)
    /\ frames \subseteq bitmap
    /\ buddyBlocks \in [Orders -> Seq(Nat)]
    /\ \A b \in granted : b.address \in Nat /\ b.order \in Orders

\* The buddy allocator neither loses nor duplicates a page: after any sequence of
\* splits and merges the free and the granted blocks are naturally aligned, do
\* not overlap, and cover exactly the pages init_buddy_allocator was given.
BlocksTile ==
    LET blocks == FreeBlocks \cup granted IN
    /\ \A b \in blocks : b.address % 2^b.order = 0
    /\ \A b, c \in blocks : b # c => Pages(b) \cap Pages(c) = {}
    /\ FreeBlocks \cap granted = {}
    /\ UNION {Pages(b) : b \in blocks} =
           UNION {Pages(b) : b \in InitialBlocks(memoryMap)}

\* buddy_alloc fails only for want of room: when some aligned block of 2^order
\* pages is free page by page, a list it looks at is not empty.  Free pages
\* never stay cut up once both halves of a block have been returned.
RoomIsFound ==
    LET free == UNION {Pages(b) : b \in FreeBlocks} IN
    \A order \in Orders :
        (\E a \in free : a % 2^order = 0 /\ Pages(Block(a, order)) \subseteq free) =>
            \E o \in Orders : o >= order /\ buddyBlocks[o] # <<>>

\* A frame that alloc_physical_page hands out lies wholly inside one available
\* region of the memory map and outside the kernel and bootloader.
FramesAreMemory ==
    \A f \in frames :
        /\ f >= KernelFrames
        /\ \E i \in Available(memoryMap) :
              /\ f * PageSize >= memoryMap[i].base
              /\ (f + 1) * PageSize <= memoryMap[i].base + memoryMap[i].length

\* The frames below 16 MB that the bitmap has to give.
LowFrames(map) ==
    {f \in 0 .. (BitmapBits(map) - 1) :
        f \notin InitialBitmap(map) /\ f < BuddyFloor \div PageSize}

\* The bitmap also offers the pages of the buddy allocator, which then have two owners.
\* alloc_physical_page comes to them only when callers hold every frame below 16 MB that
\* the memory map offers: no sequence of allocations and releases loses one of those, and
\* the scan passes over none.
LowMemoryFirst ==
    [][\A f \in frames' \ frames :
          f \notin LowFrames(memoryMap) => LowFrames(memoryMap) \subseteq frames]_vars

\* What the code takes from the bootloader.  FramesAreMemory needs available regions
\* that start on a page, since init_physical_bitmap rounds their base down; BlocksTile,
\* regions that share no page; RoomIsFound, regions that do not touch either, since
\* add_buddy_block is called for one region at a time.
PagesAligned ==
    \A map \in MemoryMaps : \A i \in Available(map) : map[i].base % PageSize = 0

RegionsApart ==
    \A map \in MemoryMaps : \A i, j \in BuddyRegions(map) :
        i # j => RegionFrames(map[i]) \cap RegionFrames(map[j]) = {}

RegionsDoNotTouch ==
    \A map \in MemoryMaps : \A i, j \in BuddyRegions(map) :
        \A f \in RegionFrames(map[i]), g \in RegionFrames(map[j]) : i # j => g # f + 1
=============================================================================
