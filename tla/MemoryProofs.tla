---------------------------- MODULE MemoryProofs ----------------------------
(***************************************************************************)
(* What the tables that hand out memory keep, for any size of them: slabs, *)
(* the video memory table, the machines of the hypervisor and page tables, *)
(* one section each.                                                       *)
(***************************************************************************)
EXTENDS Slabs, PageTables, VideoMemory, Hypervisor, FiniteSetTheorems, WellFoundedInduction,
        TLAPS

-----------------------------------------------------------------------------
(***************************************************************************)
(* Bitmaps, counts and owners of the slabs of a cache agree, for any       *)
(* number of objects in a slab and of slabs.                               *)
(***************************************************************************)

\* What the variables hold.  The bitmap of a slab that is not made yet is empty, and
\* its count says nothing.
SlabsTypeOK ==
    /\ slabCount \in 0 .. MaxSlabs
    /\ inUse \in [SlabIds -> SUBSET Objects]
    /\ freeCount \in [SlabIds -> Int]

SlabsInv == SlabsTypeOK /\ SlabsAccountForObjects

-----------------------------------------------------------------------------
\* An object is taken out of the clear ones, or put back, and their number changes by one.
LEMMA OneObject ==
    ASSUME NEW bits \in SUBSET Objects, NEW o \in Objects
    PROVE  /\ Cardinality(Objects \ bits) \in Nat
           /\ o \notin bits => Cardinality(Objects \ (bits \cup {o})) = Cardinality(Objects \ bits) - 1
           /\ o \in bits => Cardinality(Objects \ (bits \ {o})) = Cardinality(Objects \ bits) + 1
<1>1. IsFiniteSet(Objects \ bits)
    <2>1. IsFiniteSet(Objects)
        BY SlabsAssumption, FS_Interval DEF Objects
    <2> QED  BY <2>1, FS_Difference
<1>2. Cardinality(Objects \ bits) \in Nat
    BY <1>1, FS_CardinalityType
<1>3. ASSUME o \notin bits
      PROVE  Cardinality(Objects \ (bits \cup {o})) = Cardinality(Objects \ bits) - 1
    <2>1. Objects \ (bits \cup {o}) = (Objects \ bits) \ {o}
        OBVIOUS
    <2> QED  BY <1>1, <1>3, <2>1, FS_RemoveElement
<1>4. ASSUME o \in bits
      PROVE  Cardinality(Objects \ (bits \ {o})) = Cardinality(Objects \ bits) + 1
    <2>1. Objects \ (bits \ {o}) = (Objects \ bits) \cup {o}
        OBVIOUS
    <2> QED  BY <1>1, <1>4, <2>1, FS_AddElement
<1> QED  BY <1>2, <1>3, <1>4

\* All objects of a new slab are free.
LEMMA AllObjects == Cardinality(Objects \ {}) = ObjectsPerSlab /\ 0 \in Objects
<1>1. Cardinality(0 .. ObjectsPerSlab - 1) = ObjectsPerSlab
    BY SlabsAssumption, FS_Interval
<1>2. Objects \ {} = 0 .. ObjectsPerSlab - 1
    BY DEF Objects
<1> QED  BY <1>1, <1>2, SlabsAssumption DEF Objects

-----------------------------------------------------------------------------
\* Before the first allocation a cache has no slab.
LEMMA SlabsInitHolds == SlabsInit => SlabsInv
    BY SlabsAssumption DEF SlabsInit, SlabsInv, SlabsTypeOK, SlabsAccountForObjects, SlabIds

\* An object that is clear in a slab that is made is taken, and the count goes down with
\* the clear bits.
LEMMA TakeObjectKeeps ==
    ASSUME SlabsInv, NEW i \in SlabIds, NEW o \in Objects, o \notin inUse[i],
           slabCount' \in 0 .. MaxSlabs, i \in 1 .. slabCount',
           \A j \in SlabIds : j # i => (j \in 1 .. slabCount' <=> j \in 1 .. slabCount),
           NEW count, count = Cardinality(Objects \ inUse[i]), Take(i, o, count)
    PROVE  SlabsInv'
<1> USE DEF SlabsInv
<1>1. /\ inUse[i] \in SUBSET Objects
      /\ count - 1 \in Int
      /\ count - 1 = Cardinality(Objects \ (inUse[i] \cup {o}))
    BY OneObject DEF SlabsTypeOK
<1>2. SlabsTypeOK'
    BY <1>1 DEF SlabsTypeOK, Take
<1>3. (held = {p \in SlabIds \X Objects : p[2] \in inUse[p[1]]})'
    BY DEF SlabsTypeOK, SlabsAccountForObjects, Take
<1>4. ASSUME NEW j \in SlabIds
      PROVE  (/\ inUse[j] \subseteq Objects
              /\ j \in 1 .. slabCount => freeCount[j] = Cardinality(Objects \ inUse[j])
              /\ j \notin 1 .. slabCount => inUse[j] = {})'
    <2>1. CASE j = i
        BY <1>1, <2>1 DEF SlabsTypeOK, Take
    <2>2. CASE j # i
        BY <2>2 DEF SlabsTypeOK, SlabsAccountForObjects, Take
    <2> QED  BY <2>1, <2>2
<1> QED  BY <1>2, <1>3, <1>4 DEF SlabsAccountForObjects

\* slab_alloc, from a slab with a free object or from a new one
LEMMA SlabAllocKeeps == SlabsInv /\ SlabAlloc => SlabsInv'
<1> SUFFICES ASSUME SlabsInv, SlabAlloc PROVE SlabsInv'
    OBVIOUS
<1>1. ASSUME NEW i \in SlabIds, NEW o \in Objects, FirstWithRoom(i), LowestClear(inUse[i], o),
             Take(i, o, freeCount[i]), UNCHANGED slabCount
      PROVE  SlabsInv'
    <2>1. i \in 1 .. slabCount /\ o \notin inUse[i]
        BY <1>1 DEF FirstWithRoom, LowestClear
    <2>2. freeCount[i] = Cardinality(Objects \ inUse[i])
        BY <2>1 DEF SlabsInv, SlabsAccountForObjects
    <2> QED  BY <1>1, <2>1, <2>2, TakeObjectKeeps DEF SlabsInv, SlabsTypeOK
<1>2. ASSUME slabCount < MaxSlabs, slabCount' = slabCount + 1,
             Take(slabCount + 1, 0, ObjectsPerSlab)
      PROVE  SlabsInv'
    <2>1. /\ slabCount + 1 \in SlabIds /\ slabCount + 1 \notin 1 .. slabCount
          /\ slabCount' \in 0 .. MaxSlabs /\ slabCount + 1 \in 1 .. slabCount'
        BY <1>2, SlabsAssumption DEF SlabsInv, SlabsTypeOK, SlabIds
    <2>2. inUse[slabCount + 1] = {}
        BY <2>1 DEF SlabsInv, SlabsAccountForObjects
    <2>3. \A j \in SlabIds : j # slabCount + 1 => (j \in 1 .. slabCount' <=> j \in 1 .. slabCount)
        BY <1>2 DEF SlabsInv, SlabsTypeOK, SlabIds
    <2> QED  BY <1>2, <2>1, <2>2, <2>3, AllObjects, TakeObjectKeeps
<1> QED  BY <1>1, <1>2 DEF SlabAlloc

\* slab_free: the object's slab is made, since it is held.
LEMMA SlabFreeKeeps ==
    ASSUME SlabsInv, NEW i \in SlabIds, NEW o \in Objects, SlabFree(i, o)
    PROVE  SlabsInv'
<1> USE DEF SlabsInv, SlabFree, Released
<1>1. o \in inUse[i]
    BY DEF SlabsAccountForObjects
<1>2. i \in 1 .. slabCount /\ freeCount[i] = Cardinality(Objects \ inUse[i])
    BY <1>1 DEF SlabsAccountForObjects
<1>3. /\ inUse[i] \in SUBSET Objects
      /\ freeCount[i] + 1 \in Int
      /\ freeCount[i] + 1 = Cardinality(Objects \ (inUse[i] \ {o}))
    BY <1>1, <1>2, OneObject DEF SlabsTypeOK
<1>4. SlabsTypeOK'
    BY <1>3 DEF SlabsTypeOK
<1>5. (held = {p \in SlabIds \X Objects : p[2] \in inUse[p[1]]})'
    BY DEF SlabsTypeOK, SlabsAccountForObjects
<1>6. ASSUME NEW j \in SlabIds
      PROVE  (/\ inUse[j] \subseteq Objects
              /\ j \in 1 .. slabCount => freeCount[j] = Cardinality(Objects \ inUse[j])
              /\ j \notin 1 .. slabCount => inUse[j] = {})'
    <2>1. CASE j = i
        BY <1>2, <1>3, <2>1 DEF SlabsTypeOK
    <2>2. CASE j # i
        BY <2>2 DEF SlabsTypeOK, SlabsAccountForObjects
    <2> QED  BY <2>1, <2>2
<1> QED  BY <1>4, <1>5, <1>6 DEF SlabsAccountForObjects

\* A set bit belongs to exactly one holder and free_objects counts the clear bits, after
\* any sequence of calls of slab_alloc and slab_free.
THEOREM SlabsAccounted == SlabsSpec => []SlabsAccountForObjects
<1>1. SlabsInit => SlabsInv
    BY SlabsInitHolds
<1>2. SlabsInv /\ [SlabsNext]_slabVars => SlabsInv'
    <2> SUFFICES ASSUME SlabsInv, [SlabsNext]_slabVars PROVE SlabsInv'
        OBVIOUS
    <2>1. CASE SlabsNext
        BY <2>1, SlabAllocKeeps, SlabFreeKeeps DEF SlabsNext
    <2>2. CASE UNCHANGED slabVars
        BY <2>2 DEF slabVars, SlabsInv, SlabsTypeOK, SlabsAccountForObjects
    <2> QED  BY <2>1, <2>2
<1>3. SlabsInv => SlabsAccountForObjects
    BY DEF SlabsInv
<1> QED  BY <1>1, <1>2, <1>3, PTL DEF SlabsSpec

-----------------------------------------------------------------------------
(***************************************************************************)
(* The old addresses of released slots never mislead                       *)
(* gpu_free_video_memory, for any number of slots and blocks.  The reason  *)
(* is the direction of both scans: a slot is filled only when every slot   *)
(* below it is in use, hence holds another address; from then on a slot    *)
(* below changes its address only to that of a block not in use.           *)
(***************************************************************************)

\* No slot, in use or not, that a scan meets before slot j holds j's address.
NotHidden ==
    \A i, j \in Slots : i < j /\ used[j] /\ address[j] # NULL => address[i] # address[j]

BlocksHaveSlots ==
    \A b \in DOMAIN lent : \E j \in Slots : used[j] /\ address[j] = b /\ size[j] = lent[b]

SlotsHaveBlocks ==
    \A i \in Slots : used[i] /\ address[i] # NULL => address[i] \in DOMAIN lent

VideoInv == VideoTypeOK /\ NotHidden /\ BlocksHaveSlots /\ SlotsHaveBlocks

\* An allocation fills a slot that hides no other and that no other hides.
LEMMA VideoAllocKeeps ==
    ASSUME VideoInv, NEW sz \in Sizes, GpuAllocVideoMemory(sz)
    PROVE  VideoInv'
  <1>1. PICK i \in Slots, b \in (Blocks \ DOMAIN lent) \cup {NULL} :
            /\ FirstUnused(i)
            /\ used' = [used EXCEPT ![i] = TRUE]
            /\ size' = [size EXCEPT ![i] = sz]
            /\ address' = [address EXCEPT ![i] = b]
            /\ lent' = IF b = NULL THEN lent
                       ELSE [c \in DOMAIN lent \cup {b} |-> IF c = b THEN sz ELSE lent[c]]
    BY DEF GpuAllocVideoMemory
  <1>2. /\ used \in [Slots -> BOOLEAN] /\ size \in [Slots -> Sizes \cup {0}]
        /\ address \in [Slots -> Blocks \cup {NULL}]
        /\ DOMAIN lent \subseteq Blocks /\ lent \in [DOMAIN lent -> Sizes]
    BY DEF VideoInv, VideoTypeOK
  <1>3. /\ \A j \in Slots : j # i => used'[j] = used[j] /\ size'[j] = size[j]
                                     /\ address'[j] = address[j]
        /\ used'[i] /\ size'[i] = sz /\ address'[i] = b
    BY <1>1, <1>2
  <1>4. ~used[i] /\ \A j \in Slots : j < i => used[j]
    BY <1>1 DEF FirstUnused
  <1>5. /\ DOMAIN lent \subseteq DOMAIN lent' /\ DOMAIN lent' \subseteq DOMAIN lent \cup {b}
        /\ b # NULL => b \in DOMAIN lent' /\ lent'[b] = sz
        /\ \A c \in DOMAIN lent : lent'[c] = lent[c]
        /\ DOMAIN lent' \subseteq Blocks /\ lent' \in [DOMAIN lent' -> Sizes]
    <2>1. CASE b = NULL
      BY <1>1, <1>2, <2>1, VideoAssumption
    <2>2. CASE b # NULL
      BY <1>1, <1>2, <2>2
    <2>3. QED
      BY <2>1, <2>2
  <1>6. VideoTypeOK'
    BY <1>1, <1>2, <1>5 DEF VideoTypeOK
  <1>7. NotHidden'
    <2> SUFFICES ASSUME NEW k \in Slots, NEW j \in Slots, k < j, used'[j], address'[j] # NULL
                 PROVE  address'[k] # address'[j]
      BY DEF NotHidden
    <2>1. CASE j = i
      BY <2>1, <1>3, <1>4, VideoAssumption DEF VideoInv, SlotsHaveBlocks, Slots
    <2>2. CASE j # i /\ k = i
      BY <2>2, <1>3 DEF VideoInv, SlotsHaveBlocks
    <2>3. CASE j # i /\ k # i
      BY <2>3, <1>3 DEF VideoInv, NotHidden
    <2>4. QED
      BY <2>1, <2>2, <2>3
  <1>8. BlocksHaveSlots'
    <2> SUFFICES ASSUME NEW c \in DOMAIN lent'
                 PROVE  \E j \in Slots : used'[j] /\ address'[j] = c /\ size'[j] = lent'[c]
      BY DEF BlocksHaveSlots
    <2>1. CASE c \in DOMAIN lent
      <3>1. PICK j \in Slots : used[j] /\ address[j] = c /\ size[j] = lent[c]
        BY <2>1 DEF VideoInv, BlocksHaveSlots
      <3>2. QED
        BY <3>1, <2>1, <1>3, <1>4, <1>5
    <2>2. CASE c \notin DOMAIN lent
      <3>1. c = b /\ b # NULL
        BY <2>2, <1>5, VideoAssumption
      <3>2. QED
        BY <3>1, <1>3, <1>5
    <2>3. QED
      BY <2>1, <2>2
  <1>9. SlotsHaveBlocks'
    BY <1>3, <1>5 DEF VideoInv, SlotsHaveBlocks
  <1>10. QED
    BY <1>6, <1>7, <1>8, <1>9 DEF VideoInv

\* A release gives back the only slot in use that holds the address.
LEMMA VideoFreeKeeps ==
    ASSUME VideoInv, NEW ptr \in DOMAIN lent, GpuFreeVideoMemory(ptr)
    PROVE  VideoInv'
  <1>1. PICK i \in Slots : Named(i, ptr) /\ used' = [used EXCEPT ![i] = FALSE]
    BY DEF GpuFreeVideoMemory
  <1>2. /\ lent' = [c \in DOMAIN lent \ {ptr} |-> lent[c]]
        /\ size' = size /\ address' = address
    BY DEF GpuFreeVideoMemory
  <1>3. /\ used \in [Slots -> BOOLEAN] /\ size \in [Slots -> Sizes \cup {0}]
        /\ address \in [Slots -> Blocks \cup {NULL}]
        /\ DOMAIN lent \subseteq Blocks /\ lent \in [DOMAIN lent -> Sizes]
    BY DEF VideoInv, VideoTypeOK
  <1>4. ptr # NULL /\ address[i] = ptr /\ \A j \in Slots : j < i => address[j] # ptr
    BY <1>1, <1>3, VideoAssumption DEF Named
  <1>5. \A j \in Slots : used[j] /\ address[j] = ptr => j = i
    BY <1>4 DEF VideoInv, NotHidden, Slots
  <1>6. /\ DOMAIN lent' = DOMAIN lent \ {ptr}
        /\ \A c \in DOMAIN lent' : lent'[c] = lent[c]
        /\ DOMAIN lent' \subseteq Blocks /\ lent' \in [DOMAIN lent' -> Sizes]
    BY <1>2, <1>3
  <1>7. ~used'[i] /\ \A j \in Slots : j # i => used'[j] = used[j]
    BY <1>1, <1>3
  <1>8. VideoTypeOK'
    BY <1>1, <1>2, <1>3, <1>6 DEF VideoTypeOK
  <1>9. NotHidden'
    BY <1>2, <1>7 DEF VideoInv, NotHidden
  <1>10. BlocksHaveSlots'
    BY <1>2, <1>4, <1>6, <1>7 DEF VideoInv, BlocksHaveSlots
  <1>11. SlotsHaveBlocks'
    BY <1>2, <1>5, <1>6, <1>7 DEF VideoInv, SlotsHaveBlocks
  <1>12. QED
    BY <1>8, <1>9, <1>10, <1>11 DEF VideoInv

\* The invariant holds whatever the clients of the driver do.
LEMMA VideoInvariant == VideoSpec => []VideoInv
  <1>1. VideoInit => VideoInv
    BY DEF VideoInit, VideoInv, VideoTypeOK, NotHidden, BlocksHaveSlots, SlotsHaveBlocks
  <1>2. VideoInv /\ [VideoNext]_videoVars => VideoInv'
    <2>1. ASSUME VideoInv, UNCHANGED videoVars PROVE VideoInv'
      BY <2>1 DEF videoVars, VideoInv, VideoTypeOK, NotHidden, BlocksHaveSlots, SlotsHaveBlocks
    <2>2. QED
      BY <2>1, VideoAllocKeeps, VideoFreeKeeps DEF VideoNext
  <1>3. QED
    BY <1>1, <1>2, PTL DEF VideoSpec

\* gpu_free_video_memory always releases the slot the block was allocated in, with
\* the size of the block, although it may meet released slots on its way.
THEOREM FreeIsRight == VideoSpec => []FreeFindsItsSlot
  <1>1. VideoInv => FreeFindsItsSlot
    <2> SUFFICES ASSUME VideoInv, NEW b \in DOMAIN lent
                 PROVE  \E i \in Slots : Named(i, b) /\ used[i] /\ size[i] = lent[b]
      BY DEF FreeFindsItsSlot
    <2>1. PICK j \in Slots : used[j] /\ address[j] = b /\ size[j] = lent[b]
      BY DEF VideoInv, BlocksHaveSlots
    <2>2. b # NULL
      BY VideoAssumption DEF VideoInv, VideoTypeOK
    <2>3. Named(j, b)
      BY <2>1, <2>2 DEF VideoInv, NotHidden, Named
    <2>4. QED
      BY <2>1, <2>3
  <1>2. QED
    BY <1>1, VideoInvariant, PTL

\* Slots in use and blocks in use correspond one to one.
THEOREM SlotsMatch == VideoSpec => []SlotsAreBlocks
  <1>1. VideoInv => SlotsAreBlocks
    BY DEF VideoInv, SlotsAreBlocks, SlotsHaveBlocks, NotHidden, Slots
  <1>2. QED
    BY <1>1, VideoInvariant, PTL

-----------------------------------------------------------------------------
(***************************************************************************)
(* Machines that can be started are whole, for any number of slots, VCPUs  *)
(* and blocks of memory.                                                   *)
(***************************************************************************)

\* A machine, or what is in a slot that no machine has.
Machine == [state : {"STOPPED", "RUNNING"}, vcpuCount : VcpuCounts \cup {0},
            memory : GuestBlocks \cup {NoBlock}, ept : EptRoots \cup {NoBlock},
            vcpus : [VcpuIds -> {"none", "STOPPED", "RUNNING"}]]

\* What the variables hold.
HypervisorTypeOK ==
    /\ vmCount \in 0 .. MaxVms
    /\ vms \in [VmSlots -> Machine]
    /\ freeBlocks \subseteq GuestBlocks
    /\ freeRoots \subseteq EptRoots

\* What create_vm has written when the VCPUs below k are set up
Filled(n, b, r, k) == WithVcpus([Configured(n) EXCEPT !.memory = b, !.ept = r], k)

\* What a configured machine has when the VCPUs below k are set up
IsFilled(vm, n, b, r, k) ==
    /\ vm.memory = b /\ vm.ept = r /\ vm.state = "STOPPED" /\ vm.vcpuCount = n
    /\ \A i \in VcpuIds : i < k => vm.vcpus[i] = "STOPPED"

\* The memory and the tables of a machine are not to be had by another.  (The slot
\* after the last machine has what failed attempts left in it, and a new attempt
\* replaces that.)
MachinesOwn ==
    \A s \in 0 .. vmCount - 1 :
        vms[s].memory \notin freeBlocks /\ vms[s].ept \notin freeRoots

HypervisorInv == HypervisorTypeOK /\ MachinesOwn /\ MachinesAreWhole

-----------------------------------------------------------------------------
\* There is a VCPU for every number below the VCPU count of a configuration.
LEMMA VcpusOfConfiguration ==
    /\ VcpuCounts \subseteq Nat
    /\ \A n \in VcpuCounts : 0 .. n - 1 \subseteq VcpuIds
    /\ 0 .. 0 - 1 \subseteq VcpuIds
<1> DEFINE Greatest(n) == n \in VcpuCounts /\ \A m \in VcpuCounts : n >= m
           top == CHOOSE n \in VcpuCounts : \A m \in VcpuCounts : n >= m
<1>1. Greatest(top)
    BY HypervisorAssumption
<1>2. VcpuIds = 0 .. top - 1
    BY DEF VcpuIds
<1> HIDE DEF top
<1> QED  BY <1>1, <1>2, HypervisorAssumption

\* The slot after the last machine is a slot, and no machine is in it.
LEMMA NextSlot ==
    ASSUME HypervisorTypeOK, vmCount < MaxVms
    PROVE  /\ vmCount \in VmSlots /\ vmCount + 1 \in 0 .. MaxVms
           /\ 0 .. vmCount + 1 - 1 = (0 .. vmCount - 1) \cup {vmCount}
           /\ \A s \in 0 .. vmCount - 1 : s \in VmSlots /\ s # vmCount
    BY HypervisorAssumption DEF HypervisorTypeOK, VmSlots

\* What an attempt writes in its slot.
LEMMA Attempted ==
    ASSUME HypervisorTypeOK, vmCount \in VmSlots, NEW n \in VcpuCounts,
           NEW b \in GuestBlocks \cup {NoBlock}, NEW r \in EptRoots \cup {NoBlock}, NEW k \in Nat
    PROVE  /\ [Configured(n) EXCEPT !.memory = b] \in Machine
           /\ [Configured(n) EXCEPT !.memory = b, !.ept = r] \in Machine
           /\ Filled(n, b, r, k) \in Machine
           /\ IsFilled(Filled(n, b, r, k), n, b, r, k)
<1>1. vms[vmCount] \in Machine
    BY DEF HypervisorTypeOK
<1>2. Configured(n) \in Machine /\ Configured(n).state = "STOPPED" /\ Configured(n).vcpuCount = n
    BY <1>1 DEF Machine, Configured
<1> DEFINE vm == [Configured(n) EXCEPT !.memory = b, !.ept = r]
<1>3. /\ [Configured(n) EXCEPT !.memory = b] \in Machine
      /\ vm \in Machine
      /\ vm.memory = b /\ vm.ept = r /\ vm.state = "STOPPED" /\ vm.vcpuCount = n
    BY <1>2 DEF Machine
<1> HIDE DEF vm
<1>4. /\ WithVcpus(vm, k) \in Machine
      /\ WithVcpus(vm, k).memory = b /\ WithVcpus(vm, k).ept = r
      /\ WithVcpus(vm, k).state = "STOPPED" /\ WithVcpus(vm, k).vcpuCount = n
      /\ \A i \in VcpuIds : i < k => WithVcpus(vm, k).vcpus[i] = "STOPPED"
    BY <1>3 DEF Machine, WithVcpus
<1> QED  BY <1>3, <1>4 DEF vm, Filled, IsFilled

\* Attempts that fail change nothing but the slot after the last machine, and take
\* blocks away.
LEMMA FailureKeeps ==
    ASSUME HypervisorInv, NEW n \in VcpuCounts, vmCount < MaxVms,
           MemoryFails(n) \/ TablesFail(n) \/ VcpusFail(n)
    PROVE  HypervisorInv'
<1> USE DEF HypervisorInv
<1>1. /\ vmCount \in VmSlots
      /\ \A s \in 0 .. vmCount - 1 : s \in VmSlots /\ s # vmCount
    BY NextSlot
<1>2. PICK vm \in Machine : vms' = [vms EXCEPT ![vmCount] = vm]
    <2>1. CASE MemoryFails(n)
        BY <1>1, <2>1, Attempted DEF MemoryFails
    <2>2. CASE TablesFail(n)
        <3>1. PICK b \in freeBlocks :
                  vms' = [vms EXCEPT ![vmCount] = [Configured(n) EXCEPT !.memory = b, !.ept = NoBlock]]
            BY <2>2 DEF TablesFail
        <3>2. b \in GuestBlocks \cup {NoBlock}
            BY DEF HypervisorTypeOK
        <3> QED  BY <1>1, <3>1, <3>2, Attempted
    <2>3. CASE VcpusFail(n)
        <3>1. PICK b \in freeBlocks, r \in freeRoots, i \in 1 .. n :
                  vms' = [vms EXCEPT ![vmCount] = Filled(n, b, r, i)]
            BY <2>3 DEF VcpusFail, Filled
        <3>2. /\ b \in GuestBlocks \cup {NoBlock} /\ r \in EptRoots \cup {NoBlock}
              /\ i \in Nat
            BY VcpusOfConfiguration DEF HypervisorTypeOK
        <3> QED  BY <1>1, <3>1, <3>2, Attempted
    <2> QED  BY <2>1, <2>2, <2>3
<1>3. vmCount' = vmCount /\ freeBlocks' \subseteq freeBlocks /\ freeRoots' \subseteq freeRoots
    BY DEF MemoryFails, TablesFail, VcpusFail
<1>4. \A s \in 0 .. vmCount - 1 : vms'[s] = vms[s]
    BY <1>1, <1>2 DEF HypervisorTypeOK
<1>5. HypervisorTypeOK'
    BY <1>2, <1>3 DEF HypervisorTypeOK
<1>6. MachinesOwn' /\ MachinesAreWhole'
    BY <1>3, <1>4 DEF MachinesOwn, MachinesAreWhole
<1> QED  BY <1>5, <1>6

\* The new machine is whole, and its blocks were free, so that no other has them.
LEMMA SuccessKeeps ==
    ASSUME HypervisorInv, NEW n \in VcpuCounts, vmCount < MaxVms, CreateSucceeds(n)
    PROVE  HypervisorInv'
<1> USE DEF HypervisorInv
<1>1. PICK b \in freeBlocks, r \in freeRoots :
          /\ vms' = [vms EXCEPT ![vmCount] = Filled(n, b, r, n)]
          /\ freeBlocks' = freeBlocks \ {b}
          /\ freeRoots' = freeRoots \ {r}
          /\ vmCount' = vmCount + 1
    BY DEF CreateSucceeds, Filled
<1>2. /\ vmCount \in VmSlots /\ vmCount' \in 0 .. MaxVms
      /\ 0 .. vmCount' - 1 = (0 .. vmCount - 1) \cup {vmCount}
      /\ \A s \in 0 .. vmCount - 1 : s \in VmSlots /\ s # vmCount
    BY <1>1, NextSlot
<1>3. PICK vm \in Machine : vms' = [vms EXCEPT ![vmCount] = vm] /\ IsFilled(vm, n, b, r, n)
    <2>1. b \in GuestBlocks \cup {NoBlock} /\ r \in EptRoots \cup {NoBlock} /\ n \in Nat
        BY VcpusOfConfiguration DEF HypervisorTypeOK
    <2>2. Filled(n, b, r, n) \in Machine /\ IsFilled(Filled(n, b, r, n), n, b, r, n)
        BY <1>2, <2>1, Attempted
    <2> QED  BY <1>1, <2>2
<1>4. /\ HypervisorTypeOK'
      /\ vms'[vmCount] = vm
      /\ \A s \in 0 .. vmCount - 1 : vms'[s] = vms[s]
    BY <1>1, <1>2, <1>3 DEF HypervisorTypeOK
<1> USE DEF IsFilled
<1>5. b # NoBlock /\ r # NoBlock
    BY HypervisorAssumption DEF HypervisorTypeOK
<1>6. MachinesOwn'
    BY <1>1, <1>2, <1>3, <1>4 DEF MachinesOwn
<1>7. MachinesAreWhole'
    <2> SUFFICES ASSUME NEW s \in 0 .. vmCount' - 1
                 PROVE  /\ vms'[s].memory # NoBlock /\ vms'[s].ept # NoBlock
                        /\ \A t \in 0 .. vmCount' - 1 :
                              t # s => vms'[t].memory # vms'[s].memory /\ vms'[t].ept # vms'[s].ept
                        /\ \A i \in 0 .. vms'[s].vcpuCount - 1 : vms'[s].vcpus[i] = vms'[s].state
        BY DEF MachinesAreWhole
    <2>1. \A t \in 0 .. vmCount - 1 : vms[t].memory # b /\ vms[t].ept # r
        BY DEF MachinesOwn
    <2>2. CASE s = vmCount
        <3>1. \A t \in 0 .. vmCount' - 1 :
                  t # s => vms'[t].memory # vms'[s].memory /\ vms'[t].ept # vms'[s].ept
            BY <1>2, <1>3, <1>4, <2>1, <2>2
        <3>2. \A i \in 0 .. n - 1 : i \in VcpuIds /\ i < n
            BY VcpusOfConfiguration
        <3> QED  BY <1>3, <1>4, <1>5, <2>2, <3>1, <3>2
    <2>3. CASE s \in 0 .. vmCount - 1
        <3>1. \A t \in 0 .. vmCount' - 1 :
                  t # s => vms'[t].memory # vms'[s].memory /\ vms'[t].ept # vms'[s].ept
            <4> SUFFICES ASSUME NEW t \in 0 .. vmCount' - 1, t # s
                         PROVE  vms'[t].memory # vms'[s].memory /\ vms'[t].ept # vms'[s].ept
                OBVIOUS
            <4>1. CASE t = vmCount
                BY <1>3, <1>4, <2>1, <2>3, <4>1
            <4>2. CASE t \in 0 .. vmCount - 1
                BY <1>4, <2>3, <4>2 DEF MachinesAreWhole
            <4> QED  BY <1>2, <4>1, <4>2
        <3> QED  BY <1>4, <2>3, <3>1 DEF MachinesAreWhole
    <2> QED  BY <1>2, <2>2, <2>3
<1> QED  BY <1>4, <1>6, <1>7

\* All VCPUs of the machine, which its count says are set up, start with it.
LEMMA StartVmKeeps ==
    ASSUME HypervisorInv, NEW s \in VmSlots, StartVm(s)
    PROVE  HypervisorInv'
<1> USE DEF HypervisorInv, StartVm
<1> DEFINE started == [i \in VcpuIds |-> IF i < vms[s].vcpuCount THEN "RUNNING" ELSE vms[s].vcpus[i]]
           vm == [vms[s] EXCEPT !.vcpus = started, !.state = "RUNNING"]
<1>1. /\ vms[s] \in Machine
      /\ vmCount' = vmCount /\ freeBlocks' = freeBlocks /\ freeRoots' = freeRoots
      /\ vms' = [vms EXCEPT ![s] = vm]
    BY DEF HypervisorTypeOK
<1>2. started \in [VcpuIds -> {"none", "STOPPED", "RUNNING"}]
    BY <1>1 DEF Machine
<1>3. /\ vm \in Machine /\ vm.memory = vms[s].memory /\ vm.ept = vms[s].ept
      /\ vm.vcpuCount = vms[s].vcpuCount /\ vm.state = "RUNNING"
      /\ \A i \in VcpuIds : i < vms[s].vcpuCount => vm.vcpus[i] = "RUNNING"
    <2>1. \A i \in VcpuIds : i < vms[s].vcpuCount => started[i] = "RUNNING"
        OBVIOUS
    <2> HIDE DEF started
    <2> QED  BY <1>1, <1>2, <2>1 DEF Machine
<1> HIDE DEF vm
<1>4. /\ HypervisorTypeOK' /\ vms'[s] = vm
      /\ \A t \in VmSlots : t # s => vms'[t] = vms[t]
      /\ \A t \in VmSlots : /\ vms'[t].memory = vms[t].memory /\ vms'[t].ept = vms[t].ept
                            /\ vms'[t].vcpuCount = vms[t].vcpuCount
    BY <1>1, <1>3 DEF HypervisorTypeOK
<1>5. \A t \in 0 .. vmCount - 1 : t \in VmSlots
    BY HypervisorAssumption DEF HypervisorTypeOK, VmSlots
<1>6. MachinesOwn'
    BY <1>1, <1>4, <1>5 DEF MachinesOwn
<1>7. ASSUME NEW t \in 0 .. vmCount - 1, NEW i \in 0 .. vms[t].vcpuCount - 1
      PROVE  vms'[t].vcpus[i] = vms'[t].state
    <2>1. CASE t = s
        <3>1. vms[s].vcpuCount \in VcpuCounts \cup {0}
            BY <1>1 DEF Machine
        <3>2. i \in VcpuIds /\ i < vms[s].vcpuCount
            BY <2>1, <3>1, VcpusOfConfiguration
        <3> QED  BY <1>3, <1>4, <2>1, <3>2
    <2>2. CASE t # s
        <3>1. vms'[t] = vms[t]
            BY <1>4, <1>5, <1>7, <2>2
        <3>2. vms[t].vcpus[i] = vms[t].state
            BY <1>7 DEF MachinesAreWhole
        <3> QED  BY <3>1, <3>2
    <2> QED  BY <2>1, <2>2
<1>8. MachinesAreWhole'
    <2>1. \A t \in 0 .. vmCount - 1 : \A i \in 0 .. vms'[t].vcpuCount - 1 :
              vms'[t].vcpus[i] = vms'[t].state
        BY <1>4, <1>5, <1>7
    <2>2. \A t \in 0 .. vmCount - 1 : vms'[t].memory = vms[t].memory /\ vms'[t].ept = vms[t].ept
        BY <1>4, <1>5
    <2> HIDE DEF StartVm
    <2> QED  BY <1>1, <2>1, <2>2 DEF MachinesAreWhole
<1> QED  BY <1>4, <1>6, <1>8

\* A machine that start_vm accepts has memory and tables of its own and all its VCPUs,
\* whatever failed before create_vm succeeded.
THEOREM MachinesWhole == HypervisorSpec => []MachinesAreWhole
<1>1. HypervisorInit => HypervisorInv
    BY HypervisorAssumption DEF HypervisorInit, HypervisorInv, HypervisorTypeOK, Machine,
       MachinesOwn, MachinesAreWhole
<1>2. HypervisorInv /\ [HypervisorNext]_hypervisorVars => HypervisorInv'
    <2> SUFFICES ASSUME HypervisorInv, [HypervisorNext]_hypervisorVars PROVE HypervisorInv'
        OBVIOUS
    <2>1. ASSUME NEW n \in VcpuCounts, CreateVm(n) PROVE HypervisorInv'
        BY <2>1, FailureKeeps, SuccessKeeps DEF CreateVm
    <2>2. ASSUME NEW s \in VmSlots, StartVm(s) PROVE HypervisorInv'
        BY <2>2, StartVmKeeps
    <2>3. CASE UNCHANGED hypervisorVars
        BY <2>3 DEF hypervisorVars, HypervisorInv, HypervisorTypeOK, MachinesOwn, MachinesAreWhole
    <2> QED  BY <2>1, <2>2, <2>3 DEF HypervisorNext
<1>3. HypervisorInv => MachinesAreWhole
    BY DEF HypervisorInv
<1> QED  BY <1>1, <1>2, <1>3, PTL DEF HypervisorSpec

-----------------------------------------------------------------------------
(***************************************************************************)
(* Page tables translate what was asked for, for any number of levels,     *)
(* entries, frames and address spaces.                                     *)
(***************************************************************************)

\* Every non-empty set of natural numbers has a least element.
LEMMA LeastNumber ==
    ASSUME NEW S, S \subseteq Nat, S # {}
    PROVE  \E m \in S : \A k \in S : m <= k
<1> DEFINE T == {U \in SUBSET Nat : \E t \in S : U = 0 .. t}
           R == StrictSubsetOrdering(Nat)
<1>1. IsWellFoundedOn(R, FiniteSubsetsOf(Nat))
    BY FS_StrictSubsetOrderingWellFounded
<1>2. T \subseteq FiniteSubsetsOf(Nat)
    BY FS_Interval DEF FiniteSubsetsOf
<1>3. T # {}
    <2>1. PICK t \in S : TRUE
        OBVIOUS
    <2>2. (0 .. t) \in T
        BY <2>1
    <2> QED  BY <2>2
<1> HIDE DEF T
<1>4. PICK U \in T : \A V \in T : ~ (<<V, U>> \in R)
    BY <1>1, <1>2, <1>3, WFMin
<1>5. PICK m \in S : U = 0 .. m
    BY DEF T
<1>6. ASSUME NEW k \in S PROVE m <= k
    <2>1. (0 .. k) \in T
        BY DEF T
    <2>2. ~ (<<0 .. k, 0 .. m>> \in R)
        BY <1>4, <1>5, <2>1
    <2>3. CASE k < m
        <3>1. (0 .. k) \subseteq (0 .. m) /\ m \notin 0 .. k /\ m \in 0 .. m
            BY <2>3
        <3>2. <<0 .. k, 0 .. m>> \in R
            BY <3>1 DEF StrictSubsetOrdering
        <3> QED  BY <2>2, <3>2
    <2> QED  BY <2>3
<1> QED  BY <1>6

\* What an entry may hold.
Entries == Targets \cup TableFrames \cup Leftovers \cup {Absent}

PagesTyped(tb, tk, rts, ask) ==
    /\ tb \in [TableFrames -> [Indices -> Entries]]
    /\ tk \subseteq TableFrames /\ rts \subseteq tk
    /\ ask \in [rts -> [Addresses -> Targets \cup {Absent}]]

\* What way[r][va][d] is: the table at depth d on the way from root r to address va.
StepwiseTo(tb, way, r, va) ==
    /\ way[r][va][0] = r
    /\ \A d \in Depths : d + 1 \in Depths =>
          way[r][va][d + 1] = IF way[r][va][d] = Absent THEN Absent
                              ELSE tb[way[r][va][d]][va[d + 1]]

\* The last table of the way holds what was asked for.
EndsAsAsked(tb, ask, way, r, va) ==
    LET last == way[r][va][TableLevels - 1]
    IN  ask[r][va] = IF last = Absent THEN Absent ELSE tb[last][va[TableLevels]]

\* Two ways meet only where they have been the same so far.
WaysApart(rts, way) ==
    \A r, s \in rts, va, vb \in Addresses, d, e \in Depths :
        way[r][va][d] = way[s][vb][e] /\ way[r][va][d] # Absent =>
            r = s /\ d = e /\ \A j \in 1 .. d : va[j] = vb[j]

Mapped(tb, tk, rts, ask, way) ==
    /\ PagesTyped(tb, tk, rts, ask)
    /\ \A r \in rts, va \in Addresses : 
          /\ \A d \in Depths : way[r][va][d] \in tk \cup {Absent}
          /\ StepwiseTo(tb, way, r, va)
          /\ EndsAsAsked(tb, ask, way, r, va)
    /\ WaysApart(rts, way)

PagesInv ==
    /\ roots \in Seq(TableFrames)
    /\ \E way : Mapped(tables, taken, ToSet(roots), asked, way)

\* alloc_physical_page gives a frame nobody has.
LEMMA FrameIsFree ==
    ASSUME NEW gone, TableFrames \ gone # {}
    PROVE  AllocatedFrame(gone) \in TableFrames \ gone
<1>1. \E m \in TableFrames \ gone : \A k \in TableFrames \ gone : m <= k
    BY PageTablesAssumption, LeastNumber
<1> QED  BY <1>1 DEF AllocatedFrame, Min

\* The depths are numbers from 0 on.
LEMMA DepthsAreNumbers ==
    /\ TableLevels \in Nat \ {0} /\ Depths \subseteq Nat
    /\ 0 \in Depths /\ TableLevels - 1 \in Depths
    /\ Absent \notin TableFrames /\ Absent \notin Targets
<1>1. TableLevels \in Nat \ {0} /\ Absent \notin TableFrames /\ Absent \notin Targets
    BY PageTablesAssumption
<1>2. \A n \in Nat \ {0} : n - 1 \in 0 .. n - 1 /\ 0 \in 0 .. n - 1 /\ 0 .. n - 1 \subseteq Nat
    OBVIOUS
<1> QED  BY <1>1, <1>2 DEF Depths

\* The way to va has come to depth d, there is no table behind it yet, and frame is free.
StopsAt(tb, tk, rts, ask, way, r, va, d, frame) ==
    /\ Mapped(tb, tk, rts, ask, way)
    /\ r \in rts /\ va \in Addresses /\ d \in Depths /\ d + 1 \in Depths
    /\ way[r][va][d] # Absent /\ tb[way[r][va][d]][va[d + 1]] = Absent
    /\ frame \in TableFrames \ tk

TablePut(tb, f, i, frame) == [tb EXCEPT ![f][i] = frame, ![frame] = Cleared]

\* ... and when frame has been put there, it goes on to frame.
GoesOn(tb, tk, rts, ask, way, r, va, d, frame) ==
    \E new : /\ Mapped(TablePut(tb, way[r][va][d], va[d + 1], frame),
                       tk \cup {frame}, rts, ask, new)
             /\ new[r][va][d + 1] = frame

\* A new table lengthens the ways that go through the entry it is put in.
LEMMA NewTable ==
    ASSUME NEW tb, NEW tk, NEW rts, NEW ask, NEW way, NEW r, NEW va, NEW d, NEW frame,
           StopsAt(tb, tk, rts, ask, way, r, va, d, frame)
    PROVE  GoesOn(tb, tk, rts, ask, way, r, va, d, frame)
<1> SUFFICES ASSUME Mapped(tb, tk, rts, ask, way), r \in rts, va \in Addresses,
                    d \in Depths, d + 1 \in Depths,
                    way[r][va][d] # Absent, tb[way[r][va][d]][va[d + 1]] = Absent,
                    frame \in TableFrames \ tk
             PROVE  \E new : /\ Mapped(TablePut(tb, way[r][va][d], va[d + 1], frame),
                                       tk \cup {frame}, rts, ask, new)
                             /\ new[r][va][d + 1] = frame
    BY DEF StopsAt, GoesOn
<1> DEFINE f == way[r][va][d]
           i == va[d + 1]
           tb2 == TablePut(tb, f, i, frame)
           Through(s, vb, e) == e = d + 1 /\ way[s][vb][d] = f /\ vb[d + 1] = i
           new == [s \in rts |-> [vb \in Addresses |-> [e \in Depths |->
                     IF Through(s, vb, e) THEN frame ELSE way[s][vb][e]]]]
<1>1. PagesTyped(tb, tk, rts, ask) /\ WaysApart(rts, way)
    BY DEF Mapped
<1>2. /\ f \in tk /\ f \in TableFrames /\ f # frame /\ f # Absent /\ frame # Absent
      /\ i \in Indices
    <2>1. f \in tk /\ f # Absent
        BY DEF Mapped
    <2>2. f \in TableFrames /\ f # frame /\ frame # Absent
        BY <1>1, <2>1, DepthsAreNumbers DEF PagesTyped
    <2>3. d + 1 \in 1 .. TableLevels
        BY DepthsAreNumbers DEF Depths
    <2> QED  BY <2>1, <2>2, <2>3 DEF Addresses
<1>3. /\ tb2 \in [TableFrames -> [Indices -> Entries]]
      /\ tb2[f][i] = frame
      /\ \A j \in Indices : j # i => tb2[f][j] = tb[f][j]
      /\ \A j \in Indices : tb2[frame][j] = Absent
      /\ \A g \in TableFrames : g # f /\ g # frame => tb2[g] = tb[g]
    BY <1>1, <1>2 DEF PagesTyped, Entries, Cleared, TablePut
<1>4. \A s \in rts, vb \in Addresses, e \in Depths :
          new[s][vb][e] = IF Through(s, vb, e) THEN frame ELSE way[s][vb][e]
    OBVIOUS
<1>5. \A s \in rts, vb \in Addresses, e \in Depths :
          Through(s, vb, e) => s = r /\ way[s][vb][e] = Absent /\ \A j \in 1 .. d + 1 : vb[j] = va[j]
    <2> SUFFICES ASSUME NEW s \in rts, NEW vb \in Addresses, NEW e \in Depths, Through(s, vb, e)
                 PROVE  s = r /\ way[s][vb][e] = Absent /\ \A j \in 1 .. d + 1 : vb[j] = va[j]
        OBVIOUS
    <2>1. s = r /\ \A j \in 1 .. d : vb[j] = va[j]
        BY <1>1, <1>2 DEF WaysApart
    <2>2. way[s][vb][d + 1] = tb[f][i]
        BY <1>2 DEF Mapped, StepwiseTo
    <2> QED  BY <2>1, <2>2, DepthsAreNumbers
<1>6. \A s \in rts, vb \in Addresses, e \in Depths :
          /\ way[s][vb][e] \in tk \cup {Absent} /\ way[s][vb][e] # frame
          /\ way[s][vb][e] = f => s = r /\ e = d
    BY <1>1, <1>2 DEF Mapped, WaysApart
<1> HIDE DEF new, tb2, Through
<1>7. ASSUME NEW s \in rts, NEW vb \in Addresses
      PROVE  /\ \A e \in Depths : new[s][vb][e] \in tk \cup {frame} \cup {Absent}
             /\ StepwiseTo(tb2, new, s, vb)
             /\ EndsAsAsked(tb2, ask, new, s, vb)
    <2>1. \A e \in Depths : new[s][vb][e] \in tk \cup {frame} \cup {Absent}
        BY <1>4, <1>6
    <2>2. new[s][vb][0] = s
        <3>1. way[s][vb][0] = s /\ ~Through(s, vb, 0)
            BY DepthsAreNumbers DEF Mapped, StepwiseTo, Through
        <3> QED  BY <1>4, <3>1, DepthsAreNumbers
    <2>3. ASSUME NEW e \in Depths, e + 1 \in Depths
          PROVE  new[s][vb][e + 1] = IF new[s][vb][e] = Absent THEN Absent
                                     ELSE tb2[new[s][vb][e]][vb[e + 1]]
        <3>1. way[s][vb][e + 1] = IF way[s][vb][e] = Absent THEN Absent
                                  ELSE tb[way[s][vb][e]][vb[e + 1]]
            BY <2>3 DEF Mapped, StepwiseTo
        <3>2. vb[e + 1] \in Indices
            BY <2>3, DepthsAreNumbers DEF Addresses, Depths
        <3>3. CASE Through(s, vb, e)
            <4>1. new[s][vb][e] = frame /\ way[s][vb][e] = Absent
                BY <1>4, <1>5, <3>3
            <4>2. new[s][vb][e + 1] = way[s][vb][e + 1]
                BY <1>4, <2>3, <3>3, DepthsAreNumbers DEF Through
            <4> QED  BY <1>2, <1>3, <3>1, <3>2, <4>1, <4>2
        <3>4. CASE ~Through(s, vb, e) /\ way[s][vb][e] = f
            <4>1. new[s][vb][e] = f /\ e = d
                BY <1>4, <1>6, <3>4
            <4>2. CASE vb[e + 1] = i
                <5>1. new[s][vb][e + 1] = frame
                    BY <1>4, <2>3, <3>4, <4>1, <4>2 DEF Through
                <5> QED  BY <1>2, <1>3, <4>1, <4>2, <5>1
            <4>3. CASE vb[e + 1] # i
                <5>1. new[s][vb][e + 1] = way[s][vb][e + 1]
                    BY <1>4, <2>3, <4>1, <4>3 DEF Through
                <5> QED  BY <1>2, <1>3, <3>1, <3>2, <3>4, <4>1, <4>3, <5>1
            <4> QED  BY <4>2, <4>3
        <3>5. CASE ~Through(s, vb, e) /\ way[s][vb][e] # f
            <4>1. new[s][vb][e] = way[s][vb][e] /\ way[s][vb][e] # frame
                BY <1>4, <1>6, <3>5
            <4>2. new[s][vb][e + 1] = way[s][vb][e + 1]
                BY <1>4, <2>3, <3>5, DepthsAreNumbers DEF Through
            <4>3. way[s][vb][e] # Absent => way[s][vb][e] \in TableFrames
                BY <1>1, <1>6 DEF PagesTyped
            <4> QED  BY <1>3, <3>1, <3>5, <4>1, <4>2, <4>3
        <3> QED  BY <3>3, <3>4, <3>5
    <2>4. EndsAsAsked(tb2, ask, new, s, vb)
        <3> DEFINE e == TableLevels - 1
        <3>1. ask[s][vb] = IF way[s][vb][e] = Absent THEN Absent
                           ELSE tb[way[s][vb][e]][vb[TableLevels]]
            BY DEF Mapped, EndsAsAsked
        <3>2. e \in Depths /\ e # d /\ vb[TableLevels] \in Indices
            BY DepthsAreNumbers DEF Addresses, Depths
        <3>3. CASE Through(s, vb, e)
            <4>1. new[s][vb][e] = frame /\ way[s][vb][e] = Absent
                BY <1>4, <1>5, <3>2, <3>3
            <4> QED  BY <1>2, <1>3, <3>1, <3>2, <4>1 DEF EndsAsAsked
        <3>4. CASE ~Through(s, vb, e)
            <4>1. new[s][vb][e] = way[s][vb][e] /\ way[s][vb][e] # frame /\ way[s][vb][e] # f
                BY <1>4, <1>6, <3>2, <3>4
            <4>2. way[s][vb][e] # Absent => way[s][vb][e] \in TableFrames
                BY <1>1, <1>6, <3>2 DEF PagesTyped
            <4> QED  BY <1>3, <3>1, <4>1, <4>2 DEF EndsAsAsked
        <3> QED  BY <3>3, <3>4
    <2> QED  BY <2>1, <2>2, <2>3, <2>4 DEF StepwiseTo
<1>8. WaysApart(rts, new)
    <2> SUFFICES ASSUME NEW s \in rts, NEW t \in rts, NEW vb \in Addresses, NEW vc \in Addresses,
                        NEW e \in Depths, NEW g \in Depths,
                        new[s][vb][e] = new[t][vc][g], new[s][vb][e] # Absent
                 PROVE  s = t /\ e = g /\ \A j \in 1 .. e : vb[j] = vc[j]
        BY DEF WaysApart
    <2>1. CASE Through(s, vb, e)
        <3>1. new[t][vc][g] = frame
            BY <1>4, <2>1
        <3>2. Through(t, vc, g)
            BY <1>4, <1>6, <3>1
        <3> QED  BY <1>5, <2>1, <3>2 DEF Through
    <2>2. CASE ~Through(s, vb, e)
        <3>1. new[s][vb][e] = way[s][vb][e] /\ new[s][vb][e] # frame
            BY <1>4, <1>6, <2>2
        <3>2. ~Through(t, vc, g)
            BY <1>4, <3>1
        <3>3. new[t][vc][g] = way[t][vc][g]
            BY <1>4, <3>2
        <3>4. way[s][vb][e] = way[t][vc][g] /\ way[s][vb][e] # Absent
            BY <3>1, <3>3
        <3> QED  BY <1>1, <3>4 DEF WaysApart
    <2> QED  BY <2>1, <2>2
<1>9. PagesTyped(tb2, tk \cup {frame}, rts, ask)
    BY <1>1, <1>3 DEF PagesTyped
<1>10. Mapped(tb2, tk \cup {frame}, rts, ask, new)
    BY <1>7, <1>8, <1>9 DEF Mapped
<1>11. new[r][va][d + 1] = frame
    BY <1>4 DEF Through
<1> QED  BY <1>10, <1>11 DEF tb2

\* What walk[d] of WalkTo is.
IsWalk(w, root, va, n) ==
    w = [d \in 0 .. n |-> IF d = 0 THEN [tables |-> tables, taken |-> taken, at |-> root]
                          ELSE GetOrCreate(w[d - 1], va[d])]

\* There is such a walk, to any depth.
LEMMA WalkExists ==
    ASSUME NEW root, NEW va, NEW n \in Nat
    PROVE  \E w : IsWalk(w, root, va, n)
<1> DEFINE S == {m \in Nat : ~ \E w : IsWalk(w, root, va, m)}
<1>1. CASE S = {}
    BY <1>1
<1>2. CASE S # {}
    <2>1. PICK m \in S : \A k \in S : m <= k
        BY <1>2, LeastNumber
    <2>2. m \in Nat /\ ~ \E w : IsWalk(w, root, va, m)
        BY <2>1
    <2>3. CASE m = 0
        <3> DEFINE w == [d \in 0 .. 0 |-> [tables |-> tables, taken |-> taken, at |-> root]]
        <3>1. IsWalk(w, root, va, 0)
            BY DEF IsWalk
        <3> QED  BY <2>2, <2>3, <3>1
    <2>4. CASE m # 0
        <3>1. m - 1 \in Nat /\ ~ (m <= m - 1)
            BY <2>2, <2>4
        <3>2. PICK w : IsWalk(w, root, va, m - 1)
            BY <2>1, <3>1
        <3> DEFINE u == [d \in 0 .. m |-> IF d < m THEN w[d] ELSE GetOrCreate(w[m - 1], va[m])]
        <3>3. \A d \in 0 .. m - 1 :
                  w[d] = IF d = 0 THEN [tables |-> tables, taken |-> taken, at |-> root]
                         ELSE GetOrCreate(w[d - 1], va[d])
            BY <3>2 DEF IsWalk
        <3>4. ASSUME NEW d \in 0 .. m
              PROVE  u[d] = IF d = 0 THEN [tables |-> tables, taken |-> taken, at |-> root]
                            ELSE GetOrCreate(u[d - 1], va[d])
            <4>1. CASE d = m
                <5>1. u[d] = GetOrCreate(w[m - 1], va[m]) /\ u[m - 1] = w[m - 1]
                    BY <3>1, <4>1
                <5> QED  BY <2>4, <4>1, <5>1
            <4>2. CASE d # m /\ d = 0
                BY <2>2, <3>1, <3>3, <4>2
            <4>3. CASE d # m /\ d # 0
                <5>1. u[d] = w[d] /\ u[d - 1] = w[d - 1] /\ d \in 0 .. m - 1
                    BY <2>2, <4>3
                <5> QED  BY <3>3, <4>3, <5>1
            <4> QED  BY <4>1, <4>2, <4>3
        <3>5. IsWalk(u, root, va, m)
            <4>1. DOMAIN u = 0 .. m /\ u = [d \in 0 .. m |-> u[d]]
                OBVIOUS
            <4> HIDE DEF u
            <4> QED  BY <3>4, <4>1 DEF IsWalk
        <3> QED  BY <2>2, <3>5
    <2> QED  BY <2>3, <2>4
<1> QED  BY <1>1, <1>2

\* What has been reached after d levels, with a frame left for each of the others.
Reached(v, rts, r, va, d) ==
    /\ v = [tables |-> v.tables, taken |-> v.taken, at |-> v.at]
    /\ Cardinality(TableFrames \ v.taken) >= TableLevels - 1 - d
    /\ v.at # Absent
    /\ \E way : Mapped(v.tables, v.taken, rts, asked, way) /\ v.at = way[r][va][d]

\* ... one level further.
LEMMA ReachedNext ==
    ASSUME NEW v, NEW rts, NEW r \in rts, NEW va \in Addresses,
           NEW d \in Depths, d + 1 \in Depths, Reached(v, rts, r, va, d)
    PROVE  Reached(GetOrCreate(v, va[d + 1]), rts, r, va, d + 1)
<1>1. /\ v = [tables |-> v.tables, taken |-> v.taken, at |-> v.at]
      /\ Cardinality(TableFrames \ v.taken) >= TableLevels - 1 - d
      /\ v.at # Absent
    BY DEF Reached
<1>2. PICK way : Mapped(v.tables, v.taken, rts, asked, way) /\ v.at = way[r][va][d]
    BY DEF Reached
<1>3. /\ IsFiniteSet(TableFrames \ v.taken)
      /\ Cardinality(TableFrames \ v.taken) \in Nat
      /\ TableFrames \ v.taken # {}
    <2>1. IsFiniteSet(TableFrames \ v.taken)
        BY PageTablesAssumption, FS_Difference
    <2>2. Cardinality(TableFrames \ v.taken) \in Nat
        BY <2>1, FS_CardinalityType
    <2>3. TableLevels - 1 - d >= 1 /\ d \in Nat
        BY DepthsAreNumbers DEF Depths
    <2>4. Cardinality(TableFrames \ v.taken) # 0
        BY <1>1, <2>2, <2>3, DepthsAreNumbers
    <2> QED  BY <2>1, <2>2, <2>4, FS_EmptySet
<1> DEFINE entry == v.tables[v.at][va[d + 1]]
           next == GetOrCreate(v, va[d + 1])
<1>4. CASE entry # Absent
    <2>1. next = [tables |-> v.tables, taken |-> v.taken, at |-> entry]
        BY <1>1, <1>4 DEF GetOrCreate
    <2>2. entry = way[r][va][d + 1]
        BY <1>1, <1>2 DEF Mapped, StepwiseTo
    <2>3. Cardinality(TableFrames \ v.taken) >= TableLevels - 1 - (d + 1)
        BY <1>1, <1>3, DepthsAreNumbers DEF Depths
    <2> HIDE DEF next, entry
    <2>4. Reached(next, rts, r, va, d + 1)
        BY <1>2, <1>4, <2>1, <2>2, <2>3 DEF Reached
    <2> QED  BY <2>4 DEF next
<1>5. CASE entry = Absent
    <2>0. PICK frame : frame = AllocatedFrame(v.taken)
        OBVIOUS
    <2>1. frame \in TableFrames \ v.taken /\ frame # Absent
        BY <2>0, <1>3, FrameIsFree, DepthsAreNumbers
    <2> DEFINE tb2 == TablePut(v.tables, way[r][va][d], va[d + 1], frame)
    <2>2. next = [tables |-> tb2, taken |-> v.taken \cup {frame}, at |-> frame]
        BY <1>2, <1>5, <2>0 DEF GetOrCreate, TablePut
    <2>3. StopsAt(v.tables, v.taken, rts, asked, way, r, va, d, frame)
        BY <1>1, <1>2, <1>5, <2>1 DEF StopsAt
    <2>4. GoesOn(v.tables, v.taken, rts, asked, way, r, va, d, frame)
        BY <2>3, NewTable
    <2>5. PICK new : /\ Mapped(tb2, v.taken \cup {frame}, rts, asked, new)
                     /\ new[r][va][d + 1] = frame
        BY <2>4 DEF GoesOn
    <2>6. Cardinality(TableFrames \ (v.taken \cup {frame})) >= TableLevels - 1 - (d + 1)
        <3>1. PICK S : S = TableFrames \ v.taken
            OBVIOUS
        <3>2. IsFiniteSet(S) /\ frame \in S
            BY <1>3, <2>1, <3>1
        <3>3. Cardinality(S \ {frame}) = Cardinality(S) - 1
            BY <3>2, FS_RemoveElement
        <3>4. TableFrames \ (v.taken \cup {frame}) = S \ {frame}
            BY <3>1
        <3>5. Cardinality(S) >= TableLevels - 1 - d /\ Cardinality(S) \in Nat
            BY <1>1, <1>3, <3>1
        <3>6. Cardinality(S) - 1 >= TableLevels - 1 - (d + 1)
            BY <3>5, DepthsAreNumbers
        <3> QED  BY <3>3, <3>4, <3>6
    <2> HIDE DEF next, tb2
    <2>7. Reached(next, rts, r, va, d + 1)
        BY <2>1, <2>2, <2>5, <2>6 DEF Reached
    <2> QED  BY <2>7 DEF next
<1> QED  BY <1>4, <1>5

\* map_page reaches the last table of the way to the address.
LEMMA WalkArrives ==
    ASSUME NEW way, NEW rts, Mapped(tables, taken, rts, asked, way),
           NEW r \in rts, NEW va \in Addresses,
           Cardinality(TableFrames \ taken) >= TableLevels - 1
    PROVE  Reached(WalkTo(r, va), rts, r, va, TableLevels - 1)
<1> DEFINE n == TableLevels - 1
           base == [tables |-> tables, taken |-> taken, at |-> r]
           w == CHOOSE u : u = [d \in Depths |-> IF d = 0 THEN base
                                                 ELSE GetOrCreate(u[d - 1], va[d])]
<1>1. n \in Nat /\ Depths = 0 .. n
    BY DepthsAreNumbers DEF Depths
<1>2. w = [d \in Depths |-> IF d = 0 THEN base ELSE GetOrCreate(w[d - 1], va[d])]
    <2>1. \E u : IsWalk(u, r, va, n)
        BY <1>1, WalkExists
    <2>2. \E u : u = [d \in Depths |-> IF d = 0 THEN base ELSE GetOrCreate(u[d - 1], va[d])]
        BY <1>1, <2>1 DEF IsWalk
    <2> HIDE DEF base
    <2> QED  BY <2>2, Zenon
<1>3. WalkTo(r, va) = w[n]
    BY DEF WalkTo
<1> HIDE DEF w
<1>4. w[0] = base
    BY <1>2, DepthsAreNumbers
<1>5. \A d \in Depths : d # 0 => w[d] = GetOrCreate(w[d - 1], va[d])
    BY <1>2
<1>6. Reached(w[0], rts, r, va, 0)
    <2>1. way[r][va][0] = r /\ r # Absent
        BY DepthsAreNumbers DEF Mapped, StepwiseTo, PagesTyped
    <2> QED  BY <1>1, <1>4, <2>1 DEF Reached
<1> DEFINE S == {d \in Depths : ~ Reached(w[d], rts, r, va, d)}
<1>7. CASE S = {}
    BY <1>3, <1>7, DepthsAreNumbers
<1>8. CASE S # {}
    <2>1. PICK m \in S : \A k \in S : m <= k
        BY <1>8, DepthsAreNumbers, LeastNumber
    <2>2. m # 0 /\ m \in Depths /\ ~ Reached(w[m], rts, r, va, m)
        BY <1>6, <2>1
    <2>3. m - 1 \in Depths /\ (m - 1) + 1 = m /\ ~ (m <= m - 1)
        BY <1>1, <2>2
    <2>4. Reached(w[m - 1], rts, r, va, m - 1)
        BY <2>1, <2>3
    <2> HIDE DEF S, n
    <2>5. Reached(GetOrCreate(w[m - 1], va[m]), rts, r, va, m)
        BY <2>2, <2>3, <2>4, ReachedNext
    <2> QED  BY <1>5, <2>2, <2>5
<1> QED  BY <1>7, <1>8

\* The entry that map_page writes in the end is on the way to that address only.
LEMMA LastEntry ==
    ASSUME NEW tb, NEW tk, NEW rts, NEW ask, NEW way, Mapped(tb, tk, rts, ask, way),
           NEW r \in rts, NEW va \in Addresses, NEW pa \in Targets,
           way[r][va][TableLevels - 1] # Absent
    PROVE  Mapped([tb EXCEPT ![way[r][va][TableLevels - 1]][va[TableLevels]] = pa],
                  tk, rts, [ask EXCEPT ![r][va] = pa], way)
<1> DEFINE n == TableLevels - 1
           f == way[r][va][n]
           i == va[TableLevels]
           tb2 == [tb EXCEPT ![f][i] = pa]
           ask2 == [ask EXCEPT ![r][va] = pa]
<1>1. PagesTyped(tb, tk, rts, ask) /\ WaysApart(rts, way)
    BY DEF Mapped
<1>2. n \in Depths /\ f \in tk /\ f \in TableFrames /\ i \in Indices
    BY <1>1, DepthsAreNumbers DEF Mapped, PagesTyped, Addresses
<1>3. /\ tb2 \in [TableFrames -> [Indices -> Entries]]
      /\ tb2[f][i] = pa
      /\ \A j \in Indices : j # i => tb2[f][j] = tb[f][j]
      /\ \A g \in TableFrames : g # f => tb2[g] = tb[g]
    BY <1>1, <1>2 DEF PagesTyped, Entries
<1>4. /\ ask2 \in [rts -> [Addresses -> Targets \cup {Absent}]]
      /\ ask2[r][va] = pa
      /\ \A s \in rts, vb \in Addresses : s # r \/ vb # va => ask2[s][vb] = ask[s][vb]
    BY <1>1 DEF PagesTyped
<1> HIDE DEF tb2, ask2
<1>5. ASSUME NEW s \in rts, NEW vb \in Addresses PROVE StepwiseTo(tb2, way, s, vb)
    <2>1. ASSUME NEW d \in Depths, d + 1 \in Depths, way[s][vb][d] # Absent
          PROVE  tb2[way[s][vb][d]] = tb[way[s][vb][d]]
        <3>1. d # n
            BY <2>1, DepthsAreNumbers DEF Depths
        <3>2. way[s][vb][d] # f /\ way[s][vb][d] \in TableFrames
            BY <1>1, <1>2, <2>1, <3>1 DEF WaysApart, Mapped, PagesTyped
        <3> QED  BY <1>3, <3>2
    <2> QED  BY <2>1 DEF Mapped, StepwiseTo
<1>6. ASSUME NEW s \in rts, NEW vb \in Addresses PROVE EndsAsAsked(tb2, ask2, way, s, vb)
    <2> DEFINE last == way[s][vb][n]
    <2>1. ask[s][vb] = IF last = Absent THEN Absent ELSE tb[last][vb[TableLevels]]
        BY DEF Mapped, EndsAsAsked
    <2>2. vb[TableLevels] \in Indices
        BY DepthsAreNumbers DEF Addresses
    <2>3. last # Absent => last \in TableFrames
        BY <1>1, <1>2 DEF Mapped, PagesTyped
    <2>4. CASE last = f
        <3>1. s = r /\ \A j \in 1 .. n : vb[j] = va[j]
            BY <1>1, <1>2, <2>4 DEF WaysApart
        <3>2. CASE vb[TableLevels] = i
            <4>1. \A j \in 1 .. TableLevels : vb[j] = va[j]
                BY <3>1, <3>2, DepthsAreNumbers
            <4>0. /\ va = [j \in 1 .. TableLevels |-> va[j]]
                  /\ vb = [j \in 1 .. TableLevels |-> vb[j]]
                BY DEF Addresses
            <4>2. vb = va
                BY <4>0, <4>1, Zenon
            <4>3. ask2[s][vb] = pa
                BY <1>4, <3>1, <4>2
            <4>4. tb2[last][vb[TableLevels]] = pa
                BY <1>3, <2>4, <3>2
            <4>5. last # Absent
                BY <2>4
            <4> QED  BY <4>3, <4>4, <4>5 DEF EndsAsAsked
        <3>3. CASE vb[TableLevels] # i
            <4>1. vb # va
                BY <3>3
            <4> QED  BY <1>3, <1>4, <2>1, <2>2, <2>4, <3>3, <4>1 DEF EndsAsAsked
        <3> QED  BY <3>2, <3>3
    <2>5. CASE last # f
        <3>1. s # r \/ vb # va
            BY <2>5
        <3> QED  BY <1>3, <1>4, <2>1, <2>3, <2>5, <3>1 DEF EndsAsAsked
    <2> QED  BY <2>4, <2>5
<1>7. PagesTyped(tb2, tk, rts, ask2)
    BY <1>1, <1>3, <1>4 DEF PagesTyped
<1>8. Mapped(tb2, tk, rts, ask2, way)
    BY <1>1, <1>5, <1>6, <1>7 DEF Mapped
<1> QED  BY <1>8 DEF tb2, ask2

\* map_page keeps the invariant.
LEMMA MapPageKeeps ==
    ASSUME PagesInv, NEW r \in ToSet(roots), NEW va \in Requests, NEW pa \in Targets,
           MapPage(r, va, pa)
    PROVE  PagesInv'
<1> DEFINE rts == ToSet(roots)
           walk == WalkTo(r, va)
<1>1. va \in Addresses
    BY PageTablesAssumption
<1>2. PICK way : Mapped(tables, taken, rts, asked, way)
    BY DEF PagesInv
<1>3. Cardinality(TableFrames \ taken) >= TableLevels - 1
    BY DEF MapPage
<1>4. Reached(walk, rts, r, va, TableLevels - 1)
    BY <1>1, <1>2, <1>3, WalkArrives
<1>5. /\ tables' = [walk.tables EXCEPT ![walk.at][va[TableLevels]] = pa]
      /\ taken' = walk.taken
      /\ asked' = [asked EXCEPT ![r][va] = pa]
      /\ roots' = roots
    BY DEF MapPage
<1> HIDE DEF walk
<1>6. PICK new : /\ Mapped(walk.tables, walk.taken, rts, asked, new)
                 /\ walk.at = new[r][va][TableLevels - 1] /\ walk.at # Absent
    BY <1>4 DEF Reached
<1>7. Mapped(tables', taken', rts, asked', new)
    BY <1>1, <1>5, <1>6, LastEntry
<1>8. rts' = rts /\ roots' \in Seq(TableFrames)
    BY <1>5 DEF PagesInv
<1> QED  BY <1>7, <1>8 DEF PagesInv

\* So does a new address space: every way in it ends at its root.
LEMMA CreatePageTableKeeps ==
    ASSUME PagesInv, CreatePageTable
    PROVE  PagesInv'
<1> DEFINE rts == ToSet(roots)
           frame == AllocatedFrame(taken)
<1>1. PICK way : Mapped(tables, taken, rts, asked, way)
    BY DEF PagesInv
<1>2. PagesTyped(tables, taken, rts, asked) /\ WaysApart(rts, way) /\ roots \in Seq(TableFrames)
    BY <1>1 DEF Mapped, PagesInv
<1>3. frame \in TableFrames \ taken
    BY FrameIsFree DEF CreatePageTable
<1>4. /\ tables' = [tables EXCEPT ![frame] = Cleared]
      /\ taken' = taken \cup {frame}
      /\ roots' = Append(roots, frame)
      /\ asked' = [r \in DOMAIN asked \cup {frame} |->
                       IF r = frame THEN NothingAsked ELSE asked[r]]
    BY DEF CreatePageTable
<1> HIDE DEF frame
<1>5. ToSet(roots') = rts \cup {frame} /\ roots' \in Seq(TableFrames) /\ frame \notin rts
    <2>1. /\ Len(roots') = Len(roots) + 1 /\ roots'[Len(roots) + 1] = frame
          /\ \A i \in 1 .. Len(roots) : roots'[i] = roots[i]
          /\ roots' \in Seq(TableFrames) /\ Len(roots) \in Nat
          /\ DOMAIN roots = 1 .. Len(roots) /\ DOMAIN roots' = 1 .. Len(roots) + 1
        BY <1>2, <1>3, <1>4
    <2>2. ToSet(roots') = rts \cup {frame}
        BY <2>1 DEF ToSet
    <2> QED  BY <1>2, <1>3, <2>1, <2>2 DEF PagesTyped
<1> DEFINE tb2 == tables'
           ask2 == asked'
           rts2 == rts \cup {frame}
           new == [s \in rts2 |-> [vb \in Addresses |-> [e \in Depths |->
                     IF s # frame THEN way[s][vb][e] ELSE IF e = 0 THEN frame ELSE Absent]]]
<1>6. \A s \in rts2, vb \in Addresses, e \in Depths :
          new[s][vb][e] = IF s # frame THEN way[s][vb][e] ELSE IF e = 0 THEN frame ELSE Absent
    OBVIOUS
<1>7. /\ tb2 \in [TableFrames -> [Indices -> Entries]]
      /\ \A j \in Indices : tb2[frame][j] = Absent
      /\ \A g \in TableFrames : g # frame => tb2[g] = tables[g]
    BY <1>2, <1>3, <1>4 DEF PagesTyped, Entries, Cleared
<1>8. /\ ask2 \in [rts2 -> [Addresses -> Targets \cup {Absent}]]
      /\ \A vb \in Addresses : ask2[frame][vb] = Absent
      /\ \A s \in rts : s # frame => ask2[s] = asked[s]
    BY <1>2, <1>4 DEF PagesTyped, NothingAsked
<1>9. \A s \in rts, vb \in Addresses, e \in Depths :
          way[s][vb][e] \in taken \cup {Absent} /\ way[s][vb][e] # frame
    BY <1>1, <1>3, DepthsAreNumbers DEF Mapped
<1> HIDE DEF new, tb2, ask2
<1>10. ASSUME NEW s \in rts2, NEW vb \in Addresses
       PROVE  /\ \A e \in Depths : new[s][vb][e] \in taken \cup {frame} \cup {Absent}
              /\ StepwiseTo(tb2, new, s, vb)
              /\ EndsAsAsked(tb2, ask2, new, s, vb)
    <2>1. vb[TableLevels] \in Indices /\ \A e \in Depths : e + 1 \in Depths => vb[e + 1] \in Indices
        BY DepthsAreNumbers DEF Addresses, Depths
    <2>2. CASE s = frame
        <3>1. \A e \in Depths : new[s][vb][e] = IF e = 0 THEN frame ELSE Absent
            BY <1>6, <2>2
        <3>2. StepwiseTo(tb2, new, s, vb)
            BY <1>7, <2>1, <2>2, <3>1, DepthsAreNumbers DEF StepwiseTo
        <3>3. EndsAsAsked(tb2, ask2, new, s, vb)
            BY <1>7, <1>8, <2>1, <2>2, <3>1, DepthsAreNumbers DEF EndsAsAsked
        <3> QED  BY <3>1, <3>2, <3>3
    <2>3. CASE s # frame
        <3>1. s \in rts /\ \A e \in Depths : new[s][vb][e] = way[s][vb][e]
            BY <1>6, <2>3
        <3>2. \A e \in Depths : way[s][vb][e] # Absent =>
                  tb2[way[s][vb][e]] = tables[way[s][vb][e]]
            BY <1>2, <1>7, <1>9, <3>1 DEF PagesTyped
        <3>3. StepwiseTo(tb2, new, s, vb)
            BY <1>1, <3>1, <3>2, DepthsAreNumbers DEF Mapped, StepwiseTo
        <3>4. EndsAsAsked(tb2, ask2, new, s, vb)
            BY <1>1, <1>8, <2>3, <3>1, <3>2, DepthsAreNumbers DEF Mapped, EndsAsAsked
        <3> QED  BY <1>9, <3>1, <3>3, <3>4
    <2> QED  BY <2>2, <2>3
<1>11. WaysApart(rts2, new)
    <2> SUFFICES ASSUME NEW s \in rts2, NEW t \in rts2, NEW vb \in Addresses, NEW vc \in Addresses,
                        NEW e \in Depths, NEW g \in Depths,
                        new[s][vb][e] = new[t][vc][g], new[s][vb][e] # Absent
                 PROVE  s = t /\ e = g /\ \A j \in 1 .. e : vb[j] = vc[j]
        BY DEF WaysApart
    <2>1. CASE s = frame
        <3>1. e = 0 /\ new[t][vc][g] = frame
            BY <1>6, <2>1
        <3>2. t = frame /\ g = 0
            BY <1>6, <1>9, <3>1
        <3> QED  BY <2>1, <3>1, <3>2
    <2>2. CASE s # frame
        <3>1. s \in rts /\ new[s][vb][e] = way[s][vb][e] /\ new[s][vb][e] # frame
            BY <1>6, <1>9, <2>2
        <3>2. new[t][vc][g] # frame /\ new[t][vc][g] # Absent
            BY <3>1
        <3>3. t # frame
            BY <1>6, <3>2
        <3>4. t \in rts /\ new[t][vc][g] = way[t][vc][g]
            BY <1>6, <3>3
        <3>5. way[s][vb][e] = way[t][vc][g] /\ way[s][vb][e] # Absent
            BY <3>1, <3>4
        <3> QED  BY <1>2, <3>1, <3>4, <3>5 DEF WaysApart
    <2> QED  BY <2>1, <2>2
<1>12. PagesTyped(tb2, taken', rts2, ask2)
    BY <1>2, <1>3, <1>4, <1>7, <1>8 DEF PagesTyped
<1>13. Mapped(tb2, taken', rts2, ask2, new)
    BY <1>4, <1>10, <1>11, <1>12 DEF Mapped
<1> QED  BY <1>5, <1>13 DEF PagesInv, tb2, ask2

\* At the start every way ends at the kernel's table, if that came clear.
LEMMA PagesStart == PageTablesInit => (rootClear => PagesInv)
<1> SUFFICES ASSUME PageTablesInit, rootClear PROVE PagesInv
    OBVIOUS
<1> DEFINE first == AllocatedFrame({})
           way == [s \in {first} |-> [vb \in Addresses |-> [e \in Depths |->
                     IF e = 0 THEN first ELSE Absent]]]
<1>1. first \in TableFrames /\ first # Absent
    BY PageTablesAssumption, FrameIsFree, DepthsAreNumbers
<1>2. PICK left \in Leftovers :
          tables = [f \in TableFrames |-> [i \in Indices |-> IF f = first THEN Absent ELSE left]]
    BY DEF PageTablesInit
<1>3. taken = {first} /\ roots = <<first>> /\ asked = [r \in {first} |-> NothingAsked]
    BY DEF PageTablesInit
<1> HIDE DEF first
<1>4. roots \in Seq(TableFrames) /\ ToSet(roots) = {first}
    BY <1>1, <1>3 DEF ToSet
<1>5. PagesTyped(tables, taken, {first}, asked)
    BY <1>1, <1>2, <1>3 DEF PagesTyped, Entries, Cleared, NothingAsked
<1>6. \A j \in Indices : tables[first][j] = Absent
    BY <1>1, <1>2 DEF Cleared
<1>7. \A vb \in Addresses : asked[first][vb] = Absent
    BY <1>3 DEF NothingAsked
<1>8. \A vb \in Addresses, e \in Depths : way[first][vb][e] = IF e = 0 THEN first ELSE Absent
    OBVIOUS
<1> HIDE DEF way
<1>9. ASSUME NEW vb \in Addresses
      PROVE  StepwiseTo(tables, way, first, vb) /\ EndsAsAsked(tables, asked, way, first, vb)
    <2>1. vb[TableLevels] \in Indices /\ \A e \in Depths : e + 1 \in Depths => vb[e + 1] \in Indices
        BY DepthsAreNumbers DEF Addresses, Depths
    <2>2. StepwiseTo(tables, way, first, vb)
        BY <1>6, <1>8, <2>1, DepthsAreNumbers DEF StepwiseTo
    <2>3. EndsAsAsked(tables, asked, way, first, vb)
        BY <1>6, <1>7, <1>8, <2>1, DepthsAreNumbers DEF EndsAsAsked
    <2> QED  BY <2>2, <2>3
<1>10. WaysApart({first}, way)
    BY <1>8, DepthsAreNumbers DEF WaysApart
<1>11. Mapped(tables, taken, {first}, asked, way)
    BY <1>3, <1>5, <1>8, <1>9, <1>10 DEF Mapped
<1> QED  BY <1>4, <1>11 DEF PagesInv

\* The processor goes the same way as map_page.
LEMMA TranslateFollows ==
    ASSUME NEW rts, NEW way, Mapped(tables, taken, rts, asked, way),
           NEW r \in rts, NEW va \in Addresses
    PROVE  Translate(r, va) = asked[r][va]
<1> DEFINE n == TableLevels
           g == [d \in 0 .. n |-> IF d = n THEN asked[r][va] ELSE way[r][va][d]]
           Step(u) == u = [d \in 0 .. n |-> IF d = 0 THEN r ELSE EntryOf(u[d - 1], va[d])]
           at == CHOOSE u : Step(u)
<1>1. n \in Nat /\ n >= 1 /\ \A d \in 0 .. n : d # n => d \in Depths
    BY DepthsAreNumbers DEF Depths
<1>2. taken \subseteq TableFrames /\ Absent \notin TableFrames
    BY DepthsAreNumbers DEF Mapped, PagesTyped
<1>3. \A d \in 0 .. n : g[d] = IF d = n THEN asked[r][va] ELSE way[r][va][d]
    OBVIOUS
<1>4. g = [d \in 0 .. n |-> g[d]]
    OBVIOUS
<1> HIDE DEF g
<1>5. ASSUME NEW d \in 0 .. n
      PROVE  g[d] = IF d = 0 THEN r ELSE EntryOf(g[d - 1], va[d])
    <2>1. CASE d = 0
        BY <1>1, <1>3, <2>1 DEF Mapped, StepwiseTo
    <2>2. CASE d # 0
        <3>1. d - 1 \in Depths /\ d - 1 \in 0 .. n /\ d - 1 # n /\ (d - 1) + 1 = d
            BY <1>1, <2>2
        <3>2. g[d - 1] = way[r][va][d - 1] /\ way[r][va][d - 1] \in taken \cup {Absent}
            BY <1>3, <3>1 DEF Mapped
        <3>3. g[d] = IF g[d - 1] = Absent THEN Absent ELSE tables[g[d - 1]][va[d]]
            <4>1. CASE d = n
                BY <1>3, <3>2, <4>1 DEF Mapped, EndsAsAsked
            <4>2. CASE d # n
                <5>1. d \in Depths /\ g[d] = way[r][va][d]
                    BY <1>1, <1>3, <4>2
                <5>2. way[r][va][(d - 1) + 1] = IF way[r][va][d - 1] = Absent THEN Absent
                          ELSE tables[way[r][va][d - 1]][va[(d - 1) + 1]]
                    BY <3>1, <5>1 DEF Mapped, StepwiseTo
                <5> QED  BY <3>1, <3>2, <5>1, <5>2
            <4> QED  BY <4>1, <4>2
        <3> QED  BY <1>2, <2>2, <3>2, <3>3 DEF EntryOf
    <2> QED  BY <2>1, <2>2
<1>6. Step(g)
    BY <1>4, <1>5
<1>7. Step(at)
    <2> HIDE DEF Step
    <2> QED  BY <1>6, Zenon
<1>8. Translate(r, va) = at[n]
    BY DEF Translate
<1> HIDE DEF at
<1>9. \A d \in 0 .. n : at[d] = IF d = 0 THEN r ELSE EntryOf(at[d - 1], va[d])
    BY <1>7
<1> DEFINE S == {d \in 0 .. n : at[d] # g[d]}
<1>10. CASE S = {}
    <2>1. at[n] = g[n]
        BY <1>1, <1>10
    <2> QED  BY <1>1, <1>3, <1>8, <2>1
<1>11. CASE S # {}
    <2>0. S \subseteq Nat
        BY <1>1
    <2>1. PICK m \in S : \A k \in S : m <= k
        BY <1>11, <2>0, LeastNumber
    <2>2. m \in 0 .. n /\ at[m] # g[m]
        BY <2>1
    <2>3. m # 0
        BY <1>5, <1>9, <2>2
    <2>4. m - 1 \in 0 .. n /\ ~ (m <= m - 1)
        BY <1>1, <2>2, <2>3
    <2>5. at[m - 1] = g[m - 1]
        BY <2>1, <2>4
    <2> QED  BY <1>5, <1>9, <2>2, <2>3, <2>5
<1> QED  BY <1>10, <1>11

\* When the frame of the kernel's table came clear, every address translates to what it
\* was mapped to last in its own address space, and no other one does, whatever all other
\* frames held before.  (map_page.)
THEOREM AlwaysTranslates == PageTablesSpec => []TranslatesAsAsked
<1> DEFINE Inv == rootClear => PagesInv
<1>1. PageTablesInit => Inv
    BY PagesStart
<1>2. Inv /\ [PageTablesNext]_tableVars => Inv'
    <2> SUFFICES ASSUME Inv, [PageTablesNext]_tableVars, rootClear' PROVE PagesInv'
        OBVIOUS
    <2>0. rootClear' = rootClear
        BY DEF PageTablesNext, MapPage, CreatePageTable, tableVars
    <2>1. PagesInv
        BY <2>0
    <2>2. ASSUME NEW r \in ToSet(roots), NEW va \in Requests, NEW pa \in Targets, MapPage(r, va, pa)
          PROVE  PagesInv'
        BY <2>1, <2>2, MapPageKeeps
    <2>3. CASE CreatePageTable
        BY <2>1, <2>3, CreatePageTableKeeps
    <2>4. CASE UNCHANGED tableVars
        BY <2>1, <2>4 DEF tableVars, PagesInv
    <2> QED  BY <2>2, <2>3, <2>4 DEF PageTablesNext
<1>3. Inv => TranslatesAsAsked
    BY TranslateFollows DEF PagesInv, TranslatesAsAsked
<1> QED  BY <1>1, <1>2, <1>3, PTL DEF PageTablesSpec
=============================================================================
