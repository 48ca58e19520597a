------------------------------- MODULE Slabs -------------------------------
(***************************************************************************)
(* slab_alloc and slab_free of src/kernel/memory.c for one cache.  A slab  *)
(* has a bitmap of its objects in use, kept as a set, and a count of the   *)
(* free ones beside it; slab_alloc trusts the count to choose a slab and   *)
(* the bitmap to choose an object.  create_slab has no body: it puts a new *)
(* slab in front of the list, or fails.                                    *)
(***************************************************************************)
EXTENDS Integers, FiniteSets

CONSTANTS
    ObjectsPerSlab,     \* cache->objects_per_slab
    MaxSlabs            \* slabs that create_slab can find memory for

ASSUME SlabsAssumption == ObjectsPerSlab \in Nat \ {0} /\ MaxSlabs \in Nat

Objects == 0 .. ObjectsPerSlab - 1

VARIABLES
    slabCount,  \* slabs of the cache; slab i was the i-th to be made, so the
                \* list cache->slabs is slabCount, ..., 2, 1
    inUse,      \* bitmap of every slab
    freeCount,  \* free_objects of every slab
    held        \* <<slab, object>> pairs whose address a caller holds

slabVars == <<slabCount, inUse, freeCount, held>>

SlabIds == 1 .. MaxSlabs

SlabsInit ==
    /\ slabCount = 0
    /\ inUse = [i \in SlabIds |-> {}]
    /\ freeCount = [i \in SlabIds |-> 0]
    /\ held = {}

\* Lines 259-262: the first slab of the list with a free object by its count
FirstWithRoom(i) ==
    /\ i \in 1 .. slabCount /\ freeCount[i] # 0
    /\ \A j \in 1 .. slabCount : j > i => freeCount[j] = 0

\* Lines 271-276: the lowest clear bit
LowestClear(used, o) == o \in Objects \ used /\ \A p \in Objects \ used : o <= p

Take(i, o, count) ==
    /\ inUse' = [inUse EXCEPT ![i] = @ \cup {o}]
    /\ freeCount' = [freeCount EXCEPT ![i] = count - 1]
    /\ held' = held \cup {<<i, o>>}

\* slab_alloc
SlabAlloc ==
    \/ \E i \in SlabIds, o \in Objects :
         /\ FirstWithRoom(i)
         /\ LowestClear(inUse[i], o)
         /\ Take(i, o, freeCount[i])
         /\ UNCHANGED slabCount
    \/ /\ \A i \in 1 .. slabCount : freeCount[i] = 0
       /\ slabCount < MaxSlabs
       /\ slabCount' = slabCount + 1
       /\ Take(slabCount + 1, 0, ObjectsPerSlab)

\* (Mutant of Released: the count is not increased.)
ReleasedUncounted(i, o) ==
    /\ inUse' = [inUse EXCEPT ![i] = @ \ {o}]
    /\ UNCHANGED freeCount

\* Lines 290-292
Released(i, o) ==
    /\ inUse' = [inUse EXCEPT ![i] = @ \ {o}]
    /\ freeCount' = [freeCount EXCEPT ![i] = @ + 1]

\* slab_free, of an object its caller was given
SlabFree(i, o) ==
    /\ <<i, o>> \in held
    /\ Released(i, o)
    /\ held' = held \ {<<i, o>>}
    /\ UNCHANGED slabCount

SlabsNext == SlabAlloc \/ \E i \in SlabIds, o \in Objects : SlabFree(i, o)

SlabsSpec == SlabsInit /\ [][SlabsNext]_slabVars

-----------------------------------------------------------------------------
\* Count, bitmap and owners tell the same story: a bit is set exactly for an object
\* that somebody holds, so that none is given twice, and the count is that of the
\* clear bits, so that slab_alloc never overlooks a free object or searches a full
\* slab in vain.  (slab_alloc and slab_free, through any sequence of calls.)
SlabsAccountForObjects ==
    /\ held = {p \in SlabIds \X Objects : p[2] \in inUse[p[1]]}
    /\ \A i \in SlabIds :
          /\ inUse[i] \subseteq Objects
          /\ i \in 1 .. slabCount => freeCount[i] = Cardinality(Objects \ inUse[i])
          /\ i \notin 1 .. slabCount => inUse[i] = {}
=============================================================================
