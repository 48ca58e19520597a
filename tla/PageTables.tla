----------------------------- MODULE PageTables -----------------------------
(***************************************************************************)
(* The page tables of src/kernel/memory.c: map_page, which makes the       *)
(* tables on the way to an entry as it needs them, and the table that      *)
(* setup_kernel_paging makes.  A virtual address is the sequence of its    *)
(* indices, one per level; `asked` remembers what callers asked for.       *)
(* map_page does not look at the result of alloc_physical_page: the model  *)
(* stops short of the call that would run out of frames.                   *)
(* create_page_table has no body: it takes a frame and clears it.  The     *)
(* frame of the kernel's own table is never cleared: rootClear remembers   *)
(* whether it came without entries.                                        *)
(***************************************************************************)
EXTENDS Integers, FiniteSets, SequencesExt

CONSTANTS
    TableLevels,    \* 4: PML4, PDPT, PD, PT
    Indices,        \* entries of a table
    Requests,       \* virtual addresses that callers map
    Targets,        \* physical addresses they map them to
    TableFrames,    \* the frames that can be tables
    Leftovers,      \* what the entries of a frame may hold before its first use
    MaxTables,      \* bound on the address spaces
    Absent          \* an entry without PAGE_PRESENT

Addresses == [1 .. TableLevels -> Indices]
Depths    == 0 .. TableLevels - 1     \* of a table below the root

ASSUME PageTablesAssumption ==
    /\ TableLevels \in Nat \ {0} /\ MaxTables \in Nat
    /\ TableFrames \subseteq Nat /\ IsFiniteSet(TableFrames) /\ TableFrames # {}
    /\ Requests \subseteq Addresses
    /\ Absent \notin Nat /\ Absent \notin Targets

VARIABLES
    tables,     \* what every frame holds
    taken,      \* frames given out
    roots,      \* page_table_t* of every address space
    asked,      \* for every address space, what its addresses were mapped to last
    rootClear   \* the kernel's table held no entry when it was taken

tableVars == <<tables, taken, roots, asked, rootClear>>

Cleared == [i \in Indices |-> Absent]

\* alloc_physical_page: the lowest free frame
AllocatedFrame(gone) == Min(TableFrames \ gone)

-----------------------------------------------------------------------------
\* (Mutant of GetOrCreate: a new table is not cleared.)
GetOrCreateUncleared(walk, i) ==
    LET entry == walk.tables[walk.at][i]
        frame == AllocatedFrame(walk.taken)
    IN  IF entry # Absent THEN [walk EXCEPT !.at = entry]
        ELSE [tables |-> [walk.tables EXCEPT ![walk.at][i] = frame],
              taken |-> walk.taken \cup {frame}, at |-> frame]

\* One level of map_page: follow the entry, or put a new table there and clear it.
GetOrCreate(walk, i) ==
    LET entry == walk.tables[walk.at][i]
        frame == AllocatedFrame(walk.taken)
    IN  IF entry # Absent THEN [walk EXCEPT !.at = entry]
        ELSE [tables |-> [walk.tables EXCEPT ![walk.at][i] = frame, ![frame] = Cleared],
              taken |-> walk.taken \cup {frame}, at |-> frame]

\* Lines 130-161: the walk down to the last table
WalkTo(root, va) ==
    LET walk[d \in Depths] ==
            IF d = 0 THEN [tables |-> tables, taken |-> taken, at |-> root]
            ELSE GetOrCreate(walk[d - 1], va[d])
    IN  walk[TableLevels - 1]

\* map_page
MapPage(root, va, pa) ==
    /\ Cardinality(TableFrames \ taken) >= TableLevels - 1
    /\ LET walk == WalkTo(root, va)
       IN  /\ tables' = [walk.tables EXCEPT ![walk.at][va[TableLevels]] = pa]
           /\ taken' = walk.taken
    /\ asked' = [asked EXCEPT ![root][va] = pa]
    /\ UNCHANGED <<roots, rootClear>>

NothingAsked == [va \in Addresses |-> Absent]

CreatePageTable ==
    /\ Len(roots) < MaxTables
    /\ TableFrames \ taken # {}
    /\ LET frame == AllocatedFrame(taken)
       IN  /\ tables' = [tables EXCEPT ![frame] = Cleared]
           /\ taken' = taken \cup {frame}
           /\ roots' = Append(roots, frame)
           /\ asked' = [r \in DOMAIN asked \cup {frame} |->
                           IF r = frame THEN NothingAsked ELSE asked[r]]
    /\ UNCHANGED rootClear

\* setup_kernel_paging, line 107: the first frame becomes the kernel's table as it is,
\* whatever it holds.  The kernel's own mappings are made by MapPage.
PageTablesInit ==
    LET first == AllocatedFrame({})
    IN  \E left, rootLeft \in Leftovers :
            /\ tables = [f \in TableFrames |->
                            [i \in Indices |-> IF f = first THEN rootLeft ELSE left]]
            /\ taken = {first}
            /\ roots = <<first>>
            /\ asked = [r \in {first} |-> NothingAsked]
            /\ rootClear = (rootLeft = Absent)

PageTablesNext ==
    \/ \E r \in ToSet(roots), va \in Requests, pa \in Targets : MapPage(r, va, pa)
    \/ CreatePageTable

PageTablesSpec == PageTablesInit /\ [][PageTablesNext]_tableVars

-----------------------------------------------------------------------------
\* get_physical_address: follows the entries, as the processor does
EntryOf(at, i) == IF at \in TableFrames THEN tables[at][i] ELSE Absent

Translate(root, va) ==
    LET at[d \in 0 .. TableLevels] ==
            IF d = 0 THEN root ELSE EntryOf(at[d - 1], va[d])
    IN  at[TableLevels]

\* Provided that the frame of the kernel's table came clear, every address translates to
\* what it was mapped to last, in its own address space, and an address that was not
\* mapped does not translate: the tables that map_page makes on the way are shared by the
\* right addresses and interfere with no other, whatever all other frames held before.
\* (map_page, create_page_table.)
TranslatesAsAsked ==
    rootClear =>
        \A r \in ToSet(roots) : \A va \in Addresses : Translate(r, va) = asked[r][va]
=============================================================================
