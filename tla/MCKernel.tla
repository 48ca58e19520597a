------------------------------ MODULE MCKernel ------------------------------
(***************************************************************************)
(* Instances for TLC of what the kernel hands out: page frames, buddy      *)
(* blocks, slabs, page tables, video memory, and files.  They share no     *)
(* state that changes, so one of them runs in a behaviour while the others *)
(* stay as they started.                                                   *)
(***************************************************************************)
EXTENDS PhysicalMemory, Slabs, PageTables, VideoMemory, Rfs

VARIABLE part   \* the component that runs

Region(b, l, a) == [base |-> b, length |-> l, available |-> a]

\* Pages of 2 bytes, the kernel in pages 0 .. 1, "16 MB" at page 6.  A map with
\* one available region above it; one whose last page is cut short and whose
\* total is no multiple of a byte of the bitmap; one with two separate regions.
MCMaps ==
    { <<Region(0, 10, TRUE), Region(10, 4, FALSE), Region(14, 18, TRUE)>>,
      <<Region(0, 10, TRUE), Region(10, 6, FALSE), Region(16, 11, TRUE)>>,
      <<Region(0, 12, TRUE), Region(12, 6, TRUE), Region(18, 2, FALSE),
        Region(20, 10, TRUE)>> }

\* Whatever a leftover entry or a wrong one points to can be read as a table.
WalksStayInMemory == Targets \cup Leftovers \subseteq TableFrames \cup {Absent}

ASSUME MCHypotheses ==
    /\ PagesAligned /\ RegionsApart /\ RegionsDoNotTouch /\ WalksStayInMemory
    /\ PathsClosed

\* Addresses that share no table, the first one, all but the last, and all tables
\* with another; the frames that hold them are dirty, or point to one another.
MCRequests    == {<<0, 0, 0, 0>>, <<0, 0, 0, 1>>, <<0, 1, 0, 0>>, <<1, 0, 0, 1>>}
MCTableFrames == 1 .. 12
MCTargets     == {11, 12}
MCLeftovers   == {Absent, 5}

\* Two names in "/", and one in each directory they may name.
MCPaths == {<<"a">>, <<"b">>, <<"a", "a">>, <<"b", "a">>}
MCFlags == {{"RDWR", "CREAT"}, {"WRONLY", "APPEND"}}

physicalVars == vars

MCInit ==
    /\ part \in {"frames", "blocks", "slabs", "tables", "video", "files"}
    /\ Init /\ SlabsInit /\ PageTablesInit /\ VideoInit /\ RfsInit
    /\ part \notin {"frames", "blocks"} => memoryMap = CHOOSE map \in MemoryMaps : TRUE
    /\ rootClear
    /\ part # "tables" => \A f \in TableFrames : tables[f] = Cleared

\* All but the component that runs.
Others(p) ==
    /\ UNCHANGED part
    /\ p # "frames" => UNCHANGED <<bitmap, frames>>
    /\ p # "blocks" => UNCHANGED buddyVars
    /\ p \notin {"frames", "blocks"} => UNCHANGED memoryMap
    /\ p # "slabs" => UNCHANGED slabVars
    /\ p # "tables" => UNCHANGED tableVars
    /\ p # "video" => UNCHANGED videoVars
    /\ p # "files" => UNCHANGED rfsVars

MCNext ==
    \/ part \in {"frames", "blocks"} /\ Next /\ Others(part)
    \/ part = "slabs" /\ SlabsNext /\ Others(part)
    \/ part = "tables" /\ PageTablesNext /\ Others(part)
    \/ part = "video" /\ VideoNext /\ Others(part)
    \/ part = "files" /\ RfsNext /\ Others(part)

MCSpec ==
    MCInit /\ [][MCNext]_<<physicalVars, slabVars, tableVars, videoVars, rfsVars, part>>

\* The types of the components.
MCTypeOK == TypeOK /\ RfsTypeOK
=============================================================================
