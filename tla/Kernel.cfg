CONSTANTS
    PageSize = 2
    ByteBits = 4
    KernelFrames = 2
    MemoryMaps <- MCMaps
    MaxBuddyOrder = 4
    BuddyFloor = 12
    ObjectsPerSlab = 3
    MaxSlabs = 3
    TableLevels = 4
    Indices = {0, 1}
    Requests <- MCRequests
    Targets <- MCTargets
    TableFrames <- MCTableFrames
    Leftovers <- MCLeftovers
    MaxTables = 2
    Absent = Absent
    MaxVideoAllocations = 3
    Blocks = {b1, b2, b3, b4}
    Sizes = {1, 2}
    NULL = NULL
    NumInodes = 3
    NumBlocks = 3
    NumFiles = 2
    Names = {"a", "b"}
    Paths <- MCPaths
    Flags <- MCFlags
    MaxSize = 1
SPECIFICATION MCSpec
INVARIANTS MCTypeOK BlocksTile RoomIsFound FramesAreMemory SlabsAccountForObjects
           TranslatesAsAsked FreeFindsItsSlot SlotsAreBlocks
           OneEntryPerInode BlocksOwned SuperblockOutlastsSpace
PROPERTIES LowMemoryFirst ImplementsTree
CHECK_DEADLOCK FALSE
