CONSTANTS
    NumWindows = 3
    NULL = NULL
    c = c
    h = h
    Rows = 2
    Cols = 3
    MaxInputLength = 3
    MaxHistory = 2
    ByteValues = 2
    PromptLengths = {1, 2}
    Chars = {c, h}
    Blank = Blank
    Mark = Mark
    Clear <- MCClear
    Help <- MCHelp
    HelpLines = 2
    MaxArgs = 4
    MaxPipes = 1
    Garbage = Garbage
    Tokens <- MCTokens
    MaxTokens = 5
    None = None
    Lines <- MCLines
    PathOf <- MCPathOf
    HomePath <- MCHomePath
    Directories <- MCDirectories
    Programs = {"run"}
    ExitCodes <- MCExitCodes
    MaxJobs = 3
    Callees = {c1, c2}
    Chains <- MCChains
    MaxStackDepth = 2
    MaxSamples = 2
    Managers = {m1}
    MaxContainers = 3
    LastId = 4
    NoProcess = NoProcess
    ScreenWidth = 5
    ScreenHeight = 4
    Pitch = 22
    Xs <- MCXs
    Ys <- MCYs
    Extents = {0, 1, 3}
    SourceWidth = 3
    SourceHeight = 3
    MaxCalls = 1
    MaxVms = 2
    VcpuCounts = {1, 2}
    GuestBlocks = {g1, g2, g3}
    EptRoots = {r1, r2, r3}
    NoBlock = NoBlock
SPECIFICATION MCSpec
PROPERTIES CdGoesWhereAsked
CHECK_DEADLOCK FALSE
