CONSTANTS
    MaxProcesses = 2
    NumLevels = 1
    NULL = NULL
    Priorities = {0}
    DefaultSlice = 1
    MaxPid = 2
    Deliverable = {}
SPECIFICATION PreemptedSpec
INVARIANTS WaiterHasLiveChild
CHECK_DEADLOCK FALSE
