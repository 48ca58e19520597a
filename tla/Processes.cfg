CONSTANTS
    MaxProcesses = 3
    NumLevels = 2
    NULL = NULL
    Priorities <- MCPriorities
    DefaultSlice = 1
    MaxPid = 4
    Deliverable <- SafeSignals
SPECIFICATION Spec
INVARIANTS TypeOK QueuesHoldTheirProcesses SchedulerInv
PROPERTIES ZombiesOnlyCollected
CHECK_DEADLOCK FALSE
