CONSTANTS
    MaxProcesses = 4
    NumLevels = 1
    NULL = NULL
    Priorities = {0}
    DefaultSlice = 2
    MaxPid = 4
    Deliverable <- TerminateOnly
SPECIFICATION FairSpec
INVARIANTS WaiterHasLiveChild WaitReturnsExitedChild CountsAreExact
PROPERTIES ImplementsFifo ReadyProcessesRun
CHECK_DEADLOCK FALSE
