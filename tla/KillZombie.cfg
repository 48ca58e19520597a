CONSTANTS
    MaxProcesses = 3
    NumLevels = 1
    NULL = NULL
    Priorities = {0}
    DefaultSlice = 1
    MaxPid = 3
    Deliverable <- KillZombies
SPECIFICATION Spec
INVARIANTS ZombiesQueued
CHECK_DEADLOCK FALSE
