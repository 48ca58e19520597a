CONSTANTS
    Managers = {m1, m2}
    MaxContainers = 2
    LastId = 3
    NoProcess = NoProcess
SPECIFICATION ContainersSpec
PROPERTIES KillsOnlyItsInit
CHECK_DEADLOCK FALSE
