CONSTANTS
    Processes = {"sender", "receiver"}
    MaxThreadsPerProcess = 2
    MaxSem = 2
    NumCells = 1
    InitValues = {0}
    MaxCalls = 3
    NULL = NULL
    NumPages = 2
    FreeFrames = {1, 3}
    MaxProcesses = 2
    UsedSpaces = {1, 2}
    MaxLead = 1
SPECIFICATION Spec
INVARIANTS SemaphoresSound ArrivesWhole
PROPERTY SentProcessRuns
CHECK_DEADLOCK FALSE
