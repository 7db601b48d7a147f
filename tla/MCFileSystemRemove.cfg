SPECIFICATION Spec
CONSTANTS
    Threads = {t1, t2}
    Names = {"a", "b"}
    NumHeaders = 3
    NumDirEntries = 3
    MaxOpenedFiles = 2
    MaxCalls = 3
    GoOn = TRUE
INVARIANT RemoveSparesOpened
CHECK_DEADLOCK FALSE
