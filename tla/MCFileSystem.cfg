SPECIFICATION FairSpec
CONSTANTS
    Threads = {t1, t2}
    Names = {"a", "b"}
    NumHeaders = 4
    NumDirEntries = 3
    MaxOpenedFiles = 2
    MaxCalls = 4
    GoOn = FALSE
INVARIANTS TreeSound OpenedFilesSound
 
CHECK_DEADLOCK FALSE
