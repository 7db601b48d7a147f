CONSTANTS
    MaxThreads = 4
    MaxThreadsPerProcess = 2
    MaxCreates = 3
SPECIFICATION FairSpec
INVARIANTS OwnStackAndTid ExitsAreSeen CrashNeedsReuse
PROPERTY WaitersGoOn
CHECK_DEADLOCK FALSE
