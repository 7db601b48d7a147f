SPECIFICATION FairSpec
CONSTANTS
    Threads = {t1, t2}
    ConsoleTime = 2
    DiskTimes = {1, 3}
    TimerTicks = 2
    StringLength = 2
    MaxCalls = 2
    MaxKeys = 2
    MaxEnds = 1
INVARIANTS RequestsMatched KeysInOrder
PROPERTIES StringsWhole CallsEnd
CHECK_DEADLOCK FALSE
