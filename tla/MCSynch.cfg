CONSTANTS
    t1 = t1
    t2 = t2
    t3 = t3
    lock = lock
    cond = cond
    sem = sem
    NoThread = NoThread
    NoObject = NoObject
    Threads <- MCThreads
    MainThread = t1
    Semaphores = {sem}
    Devices = {sem}
    Locks = {lock}
    Conditions = {cond}
    initialValue <- MCInitialValue
    conditionLock <- MCConditionLock
    tid <- MCTid
    MaxValue = 2
SPECIFICATION FairSpec
INVARIANTS OnePlace AssertsHold MutualExclusion NoLostWakeup
PROPERTIES MonitorSpec ReadyRuns FreeLockIsTaken
CHECK_DEADLOCK FALSE
