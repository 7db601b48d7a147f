CONSTANTS
    NumPhysPages = 3
    MaxPages = 2
    MaxForks = 3
SPECIFICATION FairSpec
INVARIANTS OwnFramesAndPid ForksCounted NoMissedExit
PROPERTY MachineHalts
CHECK_DEADLOCK FALSE
