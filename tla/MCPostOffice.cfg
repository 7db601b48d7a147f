SPECIFICATION FairSpec
CONSTANTS
    NumBoxes = 2
    MaxReemissions = 2
    MaxSegmentSize = 2
    Lengths = {3}
    MaxTime = 0
    MaxConnects = 1
    ClientSends = 1
    ServerSends = 0
    Lossy = TRUE
INVARIANT OneMessage
PROPERTIES ClientChannel 
CHECK_DEADLOCK FALSE
