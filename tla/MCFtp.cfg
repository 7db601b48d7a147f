SPECIFICATION FairSpec
CONSTANTS
    a = a
    b = b
    Sessions <- MCSessions
    Placements <- MCPlacements
    ServerAddr = 0
    Names = {"f"}
    MaxClients = 3
    MaxLost = 1
    MaxGrown = 1
INVARIANTS  OpenHasOneHolder
PROPERTIES  SessionsEnd
CHECK_DEADLOCK FALSE
