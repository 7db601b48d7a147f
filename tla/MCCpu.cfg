SPECIFICATION Spec
INVARIANTS OwnPages RegistersSound
PROPERTIES  StartsLoaded CallsResume ExactArithmetic
CHECK_DEADLOCK FALSE
CONSTANTS
    ByteBits = 3
    PageSize = 16
    NumPhysPages = 10
    Threads = {0, 1, 2}
    NULL = NULL
    UserStackSize = 24
    ThreadStackSize = 8
    MaxString = 2
    Results = {0, 4095}
    Garbage = {0, 77}
    Fields <- MCFields
    BootPrograms <- MCBootPrograms
    Programs <- MCPrograms
    Strings <- MCStrings
