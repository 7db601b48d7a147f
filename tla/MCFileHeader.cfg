SPECIFICATION Spec
CONSTANTS
    Files = {f, g}
    NumSectors = 11
    NumDirect = 3
    PerSector = 2
    SectorSize = 2
    FileSizes = {1, 3, 5, 9}
    Garbage = {4}
 
PROPERTY ContentsStay
CHECK_DEADLOCK FALSE
