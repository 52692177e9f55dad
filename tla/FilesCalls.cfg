SPECIFICATION Spec
CONSTANTS
    Process = {"p1", "p2"}
    First = "p1"
    MaxFiles = 1
    MaxFd = 1
    MaxOpen = 2
    PageSize = 2
    MaxWrites = 2
    WriteSizes = {1, 3}
    ReadSizes = {1, 3}
    Offsets = {2}
    MaxPosition = 2
INVARIANTS
    TypeOK
    BoundsHold
    DataMoved
    SoleDescriptor
PROPERTIES
    PositionsApart
CHECK_DEADLOCK FALSE
