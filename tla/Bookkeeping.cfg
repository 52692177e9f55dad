SPECIFICATION Spec
CONSTANTS
    Process = {"p1", "p2"}
    First = "p1"
    Ranges <- SomeRanges
    TableSize = 4
    Capacity = 4
    VectorPages = 2
    KernelEnds = {2, 3, 4}
    BlockSizes = {2}

    
PROPERTIES
    BootEnds
CHECK_DEADLOCK FALSE
