SPECIFICATION Spec
CONSTANTS
    MaxProcs = 3
    Frames = 10
    Pages = 5
    TableSize = 2
    CodePages = {0}
    StackPages = {4}
    DevicePages = {3}
    MaxGrowth = 1
    Device = {0}
    Asked = {0}
    PastRace = FALSE
INVARIANTS
    FreedAreAllocated
