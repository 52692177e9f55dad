SPECIFICATION Spec
CONSTANTS
    PageSize = 4096
    PageCount = 16
    MajorSize = 24
    MinorSize = 24
    Alignment = 16
    AlignInfo = 16
    Process = {p, q}
    p = p
    q = q
    Requests = {20001, 20017, 70001}
    MaxLive = 3
    MaxTogether = 2
    FirstPage = 4096
    LastPage = 200704
    WaitOutcomes = {"reload", "hoist"}
SYMMETRY Symmetry
INVARIANTS
    LockHeld
    BlocksApart
    Consistent

