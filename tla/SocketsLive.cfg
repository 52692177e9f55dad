SPECIFICATION FairSpec
CONSTANTS
    Process = {"p1", "p2"}
    Inherited <- SharedServer
    Server = "server"
    Client = {"c1"}
    Accepted = {"a1"}
    None = "null"
    MaxUnits = 2
    BlockSizes = {1, 2}
    ReadSizes = {1}
    Backlogs = {1}
    PastRace = FALSE
INVARIANTS
    LinkIsFifo
PROPERTIES
    LocksReleased
    DataIsRead
CHECK_DEADLOCK FALSE
