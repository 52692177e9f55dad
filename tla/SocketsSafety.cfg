SPECIFICATION Spec
CONSTANTS
    Process = {"p1", "p2"}
    Inherited <- ServerAndClients
    Server = "server"
    Client = {"c1", "c2"}
    Accepted = {"a1", "a2"}
    None = "null"
    MaxUnits = 2
    BlockSizes = {2}
    ReadSizes = {1}
    Backlogs = {1}
    PastRace = FALSE
INVARIANTS
    TypeOK
    UnlockedByRace
    DeliveredOnce
    LinkKeeps
CHECK_DEADLOCK FALSE
