SPECIFICATION Spec
CONSTANTS
    Process = {"p1", "p2"}
    Inherited <- ServerAndClients
    Server = "server"
    Client = {"c1", "c2"}
    Accepted = {"a1", "a2"}
    None = "null"
    MaxUnits = 1
    BlockSizes = {1}
    ReadSizes = {1}
    Backlogs = {1}
    PastRace = TRUE
INVARIANTS
    NeverUnlocked
CHECK_DEADLOCK FALSE
