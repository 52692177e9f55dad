SPECIFICATION Spec
CONSTANTS
    MaxProcs = 4
    Quantum = 1
    ExitCodes = {3}
    WaitOutcomes = {"reload", "elide"}
INVARIANTS
    TypeOK
    KernelAsserts
    InterruptDiscipline
    WaitsAreOrdered
    StatusesReachWaiters
    StatusOfExited
PROPERTIES
    ExitIsFinal
    TakesTurns
