SPECIFICATION FairSpec
CONSTANTS
    MaxProcs = 4
    Quantum = 1
    ExitCodes = {3}
    WaitOutcomes = {"reload"}
PROPERTIES
    EveryoneRuns
    WaitpidReturns
