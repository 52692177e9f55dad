SPECIFICATION Spec
CONSTANTS
    Process = {"p1", "p2"}
    Size = 4
    Width = 2
    Height = 2
    Keys = {"letter", "enter", "arrow", "l_shift", "r_shift", "windows"}
    Texts <- SomeTexts
    ReadSizes = {2}
    Timeouts = {0, 2}
    Budgets <- SomeBudgets
INVARIANTS
    KeysInOrder
    OutputsAgree
PROPERTIES
    CallsReturn
CHECK_DEADLOCK FALSE
