SPECIFICATION Spec
CONSTANTS
    NumArch = 2
    Trigger = 1
    Programs <- MCPrograms
    Branches <- MCBranches
    Copies = 2
    LanesPerCopy = 1
    NumScalar = 3
    NumVector = 4
    Values = {0, 1}
    Evaluate <- MCEvaluate
    VIRCapacity = 2
INVARIANTS Conservation CellsDistinct
PROPERTY LanePrivate
CHECK_DEADLOCK FALSE
