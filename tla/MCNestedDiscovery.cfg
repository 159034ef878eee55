SPECIFICATION Spec
CONSTANTS
    A = A
    B = B
    C = C
    NoPC = NoPC
    PCs <- MCPCs
    Loads <- MCLoads
    Regs = {}
    Encloses <- MCEncloses
    MaxInstructions = 4
    NDMMaxInsts = 5
    PaperOuterSearchInstructions = 5
    MaxOuterInvocations = 2
    NumProbes = 1
    MaxSeq = 7
    Window = 2
INVARIANTS
    NDMExcludesDiscovery
    ContextIsChild
    PlanIsWhole
SYMMETRY Symmetry
CHECK_DEADLOCK FALSE
