SPECIFICATION Spec
CONSTANTS
    A = A
    B = B
    C = C
    PCs <- MCPCs
    NoPC = NoPC
    Regs = {}
    NumEntries = 2
    MaxSeq = 3
SYMMETRY Symmetry
INVARIANTS
    ConfidenceHasStride
PROPERTY
    ImplementsTable
CHECK_DEADLOCK FALSE
