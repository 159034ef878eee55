SPECIFICATION HSpec
CONSTANTS
    A = A
    B = B
    C = C
    r1 = r1
    NoPC = NoPC
    PCs <- MCPCs
    Regs <- MCRegs
    Insts <- MCInsts
    Allowed <- MCAllowed
    MaxInstructions = 3
    MaxUops = 2
    MaxSeq = 6
    Window = 3
INVARIANTS
    TypeOK
    WindowsAgree
    FLRIsRecorded
    IdleIsClean
    IdleIsArmed
PROPERTIES
    UndoIsComplete
    CompletedProgram
CHECK_DEADLOCK FALSE
