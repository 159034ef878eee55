SPECIFICATION Spec
CONSTANTS
    Bits = {b1, b2}
    Loads = {x, y, z}
    Lanes = {l1, l2}
    MaxRelations = 3
    MaxSamples = 6
INVARIANTS StableExact NotMisled DivergenceCounted TrainedIsSelected
SYMMETRY Renaming
CHECK_DEADLOCK FALSE
