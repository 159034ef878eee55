SPECIFICATION Spec
CONSTANTS
    Width = 4
    Programs <- MCPrograms
    MaxLanes = 4
    MaxAhead = 5
INVARIANTS NeverPastEnd CoversLoop
CHECK_DEADLOCK FALSE
