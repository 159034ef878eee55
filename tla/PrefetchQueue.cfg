SPECIFICATION FairSpec
CONSTANTS
    Bases = {0, 1}
    Targets = {2, 3, 5}
    Unmapped = {1}
    Demands = {0, 1}
    LineBytes = 4
    AccessBytes = 2
    MaxLanes = 2
    MaxQueued = 2
    LoadQueueCapacity = 2
    Generations = {1}
    MaxReplaying = 1
    MaxParked = 1
INVARIANTS TypeOK NoStaleKeys  LaneHasRequest
PROPERTY GenerationReported
