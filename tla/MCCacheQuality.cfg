SPECIFICATION Spec
CONSTANTS
    Lines = {L1, L2, L3}
    Ways = 2
    MaxIssued = 3
    MaxDemands = 3
INVARIANTS TracksResident Accounted  PollutionByDVR
SYMMETRY Symmetry
CHECK_DEADLOCK FALSE
