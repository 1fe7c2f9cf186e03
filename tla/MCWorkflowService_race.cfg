SPECIFICATION Spec
CONSTANTS
    a = a
    b = b
    Procs = {a, b}
    Segments = 1
    Stages = 1
    Profiles <- RaceProfiles
    MaxActs = 2
    MaxFaults = 0
    MaxCrashes = 0
SYMMETRY ProcsSymmetry
PROPERTIES
    FenceHolds
    RefsStable
CHECK_DEADLOCK FALSE
