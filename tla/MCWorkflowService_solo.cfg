SPECIFICATION FairSpec
CONSTANTS
    a = a
    b = b
    Procs = {a}
    Segments = 2
    Stages = 2
    Profiles <- SoloProfiles
    MaxActs = 2
    MaxFaults = 1
    MaxCrashes = 1
INVARIANTS
    RowReadable
    AuthorityHolds
    EndsAreTrue
PROPERTIES
    WorkflowSettles
CHECK_DEADLOCK FALSE
