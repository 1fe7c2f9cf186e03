SPECIFICATION FairSpec
CONSTANTS
    a1 = a1
    k1 = k1
    s1 = s1
    Procs = {p1, p2}
    Accounts = {a1}
    ModeOf <- OneDraft
    Keys = {k1}
    TargetsOf <- OneTarget
    SourceOf <- OneSource
    Sources = {s1}
    MaxJobs = 1
    MaxLogins = 2
    MaxChecks = 1
    MaxEpochs = 2
    Movers = {}
INVARIANTS
    ExecutionSound
PROPERTIES
    CancelBeforeDispatch
    RunningEnds
CHECK_DEADLOCK FALSE
