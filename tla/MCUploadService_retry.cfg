SPECIFICATION Spec
CONSTANTS
    a1 = a1
    k1 = k1
    s1 = s1
    Procs = {p1}
    Accounts = {a1}
    ModeOf <- OnePublish
    Keys = {k1}
    TargetsOf <- OneTarget
    SourceOf <- OneSource
    Sources = {s1}
    MaxJobs = 3
    MaxLogins = 1
    MaxChecks = 0
    MaxEpochs = 2
    Movers = {p1}
INVARIANTS
    NoDuplicateUpload
    EvidenceHeld
CHECK_DEADLOCK FALSE
