SPECIFICATION RootSpec
CONSTANTS
    Items = {"x1", "x2"}
    MaxAttempts = 2
    Recoverers = {"r1"}
    i1 = i1
    i2 = i2
    Inputs = {i1, i2}
    Targets = {"a1", "a2", "b1"}
    ItemOf <- PostItem
    Snapshots <- PostResults
    Others <- FailedBeside
    MaxGeneration = 2
    MaxProbes = 2
    Codes = {"q1", "q2"}
    MaxRefresh = 1
    HostLead = 2
    ChildLead = 1
    Dues = {0, 3}
    MaxOrders = 2
    MaxTime = 3
    Openers = {"o1", "o2"}
    MaxDeaths = 2
    Setups = {"s1", "s2"}
    MaxEnds = 2
    MaxDamages = 1
    MaxRemovals = 1
    JobStates = {"draft", "queued", "running", "failed"}
SYMMETRY RootSymmetry
INVARIANTS
    FilesTracked
    BackupConsistent
    GraphSound
    BridgeHonest
    SchemaSound
    RowsCarried
    SetupSound
PROPERTIES
    CancelSticks
CHECK_DEADLOCK FALSE
