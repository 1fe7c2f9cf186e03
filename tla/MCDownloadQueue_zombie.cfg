SPECIFICATION Spec
CONSTANTS
    s1 = s1
    s2 = s2
    s3 = s3
    MAX_ATTEMPTS = 2
    Jobs = {1}
    Platforms = {"x"}
    PlatformOf <- SamePlatform
    Workers = {"w1", "w2"}
    Slots = {s1, s2, s3}
    WorkerOf <- TwoWorkers
    MAX_ACTIVE_JOBS = 2
    RateLimitThreshold = 2
    BrokenThreshold = 2
    Errors = {"network_error"}
    MaxGeneration = 2
SYMMETRY SlotSymmetry
INVARIANTS
    LeasesSound
PROPERTIES
    CancelWins
