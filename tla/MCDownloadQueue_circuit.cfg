SPECIFICATION FairSpec
CONSTANTS
    s1 = s1
    s2 = s2
    s3 = s3
    MAX_ATTEMPTS = 2
    Jobs = {1, 2}
    Platforms = {"x"}
    PlatformOf <- SamePlatform
    Workers = {"w1"}
    Slots = {s1}
    WorkerOf <- OneWorker
    MAX_ACTIVE_JOBS = 2
    RateLimitThreshold = 3
    BrokenThreshold = 2
    Errors = {"rate_limited", "extractor_broken"}
    MaxGeneration = 1
INVARIANTS
    CircuitGuardsPlatform
PROPERTIES
    NoJobStuck
