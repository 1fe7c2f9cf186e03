SPECIFICATION FairSpec
CONSTANTS
    Items = {"i1", "i2"}
    MaxAttempts = 1
    Recoverers = {"r1", "r2"}
PROPERTIES
    PublishesAtomically
    LeftoversRemoved
CHECK_DEADLOCK FALSE
