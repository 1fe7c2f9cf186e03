SPECIFICATION ProcessesSpec
CONSTANTS
    Runs = {"r1", "r2"}
    MaxActive = 2
    MaxClaims = 2
    Streams = {"out", "err"}
    OutputLimit = 1
    MaxOutput = 2
    Clients = {"c1", "c2"}
    MaxConnections = 1
    Public = {"p1", "p2"}
    Private = {"q"}
    MaxUnits = 1
    Peers = {"d1", "d2"}
    MaxRelays = 1
    RelayUnits = 1
    IdleTicks = 2
    Urls = {"s", "h", "v", "w"}
    KindOf <- LinkKinds
    Batch <- LinkBatch
    MaxRedirects = 2
    MaxDns = 1
    Nonces = {1, 2}
    Lanes = {1, 2}
    ReplaySlots = {1, 2}
    Skew = 0
    Validity = 1
    MaxClock = 3
    MaxRepeats = 1
    Asks = {"k1"}
    OffersOf <- AiOffers
    NumLines = 3
    Weight <- CueWeight
    MaxBody = 2
    BatchLines = 2
    MaxUpdates = 2
    MaxTold = 5
    MaxDenied = 1
INVARIANTS
    OneWorker
    OutputWhole
    EgressSound
    LinksSound
    CallsHonest
PROPERTIES
    ClaimsGated
    RunSettles
    ProcessesEnd
