SPECIFICATION Spec
CONSTANTS
    Runs = {"r1"}
    MaxActive = 1
    MaxClaims = 1
INVARIANTS
    GateBeforePipe
