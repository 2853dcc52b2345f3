CONSTANTS
    MaxBalance = 2
    MaxSignatures = 2
    MaxDecisions = 2
    MaxAttempts = 1
    PollLimit = 1
    MaxCrashes = 1
    MaxOperatorOps = 1
    MaxIoErrors = 1
    Reasons = {"exit", "wide"}
    GateStates = {TRUE}
SPECIFICATION Spec
INVARIANTS
    TypeOK
    LandableIsOnDisk
    FillsAccounted
    SoldOncePerDecision
    LedgerTruthful
    BookedOnce
