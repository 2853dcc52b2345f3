CONSTANTS
    MaxBalance = 1
    MaxSignatures = 2
    MaxDecisions = 2
    MaxAttempts = 2
    PollLimit = 1
    MaxCrashes = 2
    MaxOperatorOps = 2
    MaxIoErrors = 0
    Reasons = {"dispose"}
    GateStates = {TRUE, FALSE}
SPECIFICATION FairSpec
INVARIANTS
    HeldPagedOnce
    DisposeOneShot
PROPERTIES
    OneOrderInFlight
    FailedIntentNotReplayed
    ProcessReturns
