CONSTANTS
    MaxBalance = 3
    MaxSignatures = 1
    MaxDecisions = 1
    MaxAttempts = 2
    PollLimit = 1
    MaxCrashes = 1
    MaxOperatorOps = 0
    MaxIoErrors = 0
    Reasons = {"exit"}
    GateStates = {TRUE}
SPECIFICATION Spec
INVARIANTS
    SignedFillIsSettled
