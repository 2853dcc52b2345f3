CONSTANTS
    evidence = evidence
    gap = gap
    Closure <- MCClosure
    SegId <- MCSegId
    Control <- MCControl
    SegLen = 2
    MaxTotal = 6
    ControlReserve = 3
    ReplicaTotal = 6
    MaxBreaks = 1
    MaxPower = 1
    MaxRot = 1
SPECIFICATION FairSpec
INVARIANTS
    SpoolTypeOK
    ReceiptsHold
    ReceiptsMatchSpool
    EvidenceLeavesReserve
PROPERTIES
    Replicated
CHECK_DEADLOCK FALSE
