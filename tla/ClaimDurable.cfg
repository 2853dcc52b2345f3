CONSTANTS
    evidence = evidence
    gap = gap
    Closure <- MCClosure
    SegId <- MCSegId
    Control <- MCControl
    SegLen = 2
    MaxTotal = 6
    ControlReserve = 3
    ReplicaTotal = 6
    MaxBreaks = 1
    MaxPower = 1
    MaxRot = 0
SPECIFICATION Spec
INVARIANT AppendedIsDurable
CHECK_DEADLOCK FALSE
