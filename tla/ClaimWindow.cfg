SPECIFICATION Spec
CONSTANTS
    MaxCodes = 1
    MaxSessions = 1
    MaxFailed = 1
    MaxIssued = 1
    CodeTtl = 1
    SessionTtl = 2
    AttemptWindow = 3
    IssueWindow = 1
    MaxTime = 3
    MaxFaults = 0
INVARIANT LaterEventsReuseWindow
