CONSTANTS
    k1 = k1
    Key <- MCKey
    MaxRecords = 2
    Reserved = 1
    MaxAttempts = 2
    MaxReservations = 2
    MaxJournal = 8
    MaxExtras = 0
    MaxFaults = 1
    MaxStarts = 1
SPECIFICATION FairSpec
INVARIANTS
    GrantedKept
    AttemptsDistinct
PROPERTIES
    NothingDropped
CHECK_DEADLOCK FALSE
