CONSTANTS
    k1 = k1
    Key <- MCKey
    MaxRecords = 2
    Reserved = 1
    MaxAttempts = 2
    MaxReservations = 1
    MaxJournal = 8
    MaxExtras = 1
    MaxFaults = 2
    MaxStarts = 2
SPECIFICATION FairSpec
INVARIANTS
    SupervisorTypeOK
    OutcomeBacked
PROPERTIES
    EveryAttemptSettled
    SettledOnce
CHECK_DEADLOCK FALSE
