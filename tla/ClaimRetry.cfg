CONSTANTS
    k1 = k1
    Key <- MCKey
    MaxRecords = 2
    Reserved = 1
    MaxAttempts = 3
    MaxReservations = 4
    MaxJournal = 9
    MaxExtras = 1
    MaxFaults = 0
    MaxStarts = 1
SPECIFICATION Spec
INVARIANT RetryKeepsSchedule
CHECK_DEADLOCK FALSE
