SPECIFICATION FairSpec
CONSTANTS
    BufRecords = 2
    MaxUsn = 3
    MaxJournals = 2
    MaxSessions = 1
    Env <- OnlyTrim
PROPERTY NewRecordsLogged
CHECK_DEADLOCK FALSE
