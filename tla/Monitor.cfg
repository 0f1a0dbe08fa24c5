SPECIFICATION FairSpec
CONSTANTS
    BufRecords = 2
    MaxUsn = 6
    MaxJournals = 2
    MaxSessions = 3
    Env <- AllEvents
INVARIANTS
    TypeOK
    EventsInOrder
    ReadMeansLogged
PROPERTIES
    ImplementsChangeLog
    StopIsObeyed
    ReadableRecordsLogged
CHECK_DEADLOCK FALSE
