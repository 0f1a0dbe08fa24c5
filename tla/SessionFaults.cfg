SPECIFICATION Spec
CONSTANTS
    Dir = "dir"
    Cert = "cert"
    Lines <- Mixed
    Options <- MCOptions
    Methods <- MCMethods
    Files = 3
    MaxRuns = 3
    MaxClock = 3
    Faults <- AllFaults
INVARIANTS
    TypeOK
    CertificateIsOfARun
    NothingReportedTwice
    SavedIsOfThisRun
PROPERTIES
    LineIsObeyed
CHECK_DEADLOCK FALSE
