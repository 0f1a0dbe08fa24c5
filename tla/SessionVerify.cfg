SPECIFICATION Spec
CONSTANTS
    Dir = "dir"
    Cert = "cert"
    Lines <- Usual
    Options <- MCOptions
    Methods <- MCMethods
    Files = 1
    MaxRuns = 1
    MaxClock = 2
    Faults <- NoFaults
INVARIANT SavedCertificateVerifies
CHECK_DEADLOCK FALSE
