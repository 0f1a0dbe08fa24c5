SPECIFICATION Spec
CONSTANTS
    log = log
    copy = copy
    Path <- Both
    Scanner = {s1, s2}
    Marks <- MCMarks
    Untimed <- OnlyCopy
    Sizes = {0, 2}
    LogLimit = 1
    StaleAfter = 1
    Start = 2
    MaxClock = 3
INVARIANTS
    TypeOK
    UsedSinceRead
    ReportPartition
PROPERTIES
    UnusedAreSuggested
SYMMETRY Symmetry
CONSTRAINT ScansMatter
