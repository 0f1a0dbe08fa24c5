SPECIFICATION FairSpec
CONSTANTS
    root = root
    dir = dir
    f1 = f1
    f2 = f2
    link = link
    Node <- Tree
    Root = root
    Parent <- ParentOf
    Dirs <- TreeDirs
    Links <- TreeLinks
    MaxSize = 1
    MaxScans = 2
    Faults <- AllFaults
    Changes <- AllChanges
INVARIANTS
    TypeOK
    FilesAccounted
    StatsMatchRows
PROPERTIES
    ScanEnds
CHECK_DEADLOCK FALSE
