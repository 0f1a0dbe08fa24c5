SPECIFICATION FairSpec
CONSTANTS
    f1 = f1
    f2 = f2
    File <- TwoFiles
    Denied <- NoFile
    Verify <- Either
    Method = "Dod3Pass"
    BufUnits = 2
    MaxUnits = 2
    Interfere <- Everything
INVARIANTS
    TypeOK
    SuccessMeansErased
    EveryFileAccounted
    BytesMatchErased
    VerifiedMeansGone
PROPERTIES
    ImplementsSecureErase
    UnlinkOnlyErased
    PassesInOrder
    Terminates
CHECK_DEADLOCK FALSE
