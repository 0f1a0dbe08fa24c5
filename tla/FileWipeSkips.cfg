SPECIFICATION Spec
CONSTANTS
    f1 = f1
    f2 = f2
    File <- TwoFiles
    Denied <- OneFile
    Verify <- Verifying
    Method = "NistClear"
    BufUnits = 2
    MaxUnits = 2
    Interfere <- Nobody
INVARIANT SuccessLeavesNoFile
CHECK_DEADLOCK FALSE
