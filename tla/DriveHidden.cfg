SPECIFICATION DriveSpec
CONSTANTS
    Capacity = 6
    Sector = 2
    Chunk = 4
    Clips = FALSE
    Faults <- NoFaults
    Foreign = FALSE
    MaxNative = 8
    Ratios <- Only512
    Registers = 4
    Lba28 = 16
    DetectFaults <- NoFaults
INVARIANT SufficientMeansErased
CHECK_DEADLOCK FALSE
