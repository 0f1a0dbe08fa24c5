SPECIFICATION DriveSpec
CONSTANTS
    Capacity = 4
    Sector = 2
    Chunk = 4
    Clips = FALSE
    Faults <- AllFaults
    Foreign = TRUE
    MaxNative = 6
    Ratios <- SectorSizes
    Registers = 5
    Lba28 = 10
    DetectFaults <- DetectFailures
INVARIANTS
    DriveTypeOK
    CompletedMeansCovered
    PassFrontier
    HealthyVolumeCompletes
    AlarmMeansHidden
    SmallDriveExact
    ErasedOrTold
PROPERTIES
    Terminates
CHECK_DEADLOCK FALSE
