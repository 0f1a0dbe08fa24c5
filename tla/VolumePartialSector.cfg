SPECIFICATION Spec
CONSTANTS
    Capacity = 5
    Sector = 2
    Chunk = 4
    Clips = FALSE
    Faults <- NoFaults
    Foreign = FALSE
INVARIANT HealthyVolumeCompletes
CHECK_DEADLOCK FALSE
