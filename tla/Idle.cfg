SPECIFICATION WorkSpec
CONSTANTS
    Wrap = 7
    Second = 2
    Poll = 1
    UserThreshold = 2
    CpuThreshold <- NineTenths
    MaxSize = 3
    Word = 3
    CallFaults = {"stat", "open", "control", "size"}
INVARIANTS
    WorkTypeOK
    SavingsAreReal
PROPERTIES
    RunsOnlyWhenFoundIdle
    BlockingCallRuns
