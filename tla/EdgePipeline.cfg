SPECIFICATION FairSpec
CONSTANTS
    Commands <- AllCommands
    MaxFrames = 5
    MaxCommands = 3
    MaxFaults = 2
INVARIANTS
    LeakHasCause
    BoundedAfterStop
PROPERTIES
    StopHalts
CHECK_DEADLOCK FALSE
