SPECIFICATION Spec
CONSTANTS
    MaxCounts = 2
    Inflight = 2
    MaxFaults = 2
    Commands <- StopAndPause
    MaxCommands = 2
INVARIANTS
    RewindHasCause
    StatusConverges
    PipelineFlagHasCause
CHECK_DEADLOCK FALSE
