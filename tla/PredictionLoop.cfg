SPECIFICATION FairSpec
CONSTANTS
    Routes = 2
    Debounce = 2
    Interval = 4
    MaxChanges = 3
    MaxFaults = 2
INVARIANTS
    IntervalKept
    CycleIsComplete
    TriggerIsPending
PROPERTIES
    CyclesHaveCause
    EventuallyPredicted
    ShutdownEnds
CHECK_DEADLOCK FALSE
