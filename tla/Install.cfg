SPECIFICATION FairSpec
CONSTANTS
    factory = factory
    better = better
    unusable = unusable
    Model <- MCModel
    Loadable <- MCLoadable
    Factory = factory
    None = None
    Torn = Torn
    MaxInstalls = 3
    MaxFailures = 2
    MaxCrashes = 2
INVARIANTS
    FileIsWhatRuns
    RunnableModelOnDisk
    FailedStartHasCause
PROPERTIES
    ImplementsHotSwap
    InferenceContinues
CHECK_DEADLOCK FALSE
