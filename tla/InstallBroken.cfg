SPECIFICATION Spec
CONSTANTS
    factory = factory
    better = better
    unusable = unusable
    Model <- MCModel
    Loadable <- MCLoadable
    Factory = factory
    None = None
    Torn = Torn
    MaxInstalls = 1
    MaxFailures = 1
    MaxCrashes = 0
INVARIANTS
    NeverLeftBroken
CHECK_DEADLOCK FALSE
