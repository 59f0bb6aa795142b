SPECIFICATION Spec
CONSTANTS
    N = 3
    Poll = 1
    Base = 2
    MaxBackoff = 3
    StopWait = 2
    JoinWait = 2
    MaxDeaths = 5
    MaxFaults = 1
INVARIANTS
    RestartedInTime
PROPERTIES
    NoneLeftRunning
CHECK_DEADLOCK FALSE
