SPECIFICATION Spec
CONSTANTS
    N = 2
    Poll = 1
    Base = 1
    MaxBackoff = 8
    StopWait = 1
    JoinWait = 1
    MaxDeaths = 3
    MaxFaults = 0
PROPERTIES
    ExponentialBackoff
CHECK_DEADLOCK FALSE
