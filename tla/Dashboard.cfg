SPECIFICATION FairSpec
CONSTANTS
    c1 = c1
    c2 = c2
    s1 = s1
    s2 = s2
    Socket <- Sockets
    Slot <- Slots
    MaxChanges = 2
    MaxFaults = 1
INVARIANTS
    ChangeIsPending
    StaleHasCause
    ListIsAccurate
PROPERTIES
    ChangeIsServed
CHECK_DEADLOCK FALSE
