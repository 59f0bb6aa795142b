SPECIFICATION FeedSpec
CONSTANTS
    a1 = a1
    a2 = a2
    b1 = b1
    x1 = x1
    Trip <- MCTrip
    Stop <- MCStop
    RouteOf <- MCRouteOf
    Arrival <- MCArrival
    Agency <- MCAgency
    DayLength = 24
    MinEta = 2
    Window = 3
    MinGap = 1
    Retain = 2
    StartTime = 22
    EndTime = 26
    MaxCount = 5
    MaxFaults = 1
INVARIANTS
    OverlapHasCause
    SplitConserves
PROPERTIES
    VehiclesAdvance
CHECK_DEADLOCK FALSE
