SPECIFICATION Spec
CONSTANTS
    None = None
    AlightNum = 1
    AlightDen = 2
    OccupancyNum = 9
    OccupancyDen = 10
    ConfidenceNum = 2
    ConfidenceDen = 3
    MinStranded = 5
    Snapshots <- MCSnapshots
INVARIANTS
    TypeOK
    Conservation
    LoadBound
    NoStrandedWithRoom
    FrontFirst
    VehiclesAccounted
    StrandingIsReported
