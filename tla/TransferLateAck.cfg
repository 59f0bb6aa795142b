SPECIFICATION Spec
CONSTANTS
    None = None
    d1 = d1
    d2 = d2
    empty = empty
    small = small
    medium = medium
    large = large
    Device <- TwoDevices
    Model <- SmallAndMedium
    Chunks <- MCChunks
    Filename <- MCFilename
    MaxDistributions = 2
    MaxCorruptions = 0
    MaxRestarts = 0
INVARIANTS
    SuccessMeansDelivered
CHECK_DEADLOCK FALSE
