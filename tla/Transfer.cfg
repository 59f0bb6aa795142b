SPECIFICATION Spec
CONSTANTS
    None = None
    d1 = d1
    d2 = d2
    empty = empty
    small = small
    medium = medium
    large = large
    Device <- OneDevice
    Model <- EmptyMediumLarge
    Chunks <- MCChunks
    Filename <- MCFilename
    MaxDistributions = 3
    MaxCorruptions = 3
    MaxRestarts = 1
INVARIANTS
    InstallIntegrity
    AckTruthful
    NoLostAck
    ErrorAckNeedsDamage
    AnswerIsRight
PROPERTIES
    DistributionEnds
    EventuallyInstalled
CHECK_DEADLOCK FALSE
