SPECIFICATION FairSpec
CONSTANTS
    Sizes <- MCSizes
    ChainMax = 2
    SockBuf = 3
    LowWater = 2
    MaxSends = 5
INVARIANTS
    TypeOK
    ChainCovers
    FitsAllocation
    ListsBounded
    WakeupComes
PROPERTIES
    ChainDrains
CHECK_DEADLOCK FALSE
