SPECIFICATION Spec
CONSTANTS
    Sizes <- MCSizes
    ChainMax = 2
    SockBuf = 3
    LowWater = 2
    MaxSends = 5
PROPERTY StreamInOrder
CHECK_DEADLOCK FALSE
