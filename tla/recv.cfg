SPECIFICATION FairSpec
CONSTANTS
    BufSize = 5
    HeaderSize = 2
    Layouts <- SmallLayouts
    Rests <- SmallRests
    SafeMemcpy = TRUE
INVARIANTS
    TypeOK
    Aligned
    UnreadDataHasEdge
    ShutdownMeansClosed
PROPERTIES
    ImplementsDelivery
    FramesHandled
    CloseReleases
CHECK_DEADLOCK FALSE
