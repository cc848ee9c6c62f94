SPECIFICATION Spec
CONSTANTS
    Conns = {c1, c2}
    NoConn = NoConn
    TIMEOUTS = 1
    IntMax = 2
    MaxClock = 2
    MaxBack = 0
    MaxFailures = 1
SYMMETRY ConnSymmetry
INVARIANTS
    TypeOK
    NothingDangling
    FlagsTrue
    BacklogHasEdge
    NothingOverdue
