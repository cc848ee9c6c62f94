SPECIFICATION FairSpec
CONSTANTS
    Conns = {c1}
    NoConn = NoConn
    TIMEOUTS = 2
    IntMax = 4
    MaxClock = 3
    MaxBack = 2
    MaxFailures = 1
PROPERTY Released
