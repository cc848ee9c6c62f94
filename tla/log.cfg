SPECIFICATION Spec
CONSTANTS
    Workers = {w1, w2}
    Messages = {m1, m2, m3, m4}
    Empties = {e1}
    LIMIT = 1
    MaxClock = 1
    MaxDeaths = 1
    MaxFailures = 1
SYMMETRY Symmetric
INVARIANTS
    TypeOK
    LinesKept
    DatagramsKnown
    FileBounded
