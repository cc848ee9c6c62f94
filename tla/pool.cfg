SPECIFICATION Spec
CONSTANTS
    PoolSize = 6
    PoolHeader = 3
    BlockHeader = 2
    CellSize = 1
    MaxSmall = 6
    FailedMax = 0
    LargeScan = 1
    SizeMod = 4
    Addresses = {p1, p2}
    NULL = NULL
    Sizes = {2, 3}
    MaxBlocks = 5
    MaxCells = 3
    MaxReused = 2
    MaxFailures = 1
SYMMETRY AddressSymmetry
INVARIANTS
    TypeOK
    AreasDisjoint
    HeapAccounted
    ScanBounded
