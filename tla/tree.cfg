SPECIFICATION Spec
CONSTANTS
    Count = 8
    Nodes <- MCNodes
    KeysOf <- MCKeysOf
    NIL = NIL
    NULL = NULL
INVARIANTS
    TypeOK
    PointersSound
    RedBlack
PROPERTIES
    ImplementsQueue
    RoundsClimb
