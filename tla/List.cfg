CONSTANTS
    Node = {n1, n2, n3, n4, n5}
    NULL = NULL
    FREED = FREED
    Keys = {1, 2}
    SIZE_MAX = 4
    MaxInserts = 5
SYMMETRY Symmetry
SPECIFICATION Spec
\* A process that has read at a null address has ended.
CHECK_DEADLOCK FALSE
INVARIANTS
    WellLinked
    MatchesReference
    Ownership
