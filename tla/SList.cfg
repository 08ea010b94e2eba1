CONSTANTS
    Node = {n1, n2, n3, n4, n5}
    NULL = NULL
    HEAD = HEAD
    FREED = FREED
    Keys = {1, 2}
    SIZE_MAX = 4
    MaxInserts = 5
SYMMETRY Symmetry
SPECIFICATION Spec
INVARIANTS
    WellLinked
    MatchesReference
    Ownership
