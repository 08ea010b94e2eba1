CONSTANTS
    Node = {n1, n2, n3}
    NULL = NULL
    FREED = FREED
    Keys = {1, 2, 3}
    SIZE_MAX = 3
    MaxInserts = 3
SPECIFICATION Spec
CHECK_DEADLOCK FALSE
INVARIANT InsertedInPlace
