CONSTANTS
    Node = {n1, n2, n3, n4}
    NULL = NULL
    Key = {1, 2, 3, 4, 5}
    Copy = {"x", "y"}
    Value = {"a", NULL}
    Offered <- MCOffered
    PRIMES <- MCPrimes
    FixedSizes = {2}
    SIZE_MAX = 4
    PointerSize = 1
    UINT32_MAX = 4
SYMMETRY Symmetry
SPECIFICATION Spec
INVARIANTS
    Placed
    PairRefers
    LoadBounded
PROPERTY IsMap
\* A table that has no further size ends the process.
CHECK_DEADLOCK FALSE
