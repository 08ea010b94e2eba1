CONSTANTS
    Key = {1, 2, 3, 4, 5, 6}
    Copy = {"x", "y"}
    Value = {"a", NULL}
    NULL = NULL
    Offered <- MCOffered
    InitialSize = 2
    ASSOC_ARRAY_MAX_SIZE = 5
SPECIFICATION Spec
INVARIANTS
    ArrayShape
    SearchBrackets
    PairRefers
PROPERTIES
    SearchEnds
    IsMap
\* An array that exceeds its limit ends the process.
CHECK_DEADLOCK FALSE
