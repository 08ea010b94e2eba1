CONSTANTS
    Thread = {t1, t2, t3}
    NULL = NULL
    SIZE_MAX = 2
    MaxCalls = 5
SPECIFICATION FairSpec
INVARIANTS
    TypeOK
    WaitingCount
    NoStrandedItem
    ExactlyOnceInOrder
PROPERTIES
    Linearizable
    CallsReturn
    SleeperMeetsItem
\* A consumer may wait for an item for ever.
CHECK_DEADLOCK FALSE
