CONSTANTS
    Node = {1, 2, 3, 4, 5, 6, 7, 8, 9, 10, 11, 12}
    NULL = NULL
    Keys = {1, 2, 3, 4, 5, 6, 7, 8, 9, 10, 11, 12}
    Values = {"a", "b"}
    SIZE_MAX = 11
    RBTREE_INITIAL_BLOCK_SIZE = 2
    AnyKeys = {1, 2, 3, 4, 5}
    AnyNodes = 5
    FewKeys = {1, 2, 3, 4}
SPECIFICATION MCSpec
INVARIANT InitializedIterIsUsable
