CONSTANTS
    block_size = 2
    MaxBlocks = 4
SPECIFICATION Spec
INVARIANTS
    Accounting
    FreeListShape
    NoWaste
PROPERTY IsAllocator
