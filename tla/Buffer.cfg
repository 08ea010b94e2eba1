\* size_t of 5 bits: the largest legal buffer makes the doubling overflow.
CONSTANTS
    NL = NL
    Byte = {NL, x}
    SIZE_BITS = 5
    InitialSize = 4
    MaxSizes = {1, 2, 3, 4, 5, 6, 7, 8, 9, 10, 11, 12, 13, 14}
    Chunks <- MCChunks
    DstSizes = {0, 2}
    MaxWritten <- MCMaxWritten
    TextSizes = {3, 5}
    TextWritten = 7
    LongWritten = 16
SPECIFICATION Spec
INVARIANTS
    StringTerminated
    NothingLost
    FitsMemory
PROPERTIES
    OneLineAtATime
    InvalidIsSilent
