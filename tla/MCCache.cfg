CONSTANTS
    WORD = 2
    MEM_BLOCK_SIZE = 4
    SETS = 2
    WAYS = 2
    LINES = 5
    CAPACITY = 2
    Byte <- MCByte
    Requests <- MCRequests

SPECIFICATION Spec

INVARIANT LinesAgreeWithMemory
INVARIANT NoLineTwice
INVARIANT FillIsExpected
PROPERTY ImplementsFlatMemory
PROPERTY KeepsServing
