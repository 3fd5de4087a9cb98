CONSTANTS
    WORD = 2
    MEM_BLOCK_SIZE = 4
    SETS = 1
    WAYS = 2
    LINES = 3
    CAPACITY = 2
    Byte <- MCByte
    Requests <- MCByteRequests

SPECIFICATION Spec

PROPERTY ImplementsFlatMemory
