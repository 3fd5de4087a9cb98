CONSTANTS
    NULL = NULL
    ROB_SIZE = 4
    WINDOW = 3
    NUM_LSQS = 3
    CAPACITY = 1
    Address <- MCAddress
    Byte <- MCByte
    Instr <- MCInstr
    Mixes <- MCMixes

SPECIFICATION TimelySpec

INVARIANT CountIsRight
INVARIANT EntriesAreOwned
INVARIANT AnswersHaveTheirSlot
PROPERTY ImplementsMemoryOrder
PROPERTY NothingIsStuck
