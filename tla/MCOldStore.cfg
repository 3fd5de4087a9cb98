CONSTANTS
    NULL = NULL
    ROB_SIZE = 2
    WINDOW = 2
    NUM_LSQS = 3
    CAPACITY = 2
    Address <- MCAddress
    Byte <- MCByte
    Instr <- MCInstr
    Mixes <- MCOvertaking

SPECIFICATION PromptSpec

PROPERTY ImplementsMemoryOrder
