CONSTANTS
    NULL = NULL
    ROB_SIZE = 4
    WINDOW = 4
    NUM_LSQS = 3
    CAPACITY = 2
    Address <- MCAddress
    Byte <- MCByte
    Instr <- MCInstr
    Mixes <- MCSpeculation

SPECIFICATION MixSpec

INVARIANT AnswersHaveTheirSlot
