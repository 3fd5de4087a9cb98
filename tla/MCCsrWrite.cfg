CONSTANTS
    XLEN = 3
    BTB_SIZE = 2
    BHR_SIZE = 1
    Reg <- MCReg
    Programs <- MCWritePrograms
    Memories <- MCMemories
    GshareModes = {0}

SPECIFICATION Spec

PROPERTY ImplementsISA
