CONSTANTS
    XLEN = 3
    BTB_SIZE = 2
    BHR_SIZE = 1
    Reg <- MCReg
    Programs <- MCEveryProgram
    Memories <- MCMemories
    GshareModes = {0, 1}

SPECIFICATION Spec

INVARIANT PredictionIsBehindBranch
INVARIANT ForwardedIsWritten
PROPERTY ImplementsISA
PROPERTY KeepsRetiring
