CONSTANTS
    NULL = NULL
    XLEN = 3
    ROB_SIZE = 4
    NUM_RSS = 2
    CHECKPOINT_SIZE = 2
    FETCH_LATENCIES = {1, 3}
    Instr <- MCWord
    Value <- MCWord
    RS_Instr <- MCWord
    RS_Value <- MCWord
    Reg <- MCReg
    Programs <- MCSpeculative

SPECIFICATION CoreSpec

INVARIANT WindowIsLive
INVARIANT TagsAreConsecutive
INVARIANT YoungerIsProgramOrder
INVARIANT FreeEntriesAreListed
INVARIANT RatIsLatestWriter
INVARIANT CheckpointsAreOwned
INVARIANT OneResultEach
INVARIANT StationsHaveOperands
PROPERTY ImplementsWindow
PROPERTY ImplementsISA
PROPERTY KeepsRetiring
