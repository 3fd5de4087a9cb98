CONSTANTS
    XLEN = 3
    Reg <- MCReg
    Programs <- MCEveryProgram
    Memories <- MCMemories

SPECIFICATION Spec

INVARIANT FetchLockHasOwner
INVARIANT NothingBehindExit
INVARIANT OnlyDecodeWaits
PROPERTY ImplementsISA
PROPERTY KeepsRetiring
