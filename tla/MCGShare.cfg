CONSTANTS
    XLEN = 3
    BTB_SIZE = 2
    BHR_SIZE = 2
    Branches <- MCBranches
    Steady <- MCSteady

SPECIFICATION Spec

INVARIANT TypeOK
INVARIANT NonBranchFallsThrough
INVARIANT SteadyTargetIsOwn
