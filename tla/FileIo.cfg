SPECIFICATION Spec
CONSTANTS
    Files = {f, g}
    NBlocks = 5
    BSIZE = 2
    NINDIR = 2
    NADDR = 4
    MaxCount = 3
    MaxOffset = 30
    MaxFailures = 1
    Data <- MCData
    Totals = {5}
    Distances = {0, 5, 13, 28}
    Paths <- MCPaths
    Host <- MCHost
    HostBuf = 4
    Lists <- MCLists
    ReadFails = {"taperestore"}
    MaxCalls = 5
SYMMETRY FileSymmetry
INVARIANTS BlocksOwnedOnce 
PROPERTIES FileSpec
CHECK_DEADLOCK FALSE
