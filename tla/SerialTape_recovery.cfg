SPECIFICATION FairSpec
CONSTANTS
    BlockSize = 2
    BlockMod = 256
    NumFiles = 4
    FileLen <- MCFileLen
    SeqMod = 8
    MemTop = 5
    MaxFaults = 2
    FaultKinds = {"lose", "noise", "payload", "request", "short"}
    MaxErrors = 2
    OpenFiles = {2, 3}
    Counts = {2, 4}
    SpaceCounts = {0, 1}
    MaxCalls = 5
INVARIANTS CommittedWasDelivered CallExact InOrder
PROPERTIES CallReturns TapeSpec
CHECK_DEADLOCK FALSE
