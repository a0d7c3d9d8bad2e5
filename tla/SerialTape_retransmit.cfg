SPECIFICATION Spec
CONSTANTS
    BlockSize = 2
    BlockMod = 256
    NumFiles = 4
    FileLen <- MCFileLen
    SeqMod = 8
    MemTop = 5
    MaxFaults = 1
    FaultKinds = {"payload"}
    MaxErrors = 10
    OpenFiles = {2}
    Counts = {4}
    SpaceCounts = {1}
    MaxCalls = 2
INVARIANTS RetransmissionReplaces
CHECK_DEADLOCK FALSE
