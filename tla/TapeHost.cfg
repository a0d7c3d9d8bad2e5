SPECIFICATION Spec
CONSTANTS
    BlockSize = 2
    BlockMod = 3
    MaxFaults = 0
    FaultKinds = {}
    NumFiles = 7
    FileLen <- MCFileLen
    SeqMod = 3
    ReqFiles = {1, 2, 5, 6, 9}
    ReqOffsets = {0, 1, 2}
    ReqCounts = {0, 1, 2, 4}
    ReqVersions = {1, 2, 3}
PROPERTIES NoGap RetryIdempotent
