SPECIFICATION Spec
CONSTANTS
    BlockSize = 2
    BlockMod = 256
    MaxFaults = 3
    FaultKinds = {"late", "lose", "noise", "payload", "request"}
    NumFiles = 2
    FileLen <- MCFileLen
    SeqMod = 8
    ReadSize = 2
    StreamLen <- MCStreamLen
    Records <- MCRecords
    MaxErrors = 2
    ReadCalls <- MCReadCalls
    MaxCalls = 3
INVARIANTS OnlyExactImagesRun RecordsInOrder
PROPERTIES NobodyWaits
CHECK_DEADLOCK FALSE
