SPECIFICATION Spec
CONSTANTS
    NBUF = 2
    FsSize = 3
    DskSize = 0
    Data = {0, 1}
    Zero = 0
    MaxIoErrors = 1
INVARIANTS ReadsContent NeverSleeps
PROPERTIES SyncCommits StoreSpec LoopsEnd
