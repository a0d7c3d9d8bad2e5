SPECIFICATION Spec
CONSTANTS
    NICFREE = 2
    ISize = 2
    FsSize = 6
    FN = 3
    FM = 2
    MaxTfree = 6
    MaxFailures = 1
    Junk <- FalseGroups
    MinFs = 5
    MaxFs = 13
    MinItable = 1
    MaxItable = 6
    MaxFn = 6
    NIPB = 2
    Ratio = 4
    MaxAuto = 6
INVARIANTS InDataArea BfreeCounts ListsDataBlocks
PROPERTIES TakesFree PoolSpec
