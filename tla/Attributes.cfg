CONSTANTS
    Objs <- MCObjs
    CharBits = 3
    ShortBits = 4
    WordBits = 6
    MaxTime = 2
    Root = "root"
    CallObj = "tool"
    Lists <- MCLists
    Existing <- MCExisting
    HostIds <- MCHostIds
    FsIds <- MCFsIds
    Modes <- MCModes
    Times <- MCTimes
    MaxMaps = 1
    MaxCalls = 4
    MaxFaults = 1

SPECIFICATION Spec

INVARIANTS StatTells ImageExact

CHECK_DEADLOCK FALSE
