SPECIFICATION FairSpec
CONSTANTS
    Files <- MCFiles
    Jobs = {"put", "get"}
    Retries = 2
    RecSiz = 1
    MaxFaults = 1
    MaxAborts = 1
    MaxDelays = 1
INVARIANTS  GetExact 
PROPERTIES Completes
CHECK_DEADLOCK FALSE
