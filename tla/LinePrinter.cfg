SPECIFICATION FairSpec
CONSTANTS
    Programs = {p1, p2}
    Text = {"a", "nl", "ff", "bs", "sp", "cr", "tab", "parity"}
    Types = {0,1,2,3}
    Params <- MCParams
    Hiwat = 1
    Lowat = 0
    Ind = 1
    Line = 2
    Col = 3
    Widest = 3
    MaxChars = 3
    MaxOpens = 2
INVARIANTS HeadKnown QueueBound
PROPERTIES Served
CHECK_DEADLOCK FALSE
