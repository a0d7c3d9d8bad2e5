SPECIFICATION Spec
CONSTANTS
    Names = {a, b}
    Depth = 2
    MaxIno = 4
    NBlocks = 4
    DirPerBlk = 3
    NICINOD = 1
    NINODE = 4
    NOFILE = 1
    Careless = {}
SYMMETRY NameSymmetry
INVARIANTS Accounts NoneHeld WellFormed
PROPERTIES RefusedUndone
