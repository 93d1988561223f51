CONSTANTS
    t1 = t1
    t2 = t2
    Threads = {t1, t2}
    Names = {"a", "b"}
    Data = {1}
    Parts = 2
    NBLOCKS = 10
    SFS_NDIRECT = 1
    SFS_DBPERIDB = 2
    DirPerBlock = 1
    Writes <- MCWrites
    Bounds <- MCFewCalls
    MaxIo = 14
SPECIFICATION Spec
PROPERTY WriteReports
SYMMETRY Symmetry
CHECK_DEADLOCK FALSE
