CONSTANTS
    MaxPid = 4
    ProcMax = 3
    ExitArgs = {1}
    Failures = FALSE
    Disciplined = TRUE
SPECIFICATION FairSpec
INVARIANTS NoPanic TableSound
 
CHECK_DEADLOCK FALSE
