CONSTANTS
    MaxPid = 3
    ProcMax = 3
    ExitArgs = {0, 1}
    Failures = TRUE
    Disciplined = FALSE
SPECIFICATION Spec
INVARIANTS LocksReleased CodesSound NoLostExit StatusSound
CHECK_DEADLOCK FALSE
