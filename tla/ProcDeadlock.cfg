CONSTANTS
    MaxPid = 2
    ProcMax = 2
    ExitArgs = {1}
    Failures = FALSE
    Disciplined = TRUE
SPECIFICATION Spec
INVARIANT NoDeadlock
CHECK_DEADLOCK FALSE
