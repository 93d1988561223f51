CONSTANTS
    p1 = p1
    p2 = p2
    v1 = v1
    Procs = {p1, p2}
    First = p1
    Vnodes = {v1}
    MaxPos = 1
    CloseFds = {3, 4}
    DupFds <- MCDupFds
    IoFds = {1, 3, 4}
    AccessModes = {{"r"}}
    Settings <- MCSettings
SPECIFICATION Spec
INVARIANTS VnodeCovered GlobalTableSound NoUseAfterClose NoStuckCall
PROPERTY ImplementsDescriptors
CHECK_DEADLOCK FALSE
