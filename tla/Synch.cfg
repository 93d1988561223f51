CONSTANTS
    Threads = {t1, t2, t3}
    Locks = {l1, l2}
    CVs = {c1}
    Sems = {s1}
    NoThread = NoThread
    NoObj = NoObj
    MaxCount = 2
SPECIFICATION FairSpec
INVARIANTS TypeOK MutualExclusion AssertsHold LockWakeup SemWakeup
PROPERTIES ImplementsMonitor SignalsReachWaiters LockProgress SemProgress
CHECK_DEADLOCK FALSE
