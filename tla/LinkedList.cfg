CONSTANTS
    t1 = t1
    t2 = t2
    NoThread = NoThread
    Threads = {t1, t2}
    MaxNodes = 4
    Keys = {1, 2}
    KeyMin <- MCKeyMin
    Trees = {"dvz", "vud"}
SPECIFICATION Spec
INVARIANT ListSound
PROPERTY ImplementsSortedList
