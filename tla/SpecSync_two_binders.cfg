CONSTANTS
    t1 = t1
    t2 = t2
    w1 = w1
    a1 = a1
    a2 = a2
    f1 = f1
    f2 = f2
    Threads = {t1, t2}
    Waiters = {w1}
    Arrays = {a1, a2}
    NoArray = NoArray
    Shapes <- MCShapes
    FdLists <- MCFdLists
    Fences = {f1, f2}
    Dummy = Dummy
    BadFd = BadFd
    MaxFences = 2
    MaxDevices = 1
    MaxOpens = 2
    OneBinder = FALSE
SPECIFICATION Spec
INVARIANTS DummyRefs
CHECK_DEADLOCK FALSE
