CONSTANTS
    N = 3
    t1 = t1
    t2 = t2
    cb1 = cb1
    cb2 = cb2
    pl1 = pl1
    Threads = {t1, t2}
    NoThread = NoThread
    Cbs = {}
    Payloads = {pl1}
    Statuses = {"SUCCESS", "ERROR"}
    U32 = 4
    MaxRef = 2
    MaxAllocs = 3
    Ops = {"create", "merge", "signal", "payload"}
    Disciplined = TRUE
SPECIFICATION Spec
SYMMETRY Symmetric
PROPERTIES PayloadAtSignalTime
