CONSTANTS
    N = 3
    t1 = t1
    t2 = t2
    cb1 = cb1
    cb2 = cb2
    pl1 = pl1
    Threads = {t1, t2}
    NoThread = NoThread
    Cbs = {cb1}
    Payloads = {pl1}
    Statuses = {"SUCCESS"}
    U32 = 4
    MaxRef = 1
    MaxAllocs = 3
    Ops = {"create", "merge", "signal", "destroy", "nomem", "register", "close"}
    Disciplined = FALSE
SPECIFICATION Spec
SYMMETRY Symmetric
INVARIANTS TypeOK RowOwnership FreeRowClean ParentLinksSound CallbackOnce
CHECK_DEADLOCK FALSE
CONSTRAINT GroupsOrCallbacks
