CONSTANTS
    N = 3
    t1 = t1
    t2 = t2
    cb1 = cb1
    cb2 = cb2
    pl1 = pl1
    Threads = {t1, t2}
    NoThread = NoThread
    Cbs = {cb1}
    Payloads = {pl1}
    Statuses = {"SUCCESS", "ERROR"}
    U32 = 4
    MaxRef = 1
    MaxAllocs = 3
    Ops = {"create", "merge", "signal", "register", "wait", "payload", "unpayload", "deregister", "inline", "getref", "putref"}
    Disciplined = TRUE
SPECIFICATION FairSpec
INVARIANTS WaitVerdict RemainingCounts GroupComplete CallbackOnce NoneLeftBehind
PROPERTIES VerdictStable CallbackRuns
