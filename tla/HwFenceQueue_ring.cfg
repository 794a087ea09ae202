CONSTANTS
    d1 = d1
    d2 = d2
    svm = svm
    p1 = p1
    p2 = p2
    Configs <- MCConfigs
    Client = d1
    Drivers = {d1, d2}
    Svm = svm
    Slots = 3
    Dwords = 4
    Payload = {p1, p2}
    NoPayload = NoPayload
    MaxIter = 2
SPECIFICATION FairSpec
INVARIANTS TypeOK ReaderHoldsHead LockExclusion
PROPERTIES FifoSpec Drained SvmGetsLock
