CONSTANTS
    p = p
    c1 = c1
    c2 = c2
    x = x
    y = y
    A = A
    B = B
    E = E
    Clients = {p, c1, c2}
    Producers = {p}
    Waiters = {c1, c2}
    Resetters = {p, c1}
    Fences = {x, y}
    Arrays = {A, B, E}
    NoKey = NoKey
    NoClient = NoClient
    JoinClient = JoinClient
    Entries = 4
    Hash <- MCHash
    Configs <- MCConfigs
    MaxWaits = 1
    QuietReset = TRUE
SPECIFICATION FairSpec
INVARIANTS TypeOK NoLostWait JoinCounts JoinSound
PROPERTIES FindsPresent WaitersServed
CHECK_DEADLOCK FALSE
