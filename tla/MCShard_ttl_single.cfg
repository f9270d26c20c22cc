CONSTANTS
    Threads = {t1}
    Keys = {k1, k2}
    k1 = k1
    k2 = k2
    KeyHash <- MCKeyHash
    Values = {v1}
    TTLs = {0, 1, 2}
    Cap = 4
    MaxTime = 3
    MaxOps = 4
    NoThread = NoThread
    NotFound = NotFound
    Corrupt = Corrupt

SPECIFICATION Spec
PROPERTY ExpiredEventuallyEvicted
PROPERTY NoPrematureEviction
