CONSTANTS
    Threads = {t1, t2}
    Keys = {k1, k2}
    k1 = k1
    k2 = k2
    KeyHash <- MCKeyHashDistinct
    Values = {v1}
    TTLs = {0, 1, 2}
    Cap = 4
    MaxTime = 1
    MaxOps = 2
    NoThread = NoThread
    NotFound = NotFound
    Corrupt = Corrupt

SPECIFICATION Spec
INVARIANT GetReturnsStoredValue
CHECK_DEADLOCK FALSE
