\* Two goroutines, two keys with distinct hashes, a queue that fills up.
CONSTANTS
    Threads = {t1, t2}
    Keys = {k1, k2}
    k1 = k1
    k2 = k2
    KeyHash <- MCKeyHashDistinct
    Values = {v1}
    TTLs = {0, 1, 2}
    Cap = 3
    MaxTime = 2
    MaxOps = 2
    NoThread = NoThread
    NotFound = NotFound
    Corrupt = Corrupt

SPECIFICATION Spec
INVARIANT TypeOK
INVARIANT LiveSlotsIndexed
PROPERTY CacheRefinement
CHECK_DEADLOCK FALSE
