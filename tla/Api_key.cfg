SPECIFICATION Spec
CONSTANTS
    t1 = t1
    t2 = t2
    a1 = a1
    a2 = a2
    Threads = {t1, t2}
    Admins = {a1, a2}
    TTL = 2
    MaxKeys = 3
    MaxTime = 5
    MaxFaults = 1
INVARIANTS
    AnswersFollowKey
    ReloadDropsKey
SYMMETRY Symmetry
CHECK_DEADLOCK FALSE
