\* One source more than slots: the first one changed, the others did not.
CONSTANTS
    t1 = t1
    t2 = t2
    t3 = t3
    Workers = {t1, t2}
    N = 5
    Unchanged = {2, 3, 4, 5}
    WorkCapacity = 2
    Capacity = 4
    MaxBatches = 3

SPECIFICATION FairSpec

PROPERTY ParseEnds
CHECK_DEADLOCK FALSE
