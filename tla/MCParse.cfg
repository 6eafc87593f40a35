\* Two workers with the default capacity, and no more sources than slots.
CONSTANTS
    t1 = t1
    t2 = t2
    t3 = t3
    Workers = {t1, t2}
    N = 4
    Unchanged = {2, 4}
    WorkCapacity = 2
    Capacity = 4
    MaxBatches = 3

SPECIFICATION FairSpec
INVARIANTS PipelineTypeOK SlotsAccounted
PROPERTIES ImplementsSequential ParseEnds
CHECK_DEADLOCK FALSE
