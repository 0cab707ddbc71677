SPECIFICATION Spec
CONSTANTS
    MaxId = 3
    Vecs = {0, 1}
    MaxSlots = 5
    Metric = "l2"
    SizeMax = 15
    Oversample = 8
    NaN = 99
    Threads = {t1, t2, t3}
    Workloads <- Work
    IndexType = "hnsw"
    FirstSlots <- Stores
    MetaFails = TRUE
    MaxCount = 75
INVARIANTS
    TypeOK
    ReadsAreAtomic
    MergeIsExact
PROPERTY
    CallsReturn
CHECK_DEADLOCK FALSE
