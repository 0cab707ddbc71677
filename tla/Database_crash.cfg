CONSTANTS
    MaxId = 1
    MaxSlots = 2
    Vecs = {v1, v2}
    Metas = {m1}
    NoMeta = NoMeta
    IndexTypes = {"hnsw"}
    Faults = {"crash", "io", "meta"}
    Places = {"here"}
    Place <- OnePlace
SPECIFICATION Spec
INVARIANTS
    StoreAgrees
    LiveIdsUnique
    IndexCoversStore
    HintIsSafe
    CleanIsDurable
    CleanChecksClean
PROPERTIES
    ImplementsSnapshotStore
SYMMETRY VecSymmetry
CHECK_DEADLOCK FALSE
