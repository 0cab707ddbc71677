CONSTANTS
    MaxId = 2
    MaxSlots = 2
    Vecs = {v1}
    Metas = {m1}
    NoMeta = NoMeta
    IndexTypes = {"hnsw"}
    Faults = {"crash"}
    Places = {v1}
    Place <- OwnPlace
SPECIFICATION Spec
INVARIANTS
    GraphDescribesStore
CHECK_DEADLOCK FALSE
