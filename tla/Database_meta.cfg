CONSTANTS
    MaxId = 2
    MaxSlots = 2
    Vecs = {v1}
    Metas = {m1}
    NoMeta = NoMeta
    IndexTypes = {"hnsw", "brute"}
    Faults = {"meta"}
    Places = {v1}
    Place <- OwnPlace
SPECIFICATION Spec
INVARIANTS
    AutoIdsAreFresh
