CONSTANTS
    MaxId = 1
    MaxSlots = 3
    Vecs = {v1, v2}
    Metas = {m1}
    NoMeta = NoMeta
    IndexTypes = {"hnsw", "brute"}
    Faults = {}
    Places = {v1, v2}
    Place <- OwnPlace
SPECIFICATION Spec
INVARIANTS
    TypeOK
    IndexDescribesStore
    NoOrphanRows
    AutoIdsAreFresh
PROPERTIES
    InsertedAsGiven
    ImplementsDurableMap
SYMMETRY VecSymmetry
