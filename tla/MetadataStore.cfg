SPECIFICATION Spec
CONSTANTS
    Threads = {t1, t2}
    Ids = {1}
    Keys = {"a", "b"}
    Values = {0, 1, 2}
    Metas <- TwoKeys
    Config = 0
    NaN = 2
    Zero = 0
    MaxFrames = 2
    Faults = {"stmt", "swallow", "crash"}
SYMMETRY ThreadSymmetry
INVARIANTS
    TypeOK
    QuietMeansCommitted
PROPERTIES
    ImplementsTransactionalRows
