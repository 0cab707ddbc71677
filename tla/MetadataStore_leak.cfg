SPECIFICATION Spec
CONSTANTS
    Threads = {t1}
    Ids = {1}
    Keys = {"a", "b"}
    Values = {0, 1, 2}
    Metas <- TwoKeys
    Config = 0
    NaN = 2
    Zero = 0
    MaxFrames = 1
    Faults = {"stmt", "abort", "begin", "commit", "swallow", "crash"}
PROPERTIES
    FailedCallUndone
