CONSTANTS
    Workers = {w1, w2}
    Callers = {c1}
    MaxCount = 2
    MaxCalls = 1
    MaxTaskCalls = 0
    TasksMayWait = FALSE
SPECIFICATION Spec
INVARIANTS
    ChunksEndWithCall
CHECK_DEADLOCK FALSE
