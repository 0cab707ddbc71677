CONSTANTS
    Workers = {w1, w2}
    Callers = {c1, c2}
    MaxCount = 2
    MaxCalls = 1
    MaxTaskCalls = 0
    TasksMayWait = FALSE
SPECIFICATION FairSpec
PROPERTIES
    ParallelForReturns
    WaitIdleReturns
    DestructorReturns
CHECK_DEADLOCK FALSE
