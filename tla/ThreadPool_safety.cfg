CONSTANTS
    Workers = {w1, w2}
    Callers = {c1, c2}
    MaxCount = 3
    MaxCalls = 1
    MaxTaskCalls = 1
    TasksMayWait = TRUE
SPECIFICATION Spec
INVARIANTS
    TypeOK
    ActiveCounts
    TasksConserved
    NoLostWakeup
    ParallelForComplete
    ShutdownDrains
PROPERTIES
    IdleMeansDone
CHECK_DEADLOCK FALSE
SYMMETRY ThreadSymmetry
