SPECIFICATION Spec
CONSTANTS
    Regions = 2
    MaxId = 1
    Vecs = {1, 2}
    Files <- Inputs
    CommandLines <- CommandLineSet
    Faults = {"io", "sync", "kill", "power"}
    MaxFaults = 2
INVARIANTS
    TypeOK
    FileIsWhole
    ExitCodeTellsTheOutcome
    SuccessIsDurable
