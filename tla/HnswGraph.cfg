CONSTANTS
    Points = {0, 1, 3}
    Dist <- SquaredDistance
    M = 2
    EfConstruction = 3
    EfSearch = {1, 2}
    MaxLevel = 1
    MaxNodes = 4
    MaxMoves = 1
SPECIFICATION FairSpec
INVARIANTS
    TypeOK
    ReaderAccepts
    NobodyIsolated
    BeamIsClosed
PROPERTIES
    CallsReturn
