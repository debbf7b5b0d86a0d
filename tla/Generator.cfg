CONSTANTS
    Steps = {2, 5}
    MaxOffset = 2
    Offsets = {0, 1}
    ImportDuration = 1
    ImportMin = 1
    ImportMax = 1
    MaxGrowth = 5
SPECIFICATION Spec
INVARIANTS
    TypeOK
    StatesSingle
    StartIsFirst
    OthersReached
    Forward
    DatesBounded
    GeneratedConverts
