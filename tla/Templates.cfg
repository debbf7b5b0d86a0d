CONSTANTS
    Decl <- Templates
    Horizon = 6
SPECIFICATION Spec
INVARIANTS
    TypeOK
    ControlCounts
    ClocksInBounds
    EnabledHasFlag
    ControlTellsSkipFromPlay
PROPERTIES
    MinimumRespected
