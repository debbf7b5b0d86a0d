CONSTANTS
    Score <- TriggeredMerge
    DivisionFactor = 100
    EndDate = 600
    Horizon = 7
    Decl <- Network
SPECIFICATION Spec
PROPERTIES
    WaitsForAll
