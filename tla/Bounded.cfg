CONSTANTS
    Score <- Bounded
    DivisionFactor = 100
    EndDate = 2000
    Horizon = 8
    Decl <- Network
SPECIFICATION FairSpec
INVARIANTS
    NeverSkipped
PROPERTIES
    StartedEnds
    AllPlayed
    ReactiveAgrees
