CONSTANTS
    Score <- Interactive
    DivisionFactor = 100
    EndDate = 400
    Horizon = 5
    Decl <- Network
SPECIFICATION FairSpec
INVARIANTS
    NoControlError
    StoppedAtEnd
    OpensWithHolder
PROPERTIES
    PlaysScore
    WaitsForTrigger
    KillReaches
