CONSTANTS
    Score <- Rigidity
    DivisionFactor = 100
    EndDate = 800
    Horizon = 9
    Decl <- Network
SPECIFICATION Spec
INVARIANTS
    OnSchedule
