CONSTANTS
    Scenarios <- Varied
SPECIFICATION Spec
INVARIANTS
    IntervalsAreEdges
