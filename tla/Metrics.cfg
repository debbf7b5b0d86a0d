CONSTANTS
    Scenarios <- Varied
SPECIFICATION FairSpec
INVARIANTS
    ProgramTypeOK
    AssertionHolds
    MarksAgree
    ProgramsSeparate
    ProgramsConnected
    BlocksCoverProgram
    NewBlocks
    BlocksFlow
    CountsParts
PROPERTIES
    Ends
