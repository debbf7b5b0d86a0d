CONSTANTS
    Scores <- Documents
SPECIFICATION Spec
INVARIANTS
    OperatorsAreWords
    NamesKeptApart
    IdsKnown
    StatisticsAddUp
    DevicesAddUp
