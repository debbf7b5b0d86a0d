CONSTANTS
    Scores <- Documents
SPECIFICATION Spec
INVARIANTS
    WordsAreCounted
