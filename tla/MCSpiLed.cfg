SPECIFICATION FairSpec
CONSTANTS
    ROWS = 4
    INT_RANGE = 8
    Lengths = {3, 4}
    MaxPatterns = 2
INVARIANTS
    TypeOK
    OneLink
    LatchedWordIsWhole
PROPERTIES
    IsDisplay
    RowsAreLit
    PatternIsShown
