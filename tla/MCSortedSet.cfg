SPECIFICATION SetSpec
CONSTANTS
    Members = {1, 2, 3}
    MaxLevel = 3
    Header = Header
    Nil = Nil
    Scores <- MCScores
    Borders <- MCBorders
    Limits <- MCLimits
INVARIANTS
    WellFormed
    FindsAll
