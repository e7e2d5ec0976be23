SPECIFICATION Spec
CONSTANTS
    TeamSize = 3
    Width = 2
    Elements <- MCElements
    MaxElemNodes = 3
INVARIANTS
    NoRace
    NothingStale
    ResultComplete
    LoadsFitScratch
CHECK_DEADLOCK FALSE
