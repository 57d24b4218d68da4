CONSTANTS
    Cells <- Board
    Boats <- BoardBoats
    NoCell = 0
SPECIFICATION FairSpec
CHECK_DEADLOCK FALSE
INVARIANTS
    TypeOK
    OneBaton
PROPERTIES
    GameSpec
    GameIsShort
    GameEnds
