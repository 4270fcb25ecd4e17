CONSTANTS
    t1 = t1
    t2 = t2
    Tracks = {t1, t2}
    ScreenShares = {}
    Canvas <- MCCanvas
    Levels = {0, 1}
    MaxNames = 2
    Plans <- MCPlans
SPECIFICATION Spec
INVARIANTS
    NoEarlyEOS
    PictureAgrees
PROPERTIES
    NoTrackBehindEOS
    SelectorMovesOn
CHECK_DEADLOCK FALSE
