SPECIFICATION Spec
CONSTANTS
    Tracks <- MCTracks
    Video <- MCVideo
    OpCap = 9
    Plans <- MCPlans
INVARIANTS
    TracksFollowed
    TracksDecide
PROPERTIES
    CloseCompletes
CHECK_DEADLOCK FALSE
