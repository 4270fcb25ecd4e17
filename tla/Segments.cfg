SPECIFICATION FairSpec
CONSTANTS
    Configs <- MostConfigs
    MaxSegments = 3
    QueueCap = 1
    Window = 2
INVARIANTS
    PlaylistsTrue
    ClosedIsComplete
PROPERTIES
    CloseReturns
