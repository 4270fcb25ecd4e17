SPECIFICATION Spec
CONSTANTS
    QueueDepth = 2
    FlushingThreshold = 2
    MaxPackets = 3
INVARIANTS
    DrainsAll
    AlarmAfterRecovery
PROPERTIES
    KeepsContract
CHECK_DEADLOCK FALSE
