SPECIFICATION PathSpec
CONSTANTS
    Sizes = {0, 2, 5}
    SoftCap = 4
    HardCap = 6
    MaxChanges = 3
    MaxFlushes = 2
    SeqWidth = 32
    TSWidth = 128
    Frame = 4
    PerPacket = 2
    ShortFrames = {2}
    MaxGapLead = 8
    FillBudget = 20
    Pauses = {0, 6, 13, 30}
    Jumps = {5, 30}
    MaxSent = 5
    MaxFaults = 2
INVARIANTS
    GapsBridged
    CorrectionHeld
PROPERTIES
    DriftConverges
CHECK_DEADLOCK FALSE
