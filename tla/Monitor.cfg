SPECIFICATION FairSpec
CONSTANTS
    a = a
    b = b
    c = c
    Egress = {a, b, c}
    NoEgress = NoEgress
    NumCPU = 5
    CpuLimit = 4
    Headroom = 1
    MaxPulseClients = 4
    PulseHold = 4
    MinKill = 3
    LowReset = 2
    CpuGrace = 2
    MemoryGrace = 2
    Unread = Unread
    Workloads <- AllWorkloads
INVARIANTS
    BooksFit
PROPERTIES
    StopsRightly
    OverloadRelieved
