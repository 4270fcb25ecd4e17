SPECIFICATION FairSpec
CONSTANTS
    e1 = e1
    e2 = e2
    w1 = w1
    Egress = {e1, e2}
    Worker = {w1}
    Status = {active, ended}
    WorkerOf <- MCWorkerOf
    QueueCap = 1
    MaxPending = 2
    HasDeadline = TRUE
    MaxUpdates <- MCUpdates
    MaxCreates = 1
    NoEgress = NoEgress
INVARIANTS
    TypeOK
    OneWakeUp
    NothingLostSilently
    DeliveriesAllowed
PROPERTIES
    Settles
