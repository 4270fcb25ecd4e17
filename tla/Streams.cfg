SPECIFICATION StreamsSpec
CONSTANTS
    a = a
    b = b
    c = c
    u = u
    v = v
    w = w
    Stream = {a, b, c}
    Url = {u, v, w}
    UrlOf <- Urls
    Initial = {a, b}
    Removable = {a}
    Failing = {b}
    Caller = {c1}
    MaxCalls = 1
    Other = 0
    NeedsStart = TRUE
    Watch = Watch
    NoStream = NoStream
    Idle = 2
    MaxBytes = 5
    MaxErrors = 2
INVARIANTS
    OutputsSettled
PROPERTIES
    HealthyNotEnded
    SteadyStreamStays
    StalledStreamEnds
CHECK_DEADLOCK FALSE
