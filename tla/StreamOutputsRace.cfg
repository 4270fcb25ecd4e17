SPECIFICATION Spec
CONSTANTS
    a = a
    b = b
    c = c
    u = u
    v = v
    w = w
    Stream = {a, b, c}
    Url = {u, v, w}
    UrlOf <- Urls
    Initial = {a, b}
    Removable = {a}
    Failing = {a}
    Caller = {c1}
    MaxCalls = 1
    Other = 0
    NeedsStart = TRUE
    Watch = Watch
    NoStream = NoStream
CHECK_DEADLOCK FALSE
PROPERTIES
    HealthyNotEnded
