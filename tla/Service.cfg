SPECIFICATION EndingSpec
CONSTANTS
    r1 = r1
    r2 = r2
    e1 = e1
    e2 = e2
    Request = {r1, r2}
    Egress = {e1, e2}
    EgressOf <- Distinct
    None = None
INVARIANTS
    Accounted
    HandlersKnown
PROPERTIES
    DrainCompletes
