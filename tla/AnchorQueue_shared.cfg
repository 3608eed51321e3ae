\* Two candidates of one session of the shared lane, one call of the operator, one
\* restart; a batch is given up after one try.
SPECIFICATION FairSpec
CONSTANTS
    x1 = x1
    x2 = x2
    s1 = s1
    Items = {x1, x2}
    Sessions = {s1}
    Owner <- OneSession
    Priority = {}
    Shared = shared
    Operators = {o1}
    MaxTries = 1
    MaxCrashes = 1
INVARIANTS
    ConfirmedIsAnchored
PROPERTIES
    ActiveIsKept
    SharedIsResolved
CHECK_DEADLOCK FALSE
