\* One hire, one late return by the route that finalizes, one settlement retry;
\* no task is cut off.  Beside it, a worker's relay with two jobs, one of them fast.
SPECIFICATION ResolvedSpec
CONSTANTS
    p1 = p1
    a1 = a1
    a2 = a2
    Payments = {p1}
    Hires = {a1}
    NoHire = NoHire
    Lates = {l1}
    Retries = {r1}
    PaymentOf <- OnePayload
    Outcomes <- AllOutcomes
    LateReturns <- RouteReturns
    SettleResults <- PaidHashes
    Serialized = TRUE
    Expiring = {p1}
    Lapsing = {}
    MaxFaults = 0
    MaxCrashes = 0
    NoWrite = NoWrite
    j1 = j1
    j2 = j2
    Jobs = {j1, j2}
    FastJobs = {j2}
    Attempts = 2
    MaxLinks = 2
    MaxRefusals = 1
PROPERTIES
    DeliveryIsResolved
    WorkIsReported
CHECK_DEADLOCK FALSE
