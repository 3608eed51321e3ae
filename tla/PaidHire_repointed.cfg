\* One payload presented twice and a late return by the route that finalizes; no
\* task is cut off.
SPECIFICATION FairSpec
CONSTANTS
    p1 = p1
    a1 = a1
    a2 = a2
    Payments = {p1}
    Hires = {a1, a2}
    NoHire = NoHire
    Lates = {l1}
    Retries = {}
    PaymentOf <- OnePayload
    Outcomes <- FewOutcomes
    LateReturns <- RouteReturns
    SettleResults <- BothHashes
    Serialized = TRUE
    Expiring = {}
    Lapsing = {}
    MaxFaults = 0
    MaxCrashes = 0
    NoWrite = NoWrite
PROPERTIES
    DeliveryIsResolved
CHECK_DEADLOCK FALSE
