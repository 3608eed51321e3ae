\* One hire whose seller accepts the request without a return package.
SPECIFICATION Spec
CONSTANTS
    p1 = p1
    a1 = a1
    a2 = a2
    Payments = {p1}
    Hires = {a1}
    NoHire = NoHire
    Lates = {l1}
    Retries = {}
    PaymentOf <- OnePayload
    Outcomes <- SilentOutcomes
    LateReturns <- RouteReturns
    SettleResults <- BothHashes
    Serialized = TRUE
    Expiring = {}
    Lapsing = {}
    MaxFaults = 0
    MaxCrashes = 0
    NoWrite = NoWrite
INVARIANTS
    FreshMeansTerminal
CHECK_DEADLOCK FALSE
