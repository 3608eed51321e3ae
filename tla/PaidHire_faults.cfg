\* Every handler once, with an expiring payload, a save that fails and a restart.
SPECIFICATION Spec
CONSTANTS
    p1 = p1
    a1 = a1
    a2 = a2
    Payments = {p1}
    Hires = {a1}
    NoHire = NoHire
    Lates = {l1}
    Retries = {r1}
    PaymentOf <- OnePayload
    Outcomes <- FaultOutcomes
    LateReturns <- MixedLateReturns
    SettleResults <- SomeHashes
    Serialized = FALSE
    Expiring = {p1}
    Lapsing = {}
    MaxFaults = 1
    MaxCrashes = 1
    NoWrite = NoWrite
INVARIANTS
    ChargeNeedsDelivery
    RecordedSettlementIsReal
    Provenance
CHECK_DEADLOCK FALSE
