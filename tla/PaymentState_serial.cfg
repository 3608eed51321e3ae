\* One payload presented twice and a late return; the payload may expire, and its
\* record lapse.  Loads and saves of one file are taken one after the other.
SPECIFICATION Spec
CONSTANTS
    p1 = p1
    a1 = a1
    a2 = a2
    Payments = {p1}
    Hires = {a1, a2}
    NoHire = NoHire
    Lates = {l1}
    Retries = {}
    PaymentOf <- OnePayload
    Outcomes <- MostOutcomes
    LateReturns <- TwoLateReturns
    SettleResults <- BothHashes
    Serialized = TRUE
    Expiring = {p1}
    Lapsing = {p1}
    MaxFaults = 0
    MaxCrashes = 0
    NoWrite = NoWrite
INVARIANTS
    SettledStateIsTrue
    SettlementIsNotDenied
    FreshPaymentIsSafe
    PayloadKeptForItsStay
    DeliveryReachesLedger
    ExecutionStateIsTrue
    BuyerReportIsTrue
PROPERTIES
    LedgerNeverForgets
CONSTRAINT LapsedForOneCall
SYMMETRY SameCalls
CHECK_DEADLOCK FALSE
