\* One purchase with a limit, one change of the price.
SPECIFICATION RailSpec
CONSTANTS
    w1 = w1
    Fixed = {p1}
    Quoted = {}
    ActivationProbes = {}
    SellerProfiles <- TwoPrices
    Limits = {2500}
    QuotedAmount = 400000
    ProbeAmount = 2001
    FeeBps = 100
    Floor = 2000
    MinPayment = 0
    Samples = {3000}
    MaxEdits = 1
    MaxRefreshes = 1
    NoWallet = NoWallet
    NoPrice = NoPrice
    NoSplit = NoSplit
    NoRuntime = NoRuntime
INVARIANTS
    SpendingIsCapped
CHECK_DEADLOCK FALSE
