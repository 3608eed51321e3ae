\* Every part with a few calls, all interleaved.
SPECIFICATION StoresSpec
CONSTANTS
    s1 = s1
    s2 = s2
    t1 = t1
    g1 = g1
    g2 = g2
    w1 = w1
    w2 = w2
    Tasks = {1, 2, 3}
    Sessions = {s1, s2}
    Tickets = {t1}
    SessionOf <- OneTicket
    SelfServe = {s2}
    Setups = {e1}
    Urls = {u1}
    MaxCrashes = 1
    NoTask = NoTask
    NoUrl = NoUrl
    NoWrite = NoWrite
    Callers = {c1, c2}
    Intents = {1, 2}
    Agents = {g1, g2}
    Keys = {x1}
    NoKey = NoKey
    NoAgent = NoAgent
    MaxCalls = 5
    RelayAgents = {g2}
    Posts <- SomePosts
    DefaultTtl = 3
    MinTtl = 2
    MaxTtl = 5
    WriteInterval = 2
    MinFresh = 2
    MaxTime = 4
    MaxBeats = 3
    NoRecord = NoRecord
    Conns = {n1, n2}
    Calls = {m1}
    Fixed = {p1}
    Quoted = {q1}
    ActivationProbes = {}
    SellerProfiles <- SomeProfiles
    Limits = {2500}
    QuotedAmount = 400000
    ProbeAmount = 2001
    FeeBps = 100
    Floor = 2000
    MinPayment = 0
    Samples = {3000, 5000}
    MaxEdits = 1
    MaxRefreshes = 1
    NoWallet = NoWallet
    NoPrice = NoPrice
    NoSplit = NoSplit
    NoRuntime = NoRuntime
    Readers = {1, 2}
    Writers = {1, 2}
    Refreshes = {f1, f2}
    Concurrency = 1
    MaxQueued = 1
    NoEntry = NoEntry
    NoRefresh = NoRefresh
INVARIANTS
    OwnershipIsBacked
    UrlsAreUnique
    TicketMakesOneOwner
    AwardsAgree
    PaidOnALease
    CallsAccountedFor
    ReturnsAreKept
    OffersHold
    AnswersFollowWrites
CHECK_DEADLOCK FALSE
