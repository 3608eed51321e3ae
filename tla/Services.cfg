\* Every part with a few calls, all interleaved.
SPECIFICATION ServicesSpec
CONSTANTS
    a1 = a1
    g1 = g1
    k1 = k1
    th = th
    sw = sw
    Nothing = Nothing
    Empty = Empty
    Torn = Torn
    Altered = Altered
    Two = {1, 2}
    Three = {1, 2, 3}
    Four = {1, 2, 3}
    WorkshopAgents = {a1}
    SignInLife = 1
    ChallengeLife = 1
    Workspaces = {w1}
    Emails = {e1, e2}
    Threads = {th}
    ConnectorKinds = {k1}
    CodeLife = 1
    SessionLife = 1
    LastTime = 2
    MaxEdits = 1
    Labels = {"acquireLease", "settleTurn", "refundTurn"}
    Owners = {o1, o2}
    MaxAttempts = 2
    MaxAsked = 2
    MaxSponsored = 3
    MaxCrashes = 1
    NoTurn = NoTurn
    NoFile = NoFile
    NoFlow = NoFlow
    Payloads = {1, 2}
    Split = {}
    AnyAgent = AnyAgent
    Before = 0
    After = 1
    LastBlock = 1
    MaxRuns = 1
    NoTime = NoTime
    NoTx = NoTx
    NoRun = NoRun
    NotRead = NotRead
    Downloads = {d1}
    Receipts = {1}
    ArtFiles <- SomeFiles
    ArtPolicies <- SomePolicies
    Retention = 1
    MaxPerRequest = 2
    MaxBytesPerRequest = 2
    NoClient = NoClient
    NoThread = NoThread
    NoSwarm = NoSwarm
    NoPost = NoPost
    Budget = 2
    SwarmBudget = 1
    SoftLimit = 2
    Window = 1
    BoardLimit = 2
    BoardTime = 1
    Seals = {1, 2}
    Opens = {1}
    Visibilities = {"operator-blind"}
    Roles = {"operator"}
    MaxFailed = 1
    Stale = 1
    Cooldown = 1
    Guard = 1
    LaneTime = 1
    MaxFaults = 1
    HireIds = {1}
    HireOrders <- SomeOrders
    HirePackages <- SomePackages
    Skews <- SomeSkews
    MaxAge = 1
    ReplayTtl = 2
    PerMinute = 1
    IngressTime = 3
    MaxIngressCrashes = 1
    Bought = {"s1", "s2"}
    AskedTerms <- SomeTerms
    NotPaid = {"s2"}
    MaxQuotes = 1
    MaxTries = 2
    MaxPays = 2
    GasRoutes <- SomeRoutes
    Markets <- SomeMarkets
    MinNative = 2
    TargetNative = 4
    MaxUsdc = 12
    SlippageBps = 500
    Treasury = 20
    FirstNative = 2
    MaxMoves = 1
    MaxGas = 1
    Life = 1
INVARIANTS
    BooksAddUp
    
    ArtifactsHold
    BoardHolds
    AccessIsEarned
    BlobsHold
    LaneHolds
    IngressHolds
    ToolsHold
    TopUpsAreBounded
    ProofsHold
CHECK_DEADLOCK FALSE
