SPECIFICATION MCSpec
CONSTANTS
    None = None
    Absent = Absent
    Nil = Nil
    Engine = Engine
    g = g
    a1 = a1
    b1 = b1
    a2 = a2
    Blocks = {g, a1, b1, a2}
    Genesis = g
    Parent <- MCParent
    Height <- MCHeight
    WellFormed = {g, a1, b1, a2}
    Own = {a2}
    RetainHeights = {0, 2, 9}
    RPCs = {}
    Room = 2
    BytesRoom = 1
    Addresses = {1, 2}
    Powers <- MCPowers
    GenesisVals <- MCGenesisVals
    Timestamps = {1, 2}
    ExecRetainHeights = {0, 3}
    MaxHeight = 4
    ReadBlocks = 4
    MaxPool = 2
    Limit = 1
    Handlers = {h1, h2}
    Txs = {t1, t2}
    Remotes = {r1, r2}
    MaxSubscriptionClients = 2
    MaxSubscriptionsPerClient = 1
    TxBlocks = 2
    Requests = {1, 2}
    WarpBlocks = {"b1"}
    MaxUptime = 1
    HeaderKeys = {"k", "j"}
    HeaderValues = {1, 2}
    StatusCodes = {404, 500, 700}
    Payloads = {"a"}
    MaxCalls = 4
    MaxBytes = 5
    BufSize = 2
    MaxWritten = 5
    WriteBufSize = 2
    Times = {soon, late}
    Past = {soon}
    v1 = v1
    v2 = v2
    n1 = n1
    NoVdr = NoVdr
    ValidationIDs = {v1, v2}
    Nodes = {n1, n2}
    NodeID <- MCNodeID
    StartTime <- MCStartTime
    ClockTimes = {0, 2}
    VdrSubnets = {s1}
    VdrNodes = {n1, n2}
    MaxWeight = 3
    MaxSets = 3
    Conns = {c1, c2}
    Far = Far
    ClaimAddresses <- MCAddresses
    MaxClock = 2
    MaxChanges = 1
    MaxDifference = 1
    Skews <- MCSkews
INVARIANTS
    DecisionsSucceed
    CachesFollowConsensus
    StoredAreServed
    ExecutionInOrder
    PiecesBelongTogether
    CommitAnswersRight
    SignedRight
    ProxyTransparent
    TablesAgree
    UptimesTrue
    UnmarkedOnDisk
    WeightsAccounted
    ClaimsTrue
PROPERTY
    UptimeNeverTaken
CHECK_DEADLOCK FALSE
