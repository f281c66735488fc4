SPECIFICATION MCSpec
CONSTANTS
    RetainHeights = {0, 2, 3, 9}
    MaxHeight = 4
    MaxStops = 3
    Txs = {t1, t2}
    MaxForeign = 2
    MaxLost = 1
    Servers = {s1, s2}
    MaxSignals = 3
    NumEntries = 4
    MaxBatch = 2
    MaxCalls = 5
    Messages = {m1, m2, m3}
    BufferSize = 1
    Nodes = {n1, n2}
    Threshold = 2
    MinimumFailingDuration = 0
    Duration = 3
    PortionNum = 2
    PortionDen = 3
    Weights = {0, 1, 2}
    MaxTime = 2
    Keys = {}
    Empty = Empty
    None = None
    Unset = Unset
INVARIANTS
    StoresWithinOne
    InitializeHonest
    ExitsAfterShutdown
    DatabaseInOrder
    ExactlyOnce
    BenchWithinPortion
PROPERTIES
    RestartCompletes
    TxsGetAccepted
    
CHECK_DEADLOCK FALSE
