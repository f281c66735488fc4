SPECIFICATION MCSpec
SYMMETRY Symmetry
CONSTANTS
    k1 = k1
    k2 = k2
    k3 = k3
    k4 = k4
    k5 = k5
    Keys = {k1, k2, k3, k4, k5}
    SizeOf <- MCSizeOf
    MaxSize = 5
    ConfiguredSize = 3
    WordBits = 5
    BitsPerByte = 2
    NumBytes = 3
    Base = 4
    ShortLen = 1
    IntLen = 2
    CodecMaxSize = 9
    MaxBytes = 6
    MaxPart = 2
    MaxHalfLives = 3
    MathBits = 5
    DefaultPerPage = 3
    MaxPerPage = 4
    ChunkSize = 2
    MaxHeight = 5
    ByteBits = 2
    ReservoirSize = 3
    RescaleThreshold = 2
    MaxTime = 6
    Draws = {0, 1, 3}
    None = None
    Primary = Primary
    Absent = Absent
    HeapKeys = {h1, h2, h3, h4}
    HeapValues = {1, 2, 3}
    BiKeys = {1, 2, 3}
    BiValues = {4, 5, 6}
    HashKeys = {k1, k2, k3, k4}
    HashValues = {v1}
    LRUKeys = {1, 2, 3}
    LRUSizes = {0, 1, 2}
    MaxInstances = 6
    PeerIDs = {p1, p2, p3, p4}
    VdrPeers = {p1, p2}
    FitPeers = {p1, p2, p3}
    Quotas = {0, 1}
    SetElements = {1, 2, 3, 4}
    HashBits = 4
    Rotation = 1
    MaxHashes = 2
    MaxEntries = 2
    MaxAdded = 2
    TrackedNodes = {p1, p2, p3}
    TrackerVersions = {1, 2}
    DesiredMinResponsive = 2
    TimerUsers = {u1, u2, u3}
    MaxEvents = 3
    GaugeValues = {1, 2, 3}
    AddressNodes = {t1, t2}
    Subnets = {Primary, X}
    TrackedSubnets = {}
    MaxTimestamp = 2
    MinCountEstimate = 2
    Callers = {c1, c2}
    Names = {n1}
    MetricKinds = {"meter", "gauge"}
    MaxMetrics = 2
    MaxMarks = 1
INVARIANTS
    CachesSound StructuresSound MeasuresTrue AlgorithmsCorrect FormatsReadBack
PROPERTY
    StepsAsPromised
CHECK_DEADLOCK FALSE
