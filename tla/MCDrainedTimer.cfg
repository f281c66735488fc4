SPECIFICATION MCSpec
CONSTANTS
    QueueSize = 1
    Nodes = {n1}
    NumEntries = 3
    NumPeers = 2
    RequireValidatorToConnect = TRUE
    None = None
    Nobody = Nobody
    NoHandler = NoHandler
    Clients = {1, 2}
    Workers = {w1, w2}
    MaxActive = 2
    IDSpace = 8
    MaxSends = 3
    MaxAmbiguous = 1
    VdrSet <- MCVdrSet
    Quorums = {0, 2, 3}
    QuorumDen = 3
    MaxFailures = 2
    Self = self
    Others = {p1, p2}
PROPERTY
    AggregateReturns
CHECK_DEADLOCK FALSE
