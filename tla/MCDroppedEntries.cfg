SPECIFICATION IterSpec
CONSTANTS
    Keys = {"a"}
    Empty = Empty
    None = None
    NumEntries = 4
    MaxBatch = 2
    MaxCalls = 5
INVARIANT LoadReadsAll
CHECK_DEADLOCK FALSE
