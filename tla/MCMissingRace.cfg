SPECIFICATION SnowmanSpec
CONSTANTS
    None = None
    Engine = Engine
    g = g
    a1 = a1
    b1 = b1
    a2 = a2
    Blocks = {g, a1, b1}
    Genesis = g
    Parent <- MCParent
    Height <- MCHeight
    WellFormed = {g, a1, b1}
    Own = {b1}
    RetainHeights = {0}
    RPCs = {r1}
    Room = 1
    BytesRoom = 0
INVARIANT
    StoredNotMissing
