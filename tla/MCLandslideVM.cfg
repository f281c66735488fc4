SPECIFICATION Spec
CONSTANTS
    None = None
    Engine = Engine
    g = g
    a1 = a1
    b1 = b1
    Blocks = {g, a1, b1}
    Genesis = g
    Parent <- MCParent
    Height <- MCHeight
    WellFormed = {g, a1, b1}
    Own = {a1, b1}
    RetainHeights = {0}
    RPCs = {r1}
    Room = 1
    BytesRoom = 0
INVARIANTS
    ChainLinear
    SignedAccepted
PROPERTY
    ImplementsLedger
SYMMETRY Siblings
