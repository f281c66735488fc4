SPECIFICATION Spec
CONSTANTS
    RetainHeights = {0, 2, 3, 9}
    MaxHeight = 4
    MaxStops = 3
INVARIANT
    RestartSucceeds
CHECK_DEADLOCK FALSE
