SPECIFICATION Spec
CONSTANTS
    N = 2
    MaxDraw = 2
    MaxCalls = 5
    MaxQueue = 3
    HasAlpha = FALSE
    Liberties = {}
INVARIANT
    RegionsTellWhere
PROPERTIES
    NoTearing
    ImplementsCanvas
CHECK_DEADLOCK FALSE
