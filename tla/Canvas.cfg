SPECIFICATION CanvasFairSpec
CONSTANTS
    Keys = {k1, k2}
    MaxDraws = 3
INVARIANTS CanvasIsCurrent
PROPERTIES ExpiredDrawingsDisappear
CHECK_DEADLOCK FALSE
