SPECIFICATION ApiSafety
CONSTANTS
    Wsi = {w1}
    MAX_VIEWERS = 1
    NULL = NULL
INVARIANT
    FrameReachesViewers
