SPECIFICATION Safety
CONSTANTS
    Wsi = {w1, w2, w3}
    MAX_VIEWERS = 2
    NULL = NULL
SYMMETRY ConnectionSymmetry
INVARIANTS
    NearcadeInductive
    FramesMatchTable
