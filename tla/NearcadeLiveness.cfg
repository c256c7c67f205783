SPECIFICATION Spec
CONSTANTS
    Wsi = {w1, w2}
    MAX_VIEWERS = 1
    NULL = NULL
PROPERTIES
    LockIsReleased
    ViewerGetsOffer
    LeaverLosesSession
    ShutdownCompletes
