SPECIFICATION ApiSpec
CONSTANTS
    Wsi = {w1}
    MAX_VIEWERS = 1
    NULL = NULL
PROPERTY
    AskedViewerIsDisconnected
