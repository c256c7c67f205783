SPECIFICATION PathSafety
CONSTANTS
    Wsi = {w1, w2}
    MAX_VIEWERS = 1
    NULL = NULL
    MAX_SLOTS = 1
    Fd = {f3, f4}
    NoFd = NoFd
    Stdin = Stdin
    Caller = {"eng"}
    NoCaller = NoCaller
    Control = {}
    Key = {}
    Request = {}
    EARLY_CALLS = FALSE
INVARIANTS
    NearcadeInductive
    InputInductive
    DevicesSoFar
    PathInductive
    DownIsDeviceless
    LocksAreApart
    BackendOutlivesRtc
    SenderIsRegistered
