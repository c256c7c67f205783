SPECIFICATION PathSafety
CONSTANTS
    Wsi = {w1}
    MAX_VIEWERS = 1
    NULL = NULL
    MAX_SLOTS = 1
    Fd = {f3}
    NoFd = NoFd
    Stdin = Stdin
    Caller = {"eng"}
    NoCaller = NoCaller
    Control = {}
    Key = {}
    Request = {}
    EARLY_CALLS = FALSE
INVARIANT
    ViewerInputIsInjected
