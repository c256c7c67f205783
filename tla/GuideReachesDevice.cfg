SPECIFICATION InputSafety
CONSTANTS
    MAX_SLOTS = 1
    Fd = {f3, f4}
    NoFd = NoFd
    Stdin = Stdin
    Caller = {eng, chan}
    NoCaller = NoCaller
    Control = {"BTN_SOUTH", "BTN_MODE"}
    Key = {}
    EARLY_CALLS = FALSE
    Request <- AskedFor
INVARIANT
    GuideReachesDevice
