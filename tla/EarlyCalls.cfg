SPECIFICATION InputSafety
CONSTANTS
    MAX_SLOTS = 1
    Fd = {f3, f4}
    NoFd = NoFd
    Stdin = Stdin
    Caller = {eng, chan}
    NoCaller = NoCaller
    Control = {"BTN_SOUTH"}
    Key = {}
    EARLY_CALLS = TRUE
    Request <- AskedFor
INVARIANT
    WritesToOwnDevices
