SPECIFICATION InputSafety
CONSTANTS
    MAX_SLOTS = 1
    Fd = {f3, f4}
    NoFd = NoFd
    Stdin = Stdin
    Caller = {eng, chan}
    NoCaller = NoCaller
    Control = {"ABS_X", "BTN_SOUTH"}
    Key = {"LSHIFT", "Z"}
    EARLY_CALLS = FALSE
    Request <- AskedFor
SYMMETRY Symmetry
INVARIANTS
    InputInductive
    DevicesSoFar
    DeviceShowsRequests
