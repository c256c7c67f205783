SPECIFICATION InputSpec
CONSTANTS
    MAX_SLOTS = 2
    Fd = {f3, f4, f5}
    NoFd = NoFd
    Stdin = Stdin
    Caller = {eng, chan}
    NoCaller = NoCaller
    Control = {"BTN_SOUTH"}
    Key = {"LSHIFT", "Z"}
    EARLY_CALLS = FALSE
    Request <- AskedFor
INVARIANTS
    InputTypeOK
    DescriptorsTracked
    WritesToOwnDevices
    DeviceShowsRequests
PROPERTY
    InputLockReturns
