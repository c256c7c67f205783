SPECIFICATION Safety
CONSTANTS
    Pid = {p1, p2}
    NoPid = NoPid
    MAX_LIVES = 2
INVARIANT
    StartStartsCapture
