SPECIFICATION Spec
CONSTANTS
    Pid = {p1}
    NoPid = NoPid
    MAX_LIVES = 2
PROPERTY
    OldThreadExits
