SPECIFICATION Spec
CONSTANTS
    Pid = {p1, p2}
    NoPid = NoPid
    MAX_LIVES = 3
INVARIANTS
    LifecycleTypeOK
    ChildIsTracked
    AllOrNothing
    CapturingAgrees
PROPERTY
    CallsReturn
