SPECIFICATION Spec
CONSTANTS
    Object = {o1, o2, o3}
    Thread = {t1, t2}
    NULL = NULL
CHECK_DEADLOCK FALSE
INVARIANT
    NewFindsNoOther
