SPECIFICATION Spec
CONSTANTS
    Viewer = {v1, v2}
    QUEUE_LIMIT = 3
INVARIANTS
    GodotTypeOK
    QueueCatchesUp
PROPERTY
    JoinedIsSignalled
