SPECIFICATION Spec
CONSTANTS
    Viewer = {v1}
    QUEUE_LIMIT = 2
PROPERTY
    LeftIsSignalled
