SPECIFICATION Spec
CONSTANTS
    MAX_LEN = 5
    RX_SIZE = 8
    EVENT_SIZE = 5
CHECK_DEADLOCK FALSE
INVARIANT
    AnswerSurvives
