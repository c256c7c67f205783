SPECIFICATION SigSpec
CONSTANTS
    Wsi = {w1, w2, w3}
    MAX_VIEWERS = 2
    NULL = NULL
INVARIANTS
    SigTypeOK
    CountMatchesTable
    OneEntryPerConnection
    EntriesAreLive
    FramesAreSound
PROPERTIES
    HostLostOnlyByOwnClose
    ClosedIsForgotten
    ThreadExits
    ShutdownClosesAll
