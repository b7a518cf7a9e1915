SPECIFICATION Spec
CONSTANTS
    Chunk = 256
    PtrBytes = 8
    GcLimit = 100
    MaxPackets <- MCMaxPackets
INVARIANT
    ResizedIfNeeded
CHECK_DEADLOCK FALSE
