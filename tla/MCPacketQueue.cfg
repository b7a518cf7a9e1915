SPECIFICATION Spec
CONSTANTS
    Chunk = 256
    PtrBytes = 8
    GcLimit = 100
    MaxPackets <- MCMaxPackets
INVARIANTS
    EmptySlotIsNull
    CompactionFindsQueueEmpty
PROPERTY
    ImplementsFifo
CHECK_DEADLOCK FALSE
