SPECIFICATION FairSpec
CONSTANTS
    Writable <- MCWritable
    RoundTrips <- MCRoundTrips
    MaxSent = 3
    Cuts = {1, 4, 9}
INVARIANTS
    EncodingIsInvertible
    ReceivedInOrder
PROPERTIES
    GarbledOnlyBySplit
    AllReceived
CHECK_DEADLOCK FALSE
