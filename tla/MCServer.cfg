SPECIFICATION Spec
CONSTANTS
    Conns = {a, b, c, d}
    Nicks = {bob}
    Msgs = {hi}
    Versions = {1, 2}
    Sendable <- ComeAndGo
    MaxSent = 1
    FirstFd = 2
SYMMETRY ConnSymmetry
INVARIANTS
    ListenerPolled
    DescriptorsMatchClients
    MirroredWhileLifo
    ShutdownTellsEveryOther
CHECK_DEADLOCK FALSE
