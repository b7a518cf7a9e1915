SPECIFICATION Spec
CONSTANTS
    Conns = {a, b}
    Nicks = {bob}
    Msgs = {hi}
    Versions = {1, 2}
    Sendable <- Anything
    MaxSent = 3
    FirstFd = 2
SYMMETRY ConnSymmetry
INVARIANTS
    TypeOK
    DisconnectIsLast
    NicknameConfirmed
PROPERTY
    ImplementsChatRoom
CHECK_DEADLOCK FALSE
