SPECIFICATION ChatSpec
CONSTANTS
    Conns = {a, b, c}
    Nicks = {bob}
    Msgs = {hi}
    Versions = {1}
    Sendable <- NoPackets
    MaxSent = 3
    FirstFd = 4
    Users = {ann, joe}
    Configured = {bob}
SYMMETRY Symmetry
INVARIANT
    NeverKickedWhileLifo
CHECK_DEADLOCK FALSE
