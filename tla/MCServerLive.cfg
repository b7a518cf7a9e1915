SPECIFICATION FairSpec
CONSTANTS
    Conns = {a, b}
    Nicks = {bob}
    Msgs = {hi}
    Versions = {1, 2}
    Sendable <- ComeAndGo
    MaxSent = 3
    FirstFd = 4
PROPERTIES
    AcceptedEventually
    ServedWhileLifo
CHECK_DEADLOCK FALSE
