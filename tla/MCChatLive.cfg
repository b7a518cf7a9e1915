SPECIFICATION FairChatSpec
CONSTANTS
    Conns = {a, b}
    Nicks = {bob}
    Msgs = {hi}
    Versions = {1}
    Sendable <- NoPackets
    MaxSent = 3
    FirstFd = 4
    Users = {ann, joe}
    Configured = {bob}
PROPERTIES
    NicknameTakesEffect
    MessageEchoed
    LeaversRemoved
CHECK_DEADLOCK FALSE
