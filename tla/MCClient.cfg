SPECIFICATION Spec
CONSTANTS
    Conns = {a, b}
    Nicks = {bob}
    Msgs = {hi}
    Versions = {1, 2}
    Sendable = {}
    MaxSent = 4
    Users = {ann}
    Configured <- NickOrNone
    Writable <- AnyPacket
    MaxWritten = 2
SYMMETRY ConnSymmetry
INVARIANTS
    LeaksOnlyUnknownVersion
    DisconnectIsLast
    ShownIsRead
PROPERTY
    NicknameOnFirstProto
CHECK_DEADLOCK FALSE
