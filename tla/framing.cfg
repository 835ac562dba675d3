SPECIFICATION Spec
CONSTANTS
    Radix = 2
    MaxVarint = 2
    Packets <- SomePackets
    NoPacket = NoPacket
    NumIovecs = 2
    AcceptBelow = 3
    MaxPackets = 3
    MaxCancels = 1
    MaxControl = 1
    Transports = {"tcp", "tls", "ws"}
INVARIANTS
    NoFalseEnd
PROPERTIES
    ImplementsStream
    PacketsArrive
CHECK_DEADLOCK FALSE
