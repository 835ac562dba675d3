SPECIFICATION FairSystemSpec
CONSTANTS
    MaxPkid = 1
    Kinds = {"q1", "unsub"}
    Methods = {}
    NoMethod = NoMethod
    ServerPkids = {1, 2}
    Expiries = {5}
    Absent = Absent
    KeepAlives <- NoKeepAlive
    QueueSize = 1
    MaxOps = 2
    MaxDeliveries = 2
    MaxEpoch = 1
    MaxSent = 0
    MaxPublishes = 2
PROPERTIES
    OperationsResolve
    AcknowledgementsResolve
CHECK_DEADLOCK FALSE
