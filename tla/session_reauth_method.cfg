SPECIFICATION Spec
CONSTANTS
    MaxPkid = 1
    Kinds = {"reauth"}
    Methods = {"m"}
    NoMethod = NoMethod
    ServerPkids = {}
    Expiries = {0, 5}
    Absent = Absent
    KeepAlives <- NoKeepAlive
    QueueSize = 1
    MaxOps = 2
    MaxDeliveries = 0
    MaxEpoch = 2
    MaxSent = 0
INVARIANTS
    AuthMatchesConnection
CHECK_DEADLOCK FALSE
