SPECIFICATION EitherSpec
CONSTANTS
    MaxPkid = 1
    Kinds = {"q0", "q1", "sub", "unsub", "ping", "reauth"}
    Methods = {"m"}
    NoMethod = NoMethod
    ServerPkids = {1, 2}
    Expiries = {0, 5}
    Absent = Absent
    KeepAlives <- SomeKeepAlives
    QueueSize = 1
    MaxOps = 2
    MaxDeliveries = 3
    MaxEpoch = 3
    MaxSent = 2
INVARIANTS
    TypeOK
    PubAcksInArrivalOrder
    AcksCompleteInOrder
    NoForgedAck
    AckTracker
    NotifierConservation
    ReplayCoversInflight
CHECK_DEADLOCK FALSE
