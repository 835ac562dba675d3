SPECIFICATION EitherSystemSpec
CONSTANTS
    MaxPkid = 3
    Kinds = {"q1", "sub", "ping"}
    Methods = {}
    NoMethod = NoMethod
    ServerPkids = {1, 2}
    Expiries = {5}
    Absent = Absent
    KeepAlives <- NoKeepAlive
    QueueSize = 1
    MaxOps = 4
    MaxDeliveries = 5
    MaxEpoch = 3
    MaxSent = 0
    MaxPublishes = 2
INVARIANTS
    ConformingServerAccepted
    CompletedMeansProcessed
    FirstArrivalsInOrder
    PkidsExclusive
    PublishesInOrder
    AcknowledgedByApplication
CHECK_DEADLOCK FALSE
