SPECIFICATION Spec
CONSTANTS
    ClientKeepAlives <- SomeKeepAlives
    ServerKeepAlives = {0, 2, 5, Absent}
    Absent = Absent
    Methods = {"m1", "m2"}
    NoMethod = NoMethod
    ConnectTimeout = 2
    ManualPings = {TRUE, FALSE}
    WritesBlock = {TRUE, FALSE}
    MaxPings = 3
    MaxChallenges = 2
INVARIANTS
    
    ResponseAwaitedWithinTimeout
    SilentServerDetected
PROPERTIES
    NoFalseTimeout
