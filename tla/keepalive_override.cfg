SPECIFICATION Spec
CONSTANTS
    ClientKeepAlives <- LongInterval
    ServerKeepAlives = {2, Absent}
    Absent = Absent
    Methods = {}
    NoMethod = NoMethod
    ConnectTimeout = 2
    ManualPings = {FALSE}
    WritesBlock = {FALSE}
    MaxPings = 3
    MaxChallenges = 0
INVARIANTS
    ResponseTimeoutEnforced
CHECK_DEADLOCK FALSE
