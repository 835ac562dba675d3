SPECIFICATION MCSpec
CONSTANTS
    MaxPkid = 4
INVARIANTS
    PoolTypeOK
    ScanTerminates
PROPERTIES
    ReusedAfterFullTurn
