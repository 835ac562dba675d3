SPECIFICATION Spec
CONSTANTS
    Applications <- Competitors
    Capacity = 1
    PkidCount = 1
    MaxUnacked = 2
INVARIANTS
    FlushedWhileWaiting
PROPERTIES
    DisconnectServed
    AcksServed
    
    
