CONSTANTS
    Dispatchers = {main}
    PoolSize = 2
    ItemsPerAlloc = 2
    MaxBlocks = 3
    BuffLen = 2
    Messages <- Sockets
    MaxSends = 5
    PipeCapacity = 2
    MaxLostBytes = 0
SPECIFICATION FairSpec
INVARIANTS
    EvenShares
PROPERTY
    EverythingHandled
