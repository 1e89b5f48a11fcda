CONSTANTS
    Dispatchers = {d1, d2}
    PoolSize = 2
    ItemsPerAlloc = 2
    MaxBlocks = 2
    BuffLen = 3
    Messages <- Strings
    MaxSends = 3
    PipeCapacity = 2
    MaxLostBytes = 1
SPECIFICATION Spec
SYMMETRY Symmetry
INVARIANTS
    TypeOK
    EachItemInOnePlace
    ItemsMatchNotifications
    FifoIntact
