CONSTANTS
    Rounds = 2
    NThreads <- PoolSizes
SPECIFICATION FairSpec
INVARIANTS
    TypeOK
    ReturnsAfterRegistration
    CountIsExact
    NoMissedSignal
PROPERTY
    StartupEnds
