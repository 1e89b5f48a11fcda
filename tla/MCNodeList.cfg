CONSTANTS
    Writers = {w1, w2}
    Readers = {r1}
    SNs = {s1, s2, s3}
    MaxNodes = 3
    Builds = {TRUE, FALSE}
SPECIFICATION FairSpec
INVARIANTS
    TypeOK
    WalkIsSafe
    OneNodePerSN
    MissesNothing
    WellLinked
PROPERTY
    WalkEnds
